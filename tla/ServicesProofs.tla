--------------------------- MODULE ServicesProofs ---------------------------
(***************************************************************************)
(* Theorems about the dispatcher of 18-02-22-Assignment (Dispatcher.tla)    *)
(* and the toll plaza of 04-03-22-Mid-solutions (Toll.tla).                 *)
(***************************************************************************)
EXTENDS Toll, Dispatcher, FiniteSetTheorems, SequenceTheorems, WellFoundedInduction, TLAPS

LEMMA SeqTypes ==
  ASSUME NEW S, NEW s \in Seq(S)
  PROVE  /\ Len(s) \in Nat
         /\ <<>> \in Seq(S)
         /\ s # <<>> => Head(s) \in S /\ Tail(s) \in Seq(S) /\ Len(Tail(s)) = Len(s) - 1
         /\ \A x \in S : Append(s, x) \in Seq(S) /\ Len(Append(s, x)) = Len(s) + 1
  OBVIOUS

LEMMA ElementType ==
  ASSUME NEW S, NEW s \in Seq(S), NEW i \in 1..Len(s)
  PROVE  s[i] \in S
  OBVIOUS

LEMMA ExceptType ==
  ASSUME NEW A, NEW S, NEW f \in [A -> S], NEW a, NEW x, a \in A => x \in S
  PROVE  [f EXCEPT ![a] = x] \in [A -> S]
  OBVIOUS

LEMMA TailAt ==
  ASSUME NEW S, NEW s \in Seq(S), s # <<>>
  PROVE  /\ 1 \in 1..Len(s) /\ s[1] = Head(s)
         /\ \A k \in 1..Len(Tail(s)) : k + 1 \in 1..Len(s) /\ Tail(s)[k] = s[k + 1]
  OBVIOUS

LEMMA AppendAt ==
  ASSUME NEW S, NEW s \in Seq(S), NEW x \in S
  PROVE  \A k \in 1..Len(Append(s, x)) :
            IF k = Len(s) + 1 THEN Append(s, x)[k] = x
            ELSE k \in 1..Len(s) /\ Append(s, x)[k] = s[k]
  OBVIOUS

LEMMA OneTuple ==
  ASSUME NEW S, NEW x \in S
  PROVE  <<x>> \in Seq(S) /\ Len(<<x>>) = 1 /\ <<x>>[1] = x
  OBVIOUS

LEMMA Tuples ==
  ASSUME NEW S, NEW x \in S, NEW y \in S
  PROVE  /\ <<x>> # <<>> /\ Head(<<x>>) = x /\ Tail(<<x>>) = <<>> /\ Append(<<>>, x) = <<x>>
         /\ <<x, y>> # <<>> /\ Head(<<x, y>>) = x /\ Tail(<<x, y>>) = <<y>>
         /\ Append(<<x>>, y) = <<x, y>> /\ <<x, y>> # <<x>>
         /\ <<x>> = <<y>> => x = y
  <1>1. <<x>> # <<>> /\ Head(<<x>>) = x /\ Append(<<>>, x) = <<x>>
    OBVIOUS
  <1>2. Tail(<<x>>) = <<>>
    OBVIOUS
  <1>3. <<x, y>> # <<>> /\ Head(<<x, y>>) = x /\ <<x, y>> # <<x>>
    OBVIOUS
  <1>4. Tail(<<x, y>>) = <<y>>
    <2>. PICK t : t = Tail(<<x, y>>)
      OBVIOUS
    <2>1. <<x, y>> \in Seq(S) /\ Len(<<x, y>>) = 2 /\ <<x, y>>[2] = y /\ <<x, y>> # <<>>
      OBVIOUS
    <2>2. t \in Seq(S) /\ Len(t) = 1
      BY <2>1, SeqTypes
    <2>3. t[1] = y
      <3>1. 1 \in 1..Len(t)
        BY <2>2
      <3>2. t[1] = <<x, y>>[1 + 1]
        BY <2>1, <3>1, TailAt
      <3>. QED
        BY <2>1, <3>2
    <2>4. <<y>> \in Seq(S) /\ Len(<<y>>) = 1 /\ <<y>>[1] = y
      BY OneTuple
    <2>5. \A i \in 1..Len(t) : t[i] = <<y>>[i]
      BY <2>2, <2>3, <2>4
    <2>. QED
      BY <2>2, <2>4, <2>5, SeqEqual
  <1>5. Append(<<x>>, y) = <<x, y>>
    <2>. PICK s : s = <<x>>
      OBVIOUS
    <2>1. s \in Seq(S) /\ Len(s) = 1 /\ s[1] = x
      BY OneTuple
    <2>. PICK t : t = Append(s, y)
      OBVIOUS
    <2>2. t \in Seq(S) /\ Len(t) = 2
      BY <2>1, SeqTypes
    <2>3. t[1] = x /\ t[2] = y
      <3>1. 1 \in 1..Len(t) /\ 2 \in 1..Len(t)
        BY <2>2
      <3>. QED
        BY <2>1, <3>1, AppendAt
    <2>. PICK u : u = <<x, y>>
      OBVIOUS
    <2>4. u \in Seq(S) /\ Len(u) = 2 /\ u[1] = x /\ u[2] = y
      OBVIOUS
    <2>5. \A i \in 1..Len(t) : t[i] = u[i]
      BY <2>2, <2>3, <2>4
    <2>. QED
      BY <2>2, <2>4, <2>5, SeqEqual
  <1>6. <<x>> = <<y>> => x = y
    OBVIOUS
  <1>. QED
    BY <1>1, <1>2, <1>3, <1>4, <1>5, <1>6

-----------------------------------------------------------------------------
(* The dispatcher *)

LEMMA DispatcherInitInv == DispatcherInit => AnswersInv
  <1>. SUFFICES ASSUME DispatcherInit PROVE AnswersInv
    OBVIOUS
  <1>1. DispatcherTypeOK
    <2>1. /\ sent \in 0..MaxSent /\ before \in [Customers -> 0..MaxSent]
          /\ asked \in [Customers -> 0..MaxAsked]
      BY DispatcherAssumption DEF DispatcherInit
    <2>2. /\ allUSDs \in [Ports -> 0..Len(services)] /\ servedBy \in [Customers -> 0..Len(services)]
          /\ services \in Seq([kind : Kinds, state : {"serving", "spinning", "dead"}])
      BY DEF DispatcherInit
    <2>3. mailbox \in Seq(Announcement) /\ onStack \in Announcement /\ starting \in Announcement
      BY DEF DispatcherInit, Nothing, Announcement
    <2>4. /\ question \in [Customers -> Seq(Nat)]
          /\ answer \in [Customers -> Seq([n : Nat, kind : Kinds])]
          /\ got \in [Customers -> Seq([n : Nat, kind : Kinds])]
          /\ backlog \in [Ports -> Seq(Customers)] /\ passed \in [1..MaxSent -> Seq(Customers)]
      BY DEF DispatcherInit
    <2>. QED
      BY <2>1, <2>2, <2>3, <2>4 DEF DispatcherInit, DispatcherTypeOK
  <1>2. FewServices /\ PortOf
    BY DEF DispatcherInit, FewServices, PortOf
  <1>3. \A c \in Customers : Routed(c) /\ InTurn(c)
    BY DEF DispatcherInit, Routed, InTurn
  <1>4. AnswersAreOwn
    BY DEF DispatcherInit, AnswersAreOwn
  <1>. QED
    BY <1>1, <1>2, <1>3, <1>4 DEF AnswersInv

LEMMA S0Type == DispatcherTypeOK /\ S0Sends => DispatcherTypeOK'
  <1>. SUFFICES ASSUME DispatcherTypeOK, S0Sends PROVE DispatcherTypeOK'
    OBVIOUS
  <1>1. sent' \in 0..MaxSent
    BY DispatcherAssumption DEF DispatcherTypeOK, S0Sends
  <1>2. onStack' \in Announcement /\ mailbox' \in Seq(Announcement)
    <2>1. PICK read : mailbox' = Append(mailbox, read) /\ onStack' = read /\ read \in Announcement
      BY DEF S0Sends, Nothing, Announcement, DispatcherTypeOK
    <2>. QED
      BY <2>1 DEF DispatcherTypeOK
  <1>. QED
    BY <1>1, <1>2 DEF S0Sends, DispatcherTypeOK, forwarderVars, customerVars

LEMMA ForwarderType ==
  DispatcherTypeOK /\ FewServices /\ Forwarder => DispatcherTypeOK'
  <1>. SUFFICES ASSUME DispatcherTypeOK, FewServices, Forwarder PROVE DispatcherTypeOK'
    OBVIOUS
  <1>0. Len(services) \in 0..MaxSent /\ (forwarder = "starting" => Len(services) < MaxSent)
    <2>1. Len(services) \in Nat /\ Len(mailbox) \in Nat /\ sent \in 0..MaxSent
      BY SeqTypes DEF DispatcherTypeOK
    <2>. QED
      BY <2>1, DispatcherAssumption DEF FewServices
  <1>1. CASE FReceives
    <2>1. Head(mailbox) \in Announcement /\ mailbox' \in Seq(Announcement)
      BY <1>1, SeqTypes DEF FReceives, DispatcherTypeOK
    <2>2. starting' \in Announcement /\ listeners' \subseteq Ports /\ misled' \in BOOLEAN
          /\ forwarder' \in {"polling", "starting", "down"}
      BY <1>1, <2>1 DEF FReceives, DispatcherTypeOK
    <2>3. announced' \in [Ports -> Kinds \cup {NoProgram}]
      BY <1>1, <2>1 DEF FReceives, DispatcherTypeOK, Announcement
    <2>. QED
      BY <1>1, <2>1, <2>2, <2>3 DEF FReceives, DispatcherTypeOK, customerVars
  <1>2. CASE FGetsService
    <2>1. Nothing \in Announcement
      BY DEF Nothing, Announcement
    <2>2. [kind |-> starting.path, state |-> "serving"]
            \in [kind : Kinds, state : {"serving", "spinning", "dead"}]
      BY <1>2 DEF FGetsService, DispatcherTypeOK, Announcement
    <2>3. /\ services' \in Seq([kind : Kinds, state : {"serving", "spinning", "dead"}])
          /\ Len(services') = Len(services) + 1
      BY <1>2, <2>2, SeqTypes DEF FGetsService, DispatcherTypeOK
    <2>4. allUSDs' \in [Ports -> 0..Len(services')] /\ servedBy' \in [Customers -> 0..Len(services')]
      BY <1>0, <1>2, <2>3 DEF FGetsService, DispatcherTypeOK
    <2>. QED
      BY <1>2, <2>1, <2>3, <2>4 DEF FGetsService, DispatcherTypeOK, customerVars
  <1>3. CASE \E p \in Ports : FForwards(p)
    <2>. PICK p \in Ports : FForwards(p)
      BY <1>3
    <2> DEFINE c == Head(backlog[p])
               n == allUSDs[p]
    <2>1. backlog[p] \in Seq(Customers) /\ backlog[p] # <<>>
      BY DEF FForwards, DispatcherTypeOK
    <2>2. c \in Customers /\ Tail(backlog[p]) \in Seq(Customers)
      BY <2>1, SeqTypes
    <2>3. backlog' \in [Ports -> Seq(Customers)]
      BY <2>2, ExceptType DEF FForwards, DispatcherTypeOK
    <2>4. before' \in [Customers -> 0..MaxSent]
      BY <1>0, ExceptType DEF FForwards, DispatcherTypeOK
    <2>5. passed' \in [1..MaxSent -> Seq(Customers)]
      <3>1. passed \in [1..MaxSent -> Seq(Customers)]
        BY DEF DispatcherTypeOK
      <3>2. n \in 1..MaxSent => Append(passed[n], c) \in Seq(Customers)
        BY <2>2, <3>1, SeqTypes
      <3>3. passed' = passed \/ passed' = [passed EXCEPT ![n] = Append(passed[n], c)]
        BY DEF FForwards
      <3>. HIDE DEF n, c
      <3>. QED
        BY <3>1, <3>2, <3>3, ExceptType
    <2>6. forwarder' \in {"polling", "starting", "down"}
      BY DEF FForwards, DispatcherTypeOK
    <2>. QED
      BY <2>3, <2>4, <2>5, <2>6 DEF FForwards, DispatcherTypeOK, customerVars
  <1>. QED
    BY <1>1, <1>2, <1>3 DEF Forwarder

\* All a step of a service does to the table of services: states change.
LEMMA ServiceTable ==
  ASSUME DispatcherTypeOK, NEW n \in 1..Len(services), Service(n)
  PROVE  /\ Len(services') = Len(services)
         /\ \A m \in 1..Len(services) : services'[m].kind = services[m].kind
         /\ services' \in Seq([kind : Kinds, state : {"serving", "spinning", "dead"}])
  <1> DEFINE R == [kind : Kinds, state : {"serving", "spinning", "dead"}]
  <1>1. services \in Seq(R)
    BY DEF DispatcherTypeOK
  <1>2. \/ services' = services
        \/ \E m \in 1..Len(services), s \in {"spinning", "dead"} :
              services' = [services EXCEPT ![m].state = s]
    BY DEF Service, ServiceTakes, ServiceSpins, ThreadAnswers, ThreadMeetsEnd
  <1>3. ASSUME NEW m \in 1..Len(services), NEW s \in {"spinning", "dead"},
               services' = [services EXCEPT ![m].state = s]
        PROVE  /\ Len(services') = Len(services) /\ services' \in Seq(R)
               /\ \A k \in 1..Len(services) : services'[k].kind = services[k].kind
    <2>1. services[m] \in R
      BY <1>1, ElementType
    <2>2. [services[m] EXCEPT !.state = s] \in R
          /\ [services[m] EXCEPT !.state = s].kind = services[m].kind
      BY <2>1
    <2>3. services' = [services EXCEPT ![m] = [services[m] EXCEPT !.state = s]]
      BY <1>3
    <2>. HIDE DEF R
    <2>4. services' \in Seq(R) /\ Len(services') = Len(services)
      BY <1>1, <2>2, <2>3
    <2>. QED
      BY <1>1, <2>2, <2>3, <2>4
  <1>. QED
    BY <1>1, <1>2, <1>3

LEMMA ServiceType ==
  ASSUME DispatcherTypeOK, FewServices, NEW n \in 1..Len(services), Service(n)
  PROVE  DispatcherTypeOK'
  <1>0. n \in 1..MaxSent /\ Len(services) \in Nat
    <2>1. Len(services) \in Nat /\ Len(mailbox) \in Nat /\ sent \in 0..MaxSent
      BY SeqTypes DEF DispatcherTypeOK
    <2>. QED
      BY <2>1, DispatcherAssumption DEF FewServices
  <1>1. /\ services' \in Seq([kind : Kinds, state : {"serving", "spinning", "dead"}])
        /\ Len(services') = Len(services)
    BY ServiceTable
  <1>2. CASE ServiceTakes(n)
    <2>1. passed[n] \in Seq(Customers) /\ passed[n] # <<>>
      BY <1>0, <1>2 DEF ServiceTakes, DispatcherTypeOK
    <2>2. Tail(passed[n]) \in Seq(Customers)
      BY <2>1, SeqTypes
    <2>3. passed' \in [1..MaxSent -> Seq(Customers)]
      BY <1>2, <2>2, ExceptType DEF ServiceTakes, DispatcherTypeOK
    <2>4. servedBy' \in [Customers -> 0..Len(services)]
      <3>1. Head(passed[n]) \in Customers
        BY <2>1, SeqTypes
      <3>2. n \in 0..Len(services)
        BY <1>0
      <3>3. servedBy \in [Customers -> 0..Len(services)]
        BY DEF DispatcherTypeOK
      <3>4. servedBy' = [servedBy EXCEPT ![Head(passed[n])] = n]
        BY <1>2 DEF ServiceTakes
      <3>. QED
        BY <3>1, <3>2, <3>3, <3>4, ExceptType
    <2>. QED
      BY <1>1, <1>2, <2>3, <2>4 DEF ServiceTakes, DispatcherTypeOK, customerVars, forwarderVars
  <1>3. CASE ServiceSpins(n)
    BY <1>1, <1>3 DEF ServiceSpins, DispatcherTypeOK, customerVars, forwarderVars
  <1>4. CASE \E c \in Customers : servedBy[c] = n /\ ThreadAnswers(c)
    <2>. PICK c \in Customers : servedBy[c] = n /\ ThreadAnswers(c)
      BY <1>4
    <2>1. question[c] \in Seq(Nat) /\ question[c] # <<>> /\ answer[c] \in Seq([n : Nat, kind : Kinds])
      BY DEF ThreadAnswers, DispatcherTypeOK
    <2>2. Head(question[c]) \in Nat /\ Tail(question[c]) \in Seq(Nat)
      BY <2>1, SeqTypes
    <2>3. services[n].kind \in Kinds
      <3>1. services[n] \in [kind : Kinds, state : {"serving", "spinning", "dead"}]
        BY ElementType DEF DispatcherTypeOK
      <3>. QED
        BY <3>1
    <2> DEFINE x == [n |-> Head(question[c]), kind |-> services[n].kind]
    <2>4. Append(answer[c], x) \in Seq([n : Nat, kind : Kinds])
      BY <2>1, <2>2, <2>3
    <2>5. question' \in [Customers -> Seq(Nat)]
      BY <2>2, ExceptType DEF ThreadAnswers, DispatcherTypeOK
    <2>6. answer' = answer \/ answer' = [answer EXCEPT ![c] = Append(answer[c], x)]
      BY DEF ThreadAnswers
    <2>. HIDE DEF x
    <2>7. answer' \in [Customers -> Seq([n : Nat, kind : Kinds])]
      <3>1. answer \in [Customers -> Seq([n : Nat, kind : Kinds])]
        BY DEF DispatcherTypeOK
      <3>. QED
        BY <2>4, <2>6, <3>1, ExceptType
    <2>8. finished' \in [Customers -> BOOLEAN] /\ refused' \in [Customers -> BOOLEAN]
      BY DEF ThreadAnswers, DispatcherTypeOK
    <2>. QED
      BY <1>1, <2>5, <2>7, <2>8 DEF ThreadAnswers, DispatcherTypeOK, customerVars, forwarderVars
  <1>5. CASE \E c \in Customers : servedBy[c] = n /\ ThreadMeetsEnd(c)
    BY <1>1, <1>5 DEF ThreadMeetsEnd, DispatcherTypeOK, customerVars, forwarderVars
  <1>. QED
    BY <1>2, <1>3, <1>4, <1>5 DEF Service

LEMMA CustomerType ==
  ASSUME DispatcherTypeOK, NEW c \in Customers, Customer(c)
  PROVE  DispatcherTypeOK'
  <1>1. CASE \E p \in Ports : CustomerConnects(c, p)
    <2>. PICK p \in Ports : CustomerConnects(c, p)
      BY <1>1
    <2>1. Append(backlog[p], c) \in Seq(Customers)
      BY DEF DispatcherTypeOK
    <2>2. backlog' \in [Ports -> Seq(Customers)]
      BY <2>1, ExceptType DEF CustomerConnects, DispatcherTypeOK
    <2>. QED
      BY <2>2 DEF CustomerConnects, DispatcherTypeOK, forwarderVars
  <1>2. CASE CustomerTypes(c)
    <2>1. asked' \in [Customers -> 0..MaxAsked] /\ (asked' = asked \/ asked'[c] = asked[c] + 1)
      <3>1. asked \in [Customers -> 0..MaxAsked] /\ MaxAsked \in Nat
        BY DispatcherAssumption DEF DispatcherTypeOK
      <3>2. \/ asked[c] < MaxAsked /\ asked' = [asked EXCEPT ![c] = asked[c] + 1]
            \/ asked' = asked
        BY <1>2 DEF CustomerTypes
      <3>3. asked[c] < MaxAsked => asked[c] + 1 \in 0..MaxAsked
        BY <3>1
      <3>. QED
        BY <3>1, <3>2, <3>3, ExceptType
    <2>2. question[c] \in Seq(Nat) /\ asked'[c] \in Nat
      BY <2>1, DispatcherAssumption DEF DispatcherTypeOK
    <2>3. Append(question[c], 0) \in Seq(Nat) /\ Append(question[c], asked'[c]) \in Seq(Nat)
      BY <2>2
    <2>4. question' \in [Customers -> Seq(Nat)]
      <3>1. \/ question' = [question EXCEPT ![c] = Append(question[c], 0)]
            \/ question' = [question EXCEPT ![c] = Append(question[c], asked'[c])]
        BY <1>2 DEF CustomerTypes
      <3>2. question \in [Customers -> Seq(Nat)]
        BY DEF DispatcherTypeOK
      <3>. QED
        BY <2>3, <3>1, <3>2, ExceptType
    <2>5. customer' \in [Customers -> {"home", "prompt", "waiting", "done", "left", "cut"}]
      BY <1>2 DEF CustomerTypes, DispatcherTypeOK
    <2>. QED
      BY <1>2, <2>1, <2>4, <2>5 DEF CustomerTypes, DispatcherTypeOK, forwarderVars
  <1>3. CASE CustomerReads(c)
    <2> DEFINE R == [n : Nat, kind : Kinds]
    <2>1. answer[c] \in Seq(R) /\ got[c] \in Seq(R) /\ answer[c] # <<>>
      BY <1>3 DEF CustomerReads, DispatcherTypeOK
    <2>. HIDE DEF R
    <2>2. Tail(answer[c]) \in Seq(R) /\ Append(got[c], Head(answer[c])) \in Seq(R)
      BY <2>1, SeqTypes
    <2>3. got' \in [Customers -> Seq(R)] /\ answer' \in [Customers -> Seq(R)]
      BY <1>3, <2>2, ExceptType DEF CustomerReads, DispatcherTypeOK, R
    <2>4. customer' \in [Customers -> {"home", "prompt", "waiting", "done", "left", "cut"}]
      BY <1>3 DEF CustomerReads, DispatcherTypeOK
    <2>. QED
      BY <1>3, <2>3, <2>4 DEF CustomerReads, DispatcherTypeOK, forwarderVars, R
  <1>4. CASE CustomerIsCut(c)
    BY <1>4 DEF CustomerIsCut, DispatcherTypeOK, forwarderVars
  <1>5. CASE CustomerWalksOut(c)
    BY <1>5 DEF CustomerWalksOut, DispatcherTypeOK, forwarderVars
  <1>. QED
    BY <1>1, <1>2, <1>3, <1>4, <1>5 DEF Customer

LEMMA DispatcherTypeStep ==
  DispatcherTypeOK /\ FewServices /\ [DispatcherNext]_dispatcherVars => DispatcherTypeOK'
  <1>1. DispatcherTypeOK /\ UNCHANGED dispatcherVars => DispatcherTypeOK'
    BY DEF dispatcherVars, forwarderVars, customerVars, DispatcherTypeOK
  <1>. QED
    BY <1>1, S0Type, ForwarderType, ServiceType, CustomerType DEF DispatcherNext

LEMMA FewServicesStep ==
  ASSUME DispatcherTypeOK, FewServices, DispatcherNext
  PROVE  FewServices'
  <1> DEFINE R == [kind : Kinds, state : {"serving", "spinning", "dead"}]
  <1>0. /\ services \in Seq(R) /\ mailbox \in Seq(Announcement)
        /\ sent \in Nat /\ Len(mailbox) \in Nat /\ Len(services) \in Nat
    BY DispatcherAssumption DEF DispatcherTypeOK
  <1>1. CASE S0Sends
    <2>1. PICK read : mailbox' = Append(mailbox, read) /\ read \in Announcement
      BY <1>1 DEF S0Sends, Nothing, Announcement, DispatcherTypeOK
    <2>2. Len(mailbox') = Len(mailbox) + 1
      BY <1>0, <2>1, SeqTypes
    <2>. QED
      BY <1>0, <1>1, <2>2 DEF S0Sends, forwarderVars, FewServices
  <1>2. CASE FReceives
    <2>1. Len(mailbox') = Len(mailbox) - 1 /\ Len(services') = Len(services) /\ sent' = sent
      BY <1>0, <1>2, SeqTypes DEF FReceives
    <2>. QED
      BY <1>0, <1>2, <2>1 DEF FReceives, FewServices
  <1>3. CASE FGetsService
    <2>1. [kind |-> starting.path, state |-> "serving"] \in R
      BY <1>3 DEF FGetsService, DispatcherTypeOK, Announcement
    <2>. HIDE DEF R
    <2>2. Len(services') = Len(services) + 1
      BY <1>0, <1>3, <2>1, SeqTypes DEF FGetsService
    <2>. QED
      BY <1>0, <1>3, <2>2 DEF FGetsService, FewServices
  <1>4. CASE \E p \in Ports : FForwards(p)
    BY <1>0, <1>4 DEF FForwards, FewServices
  <1>5. CASE \E n \in 1..Len(services) : Service(n)
    <2>1. Len(services') = Len(services)
      BY <1>5, ServiceTable
    <2>2. UNCHANGED <<mailbox, sent, forwarder>>
      BY <1>5 DEF Service, ServiceTakes, ServiceSpins, ThreadAnswers, ThreadMeetsEnd, forwarderVars
    <2>. QED
      BY <2>1, <2>2 DEF FewServices
  <1>6. CASE \E c \in Customers : Customer(c)
    BY <1>6 DEF Customer, CustomerConnects, CustomerTypes, CustomerReads, CustomerIsCut,
                CustomerWalksOut, forwarderVars, FewServices
  <1>. QED
    BY <1>1, <1>2, <1>3, <1>4, <1>5, <1>6 DEF DispatcherNext, Forwarder

\* What a port has been given it keeps.
PortKept ==
    \A p \in Ports : allUSDs[p] # 0 =>
        /\ allUSDs'[p] = allUSDs[p] /\ announced'[p] = announced[p]
        /\ services'[allUSDs[p]].kind = services[allUSDs[p]].kind

LEMMA PortStep ==
  ASSUME DispatcherTypeOK, PortOf, DispatcherNext
  PROVE  PortOf' /\ PortKept
  <1> DEFINE R == [kind : Kinds, state : {"serving", "spinning", "dead"}]
  <1>0. /\ services \in Seq(R) /\ allUSDs \in [Ports -> 0..Len(services)]
        /\ announced \in [Ports -> Kinds \cup {NoProgram}] /\ listeners \subseteq Ports
        /\ Len(services) \in Nat
    BY DEF DispatcherTypeOK
  <1>1. CASE S0Sends \/ \E c \in Customers : Customer(c)
    <2>1. UNCHANGED <<allUSDs, announced, services, listeners, forwarder, starting>>
      BY <1>1 DEF S0Sends, Customer, CustomerConnects, CustomerTypes, CustomerReads, CustomerIsCut,
                CustomerWalksOut, forwarderVars
    <2>. QED
      BY <2>1 DEF PortOf, PortKept
  <1>2. CASE FReceives
    <2> DEFINE a == Head(mailbox)
    <2>1. UNCHANGED <<allUSDs, services>> /\ a \in Announcement
      BY <1>2, SeqTypes DEF FReceives, DispatcherTypeOK
    <2>2. CASE a.port \in listeners
      <3>1. forwarder' = "down" /\ UNCHANGED <<starting, listeners, announced>>
        BY <1>2, <2>2 DEF FReceives
      <3>. QED
        BY <2>1, <3>1 DEF PortOf, PortKept
    <2>3. CASE a.port \notin listeners
      <3>1. /\ forwarder' = "starting" /\ starting' = a /\ forwarder = "polling"
            /\ listeners' = listeners \cup ({a.port} \cap Ports)
            /\ \A p \in Ports : announced'[p] = IF p = a.port THEN a.path ELSE announced[p]
        BY <1>2, <2>3 DEF FReceives
      <3>. HIDE DEF a
      <3>2. a.port \in Ports => allUSDs[a.port] = 0
        BY <2>3 DEF PortOf
      <3>. QED
        BY <1>0, <2>1, <2>3, <3>1, <3>2 DEF PortOf, PortKept
    <2>. QED
      BY <2>2, <2>3
  <1>3. CASE FGetsService
    <2>1. [kind |-> starting.path, state |-> "serving"] \in R
      BY <1>3 DEF FGetsService, DispatcherTypeOK, Announcement
    <2> DEFINE x == [kind |-> starting.path, state |-> "serving"]
               m == Len(services) + 1
    <2>2. x.kind = starting.path
      OBVIOUS
    <2>3. services' = Append(services, x) /\ UNCHANGED <<listeners, announced>>
          /\ forwarder = "starting" /\ forwarder' = "polling"
          /\ \A p \in Ports : allUSDs'[p] = IF p = starting.port THEN m ELSE allUSDs[p]
      BY <1>3 DEF FGetsService
    <2>. HIDE DEF R, x
    <2>4. /\ \A i \in 1..Len(services) : services'[i] = services[i]
          /\ services'[m] = x /\ m # 0
      BY <1>0, <2>1, <2>3 DEF x
    <2>. HIDE DEF m
    <2>5. \A p \in Ports : allUSDs[p] # 0 => p # starting.port /\ allUSDs[p] \in 1..Len(services)
      BY <1>0, <2>3 DEF PortOf
    <2>6. PortKept
      BY <2>3, <2>4, <2>5 DEF PortKept
    <2>7. \A p \in Ports : allUSDs'[p] # 0 =>
             p \in listeners' /\ services'[allUSDs'[p]].kind = announced'[p]
      <3>. SUFFICES ASSUME NEW p \in Ports, allUSDs'[p] # 0
                    PROVE  p \in listeners' /\ services'[allUSDs'[p]].kind = announced'[p]
        OBVIOUS
      <3>1. CASE p = starting.port
        <4>1. p \in listeners /\ announced[p] = starting.path
          BY <2>3, <3>1 DEF PortOf
        <4>. QED
          BY <2>2, <2>3, <2>4, <3>1, <4>1
      <3>2. CASE p # starting.port
        <4>1. allUSDs'[p] = allUSDs[p] /\ listeners' = listeners
          BY <2>3, <3>2
        <4>2. p \in listeners /\ services[allUSDs[p]].kind = announced[p]
          BY <4>1 DEF PortOf
        <4>. QED
          BY <2>6, <4>1, <4>2 DEF PortKept
      <3>. QED
        BY <3>1, <3>2
    <2>8. \A p \in listeners' : allUSDs'[p] # 0
      BY <1>0, <2>3, <2>4 DEF PortOf
    <2>. QED
      BY <2>3, <2>6, <2>7, <2>8 DEF PortOf
  <1>4. CASE \E p \in Ports : FForwards(p)
    <2>1. UNCHANGED <<allUSDs, announced, services, listeners, starting>>
          /\ forwarder = "polling" /\ forwarder' \in {"polling", "down"}
      BY <1>4 DEF FForwards
    <2>. QED
      BY <2>1 DEF PortOf, PortKept
  <1>5. CASE \E n \in 1..Len(services) : Service(n)
    <2>1. UNCHANGED <<allUSDs, announced, listeners, forwarder, starting>>
      BY <1>5 DEF Service, ServiceTakes, ServiceSpins, ThreadAnswers, ThreadMeetsEnd, forwarderVars
    <2>2. \A i \in 1..Len(services) : services'[i].kind = services[i].kind
      BY <1>5, ServiceTable
    <2>3. \A p \in Ports : allUSDs[p] # 0 => allUSDs[p] \in 1..Len(services)
      BY <1>0
    <2>. QED
      BY <2>1, <2>2, <2>3 DEF PortOf, PortKept
  <1>. QED
    BY <1>1, <1>2, <1>3, <1>4, <1>5 DEF DispatcherNext, Forwarder

\* Nobody comes home again, and only who is at home chooses a port.
LEMMA CustomerStays ==
  ASSUME DispatcherTypeOK, NEW d \in Customers, DispatcherNext
  PROVE  /\ customer[d] # "home" => customer'[d] # "home" /\ port'[d] = port[d]
         /\ ~(\E p \in Ports : CustomerConnects(d, p)) => port'[d] = port[d]
  <1>1. CASE S0Sends \/ Forwarder \/ \E n \in 1..Len(services) : Service(n)
    BY <1>1 DEF S0Sends, Forwarder, FReceives, FGetsService, FForwards, Service, ServiceTakes,
                ServiceSpins, ThreadAnswers, ThreadMeetsEnd, customerVars
  <1>2. CASE \E c \in Customers : Customer(c)
    <2>. PICK c \in Customers : Customer(c)
      BY <1>2
    <2>1. CASE \E p \in Ports : CustomerConnects(c, p)
      BY <2>1 DEF CustomerConnects, DispatcherTypeOK
    <2>2. CASE CustomerTypes(c)
      BY <2>2 DEF CustomerTypes, DispatcherTypeOK
    <2>3. CASE CustomerReads(c) \/ CustomerIsCut(c) \/ CustomerWalksOut(c)
      BY <2>3 DEF CustomerReads, CustomerIsCut, CustomerWalksOut, DispatcherTypeOK
    <2>. QED
      BY <2>1, <2>2, <2>3 DEF Customer
  <1>. QED
    BY <1>1, <1>2 DEF DispatcherNext

LEMMA RoutedStep ==
  ASSUME DispatcherTypeOK, FewServices, PortKept, DispatcherNext,
         \A c \in Customers : Routed(c)
  PROVE  \A c \in Customers : Routed(c)'
  <1>. SUFFICES ASSUME NEW d \in Customers PROVE Routed(d)'
    OBVIOUS
  <1>1. customer[d] # "home" => customer'[d] # "home" /\ port'[d] = port[d]
    BY CustomerStays
  <1>2. ASSUME UNCHANGED <<backlog, passed, servedBy>> PROVE Routed(d)'
    BY <1>1, <1>2 DEF Routed, PortKept
  <1>3. CASE S0Sends \/ FReceives \/ FGetsService
    BY <1>2, <1>3 DEF S0Sends, FReceives, FGetsService
  <1>4. CASE \E p \in Ports : FForwards(p)
    <2>. PICK p \in Ports : FForwards(p)
      BY <1>4
    <2>. PICK c : c = Head(backlog[p])
      OBVIOUS
    <2>. PICK m : m = allUSDs[p]
      OBVIOUS
    <2>1. backlog[p] \in Seq(Customers) /\ backlog[p] # <<>>
      BY DEF FForwards, DispatcherTypeOK
    <2>2. 1 \in 1..Len(backlog[p]) /\ c = backlog[p][1] /\ c \in Customers
      BY <2>1
    <2>3. customer[c] # "home" /\ port[c] = p
      BY <2>2 DEF Routed
    <2>4. UNCHANGED <<servedBy, allUSDs, customer, port>>
      BY DEF FForwards, customerVars
    <2>5. /\ \A q \in Ports : q # p => backlog'[q] = backlog[q]
          /\ backlog'[p] = Tail(backlog[p])
      BY DEF FForwards, DispatcherTypeOK
    <2>6. \A k \in 1..Len(Tail(backlog[p])) :
             k + 1 \in 1..Len(backlog[p]) /\ Tail(backlog[p])[k] = backlog[p][k + 1]
      BY <2>1
    <2>7. \A q \in Ports : \A k \in 1..Len(backlog'[q]) : backlog'[q][k] = d =>
             customer[d] # "home" /\ port[d] = q
      <3>. SUFFICES ASSUME NEW q \in Ports, NEW k \in 1..Len(backlog'[q]), backlog'[q][k] = d
                    PROVE  customer[d] # "home" /\ port[d] = q
        OBVIOUS
      <3>1. PICK i \in 1..Len(backlog[q]) : backlog[q][i] = d
        <4>1. CASE q = p
          BY <2>5, <2>6, <4>1
        <4>2. CASE q # p
          BY <2>5, <4>2
        <4>. QED
          BY <4>1, <4>2
      <3>. QED
        BY <3>1 DEF Routed
    <2>8. passed' = passed \/ passed' = [passed EXCEPT ![m] = Append(passed[m], c)]
      BY DEF FForwards
    <2>9. \A n \in 1..MaxSent : \A k \in 1..Len(passed'[n]) : passed'[n][k] = d =>
             customer[d] # "home" /\ port[d] \in Ports /\ allUSDs[port[d]] = n
      <3>1. CASE passed' = passed
        BY <3>1 DEF Routed
      <3>2. CASE passed' = [passed EXCEPT ![m] = Append(passed[m], c)]
        <4>. SUFFICES ASSUME NEW n \in 1..MaxSent, NEW k \in 1..Len(passed'[n]), passed'[n][k] = d
                      PROVE  customer[d] # "home" /\ port[d] \in Ports /\ allUSDs[port[d]] = n
          OBVIOUS
        <4>1. passed[n] \in Seq(Customers)
          BY DEF DispatcherTypeOK
        <4>2. passed'[n] = passed[n] \/ (n = m /\ passed'[n] = Append(passed[n], c))
          BY <3>2 DEF DispatcherTypeOK
        <4>3. CASE k \in 1..Len(passed[n])
          <5>1. passed'[n][k] = passed[n][k]
            BY <2>2, <4>1, <4>2, <4>3
          <5>. QED
            BY <4>3, <5>1 DEF Routed
        <4>4. CASE k \notin 1..Len(passed[n])
          <5>1. n = m /\ passed'[n][k] = c
            BY <2>2, <4>1, <4>2, <4>4
          <5>. QED
            BY <2>3, <5>1
        <4>. QED
          BY <4>3, <4>4
      <3>. QED
        BY <2>8, <3>1, <3>2
    <2>. QED
      BY <2>4, <2>7, <2>9 DEF Routed
  <1>5. CASE \E n \in 1..Len(services) : Service(n) /\ ~ServiceTakes(n)
    BY <1>2, <1>5 DEF Service, ServiceSpins, ThreadAnswers, ThreadMeetsEnd
  <1>6. CASE \E n \in 1..Len(services) : ServiceTakes(n)
    <2>. PICK n \in 1..Len(services) : ServiceTakes(n)
      BY <1>6
    <2>. PICK c : c = Head(passed[n])
      OBVIOUS
    <2>0. n \in 1..MaxSent
      <3>1. Len(services) \in Nat /\ Len(mailbox) \in Nat /\ sent \in 0..MaxSent
        BY SeqTypes DEF DispatcherTypeOK
      <3>. QED
        BY <3>1, DispatcherAssumption DEF FewServices
    <2>1. passed[n] \in Seq(Customers) /\ passed[n] # <<>>
      BY <2>0 DEF ServiceTakes, DispatcherTypeOK
    <2>2. 1 \in 1..Len(passed[n]) /\ c = passed[n][1] /\ c \in Customers
      BY <2>1
    <2>3. customer[c] # "home" /\ port[c] \in Ports /\ allUSDs[port[c]] = n
      BY <2>0, <2>2 DEF Routed
    <2>4. UNCHANGED <<backlog, allUSDs, customer, port>>
      BY DEF ServiceTakes, customerVars, forwarderVars
    <2>5. /\ \A m \in 1..MaxSent : m # n => passed'[m] = passed[m]
          /\ passed'[n] = Tail(passed[n])
      BY <2>0 DEF ServiceTakes, DispatcherTypeOK
    <2>6. \A k \in 1..Len(Tail(passed[n])) :
             k + 1 \in 1..Len(passed[n]) /\ Tail(passed[n])[k] = passed[n][k + 1]
      BY <2>1
    <2>7. \A m \in 1..MaxSent : \A k \in 1..Len(passed'[m]) : passed'[m][k] = d =>
             customer[d] # "home" /\ port[d] \in Ports /\ allUSDs[port[d]] = m
      <3>. SUFFICES ASSUME NEW m \in 1..MaxSent, NEW k \in 1..Len(passed'[m]), passed'[m][k] = d
                    PROVE  customer[d] # "home" /\ port[d] \in Ports /\ allUSDs[port[d]] = m
        OBVIOUS
      <3>1. PICK i \in 1..Len(passed[m]) : passed[m][i] = d
        <4>1. CASE m = n
          BY <2>5, <2>6, <4>1
        <4>2. CASE m # n
          BY <2>5, <4>2
        <4>. QED
          BY <4>1, <4>2
      <3>. QED
        BY <3>1 DEF Routed
    <2>8. servedBy'[d] = IF d = c THEN n ELSE servedBy[d]
      BY DEF ServiceTakes, DispatcherTypeOK
    <2>9. servedBy'[d] # 0 => customer[d] # "home" /\ port[d] \in Ports
                              /\ allUSDs[port[d]] = servedBy'[d]
      BY <2>3, <2>8 DEF Routed
    <2>. QED
      BY <2>4, <2>7, <2>9 DEF Routed
  <1>7. CASE \E c \in Customers : Customer(c) /\ ~\E p \in Ports : CustomerConnects(c, p)
    BY <1>2, <1>7 DEF Customer, CustomerTypes, CustomerReads, CustomerIsCut, CustomerWalksOut
  <1>8. CASE \E c \in Customers, p \in Ports : CustomerConnects(c, p)
    <2>. PICK c \in Customers, p \in Ports : CustomerConnects(c, p)
      BY <1>8
    <2>1. /\ customer[c] = "home" /\ customer'[c] = "prompt" /\ port'[c] = p
          /\ UNCHANGED <<passed, servedBy, allUSDs>>
          /\ d # c => customer'[d] = customer[d] /\ port'[d] = port[d]
          /\ backlog[p] \in Seq(Customers) /\ backlog'[p] = Append(backlog[p], c)
          /\ \A q \in Ports : q # p => backlog'[q] = backlog[q]
      BY DEF CustomerConnects, forwarderVars, DispatcherTypeOK
    <2>2. /\ Len(Append(backlog[p], c)) = Len(backlog[p]) + 1
          /\ Append(backlog[p], c)[Len(backlog[p]) + 1] = c
          /\ \A k \in 1..Len(backlog[p]) : Append(backlog[p], c)[k] = backlog[p][k]
          /\ Len(backlog[p]) \in Nat
      BY <2>1
    <2>3. Routed(c) /\ Routed(d)
      OBVIOUS
    <2>4. CASE d = c
      <3>1. \A q \in Ports : q # p => \A k \in 1..Len(backlog'[q]) : backlog'[q][k] # d
        BY <2>1, <2>3, <2>4 DEF Routed
      <3>2. servedBy'[d] = 0 /\ \A n \in 1..MaxSent : \A k \in 1..Len(passed'[n]) : passed'[n][k] # d
        BY <2>1, <2>3, <2>4 DEF Routed
      <3>. QED
        BY <2>1, <2>4, <3>1, <3>2 DEF Routed
    <2>5. CASE d # c
      <3>1. \A k \in 1..Len(backlog'[p]) : backlog'[p][k] = d => k \in 1..Len(backlog[p])
        BY <2>1, <2>2, <2>5
      <3>2. \A q \in Ports : \A k \in 1..Len(backlog'[q]) : backlog'[q][k] = d =>
               k \in 1..Len(backlog[q]) /\ backlog[q][k] = d
        <4>. SUFFICES ASSUME NEW q \in Ports, NEW k \in 1..Len(backlog'[q]), backlog'[q][k] = d
                      PROVE  k \in 1..Len(backlog[q]) /\ backlog[q][k] = d
          OBVIOUS
        <4>1. CASE q = p
          <5>1. k \in 1..Len(backlog[p])
            BY <3>1, <4>1
          <5>. QED
            BY <2>1, <2>2, <4>1, <5>1
        <4>2. CASE q # p
          BY <2>1, <4>2
        <4>. QED
          BY <4>1, <4>2
      <3>. QED
        BY <2>1, <2>3, <2>5, <3>2 DEF Routed
    <2>. QED
      BY <2>4, <2>5
  <1>. QED
    BY <1>3, <1>4, <1>5, <1>6, <1>7, <1>8 DEF DispatcherNext, Forwarder

\* What a step that is neither the thread's nor the customer's leaves alone.
LEMMA OthersWait ==
  ASSUME DispatcherTypeOK, DispatcherNext, NEW d \in Customers, ~Customer(d), ~ThreadAnswers(d)
  PROVE  /\ customer'[d] = customer[d] /\ question'[d] = question[d] /\ answer'[d] = answer[d]
         /\ got'[d] = got[d] /\ asked'[d] = asked[d]
         /\ servedBy[d] # 0 => servedBy'[d] # 0
  <1>1. CASE S0Sends \/ Forwarder
    BY <1>1 DEF S0Sends, Forwarder, FReceives, FGetsService, FForwards, customerVars
  <1>2. CASE \E n \in 1..Len(services) : Service(n)
    <2>. PICK n \in 1..Len(services) : Service(n)
      BY <1>2
    <2>0. n # 0
      OBVIOUS
    <2>1. CASE ServiceTakes(n)
      BY <2>0, <2>1 DEF ServiceTakes, customerVars, DispatcherTypeOK
    <2>2. CASE ServiceSpins(n) \/ \E c \in Customers : ThreadMeetsEnd(c)
      BY <2>2 DEF ServiceSpins, ThreadMeetsEnd, customerVars
    <2>3. CASE \E c \in Customers : ThreadAnswers(c)
      BY <2>3 DEF ThreadAnswers, customerVars, DispatcherTypeOK
    <2>. QED
      BY <2>1, <2>2, <2>3 DEF Service
  <1>3. CASE \E c \in Customers : Customer(c)
    <2>. PICK c \in Customers : Customer(c)
      BY <1>3
    <2>0. c # d
      OBVIOUS
    <2>1. CASE \E p \in Ports : CustomerConnects(c, p)
      BY <2>0, <2>1 DEF CustomerConnects, DispatcherTypeOK
    <2>2. CASE CustomerTypes(c)
      <3>1. \/ asked' = asked
            \/ asked' = [asked EXCEPT ![c] = asked[c] + 1]
        BY <2>2 DEF CustomerTypes
      <3>2. \E x : question' = [question EXCEPT ![c] = x]
        BY <2>2 DEF CustomerTypes
      <3>3. \E x : customer' = [customer EXCEPT ![c] = x]
        BY <2>2 DEF CustomerTypes
      <3>4. UNCHANGED <<answer, got, servedBy>>
        BY <2>2 DEF CustomerTypes
      <3>. QED
        BY <2>0, <3>1, <3>2, <3>3, <3>4 DEF DispatcherTypeOK
    <2>3. CASE CustomerReads(c) \/ CustomerIsCut(c) \/ CustomerWalksOut(c)
      BY <2>0, <2>3 DEF CustomerReads, CustomerIsCut, CustomerWalksOut, DispatcherTypeOK
    <2>. QED
      BY <2>1, <2>2, <2>3 DEF Customer
  <1>. QED
    BY <1>1, <1>2, <1>3 DEF DispatcherNext

\* The line a thread answers is the one its customer is waiting about.
LEMMA AnswerInTurn ==
  ASSUME DispatcherTypeOK, NEW d \in Customers, InTurn(d), ThreadAnswers(d)
  PROVE  /\ InTurn(d)'
         /\ \/ answer'[d] = answer[d]
            \/ /\ answer[d] = <<>>
               /\ answer'[d] = <<[n |-> Len(got[d]) + 1, kind |-> services[servedBy[d]].kind]>>
  <1>1. /\ servedBy[d] # 0 /\ question[d] # <<>> /\ question[d] \in Seq(Nat)
        /\ UNCHANGED <<servedBy, customer, got, asked>>
    BY DEF ThreadAnswers, customerVars, DispatcherTypeOK
  <1>2. question'[d] = Tail(question[d])
    BY DEF ThreadAnswers, DispatcherTypeOK
  <1>3. CASE Head(question[d]) = 0
    <2>1. answer' = answer
      BY <1>3 DEF ThreadAnswers
    <2>2. customer[d] \notin {"home", "prompt", "waiting", "cut"}
      <3>1. question[d] = <<asked[d]>> => Head(question[d]) = asked[d]
        OBVIOUS
      <3>2. asked[d] = Len(got[d]) + 1 /\ got[d] \in Seq([n : Nat, kind : Kinds]) => asked[d] # 0
        <4>1. got[d] \in Seq([n : Nat, kind : Kinds]) => Len(got[d]) \in Nat
          OBVIOUS
        <4>. QED
          BY <4>1
      <3>3. got[d] \in Seq([n : Nat, kind : Kinds])
        BY DEF DispatcherTypeOK
      <3>. QED
        BY <1>1, <1>3, <3>1, <3>2, <3>3 DEF InTurn
    <2>3. question[d] = <<0>> => Tail(question[d]) = <<>>
      OBVIOUS
    <2>. QED
      BY <1>1, <1>2, <2>1, <2>2, <2>3 DEF InTurn
  <1>4. CASE Head(question[d]) # 0 /\ customer[d] = "left"
    <2>1. answer' = answer
      BY <1>4 DEF ThreadAnswers
    <2>. QED
      BY <1>1, <1>4, <2>1 DEF InTurn
  <1>5. CASE Head(question[d]) # 0 /\ customer[d] # "left"
    <2> DEFINE x == [n |-> Head(question[d]), kind |-> services[servedBy[d]].kind]
    <2>1. answer'[d] = Append(answer[d], x)
      BY <1>5 DEF ThreadAnswers, DispatcherTypeOK
    <2>2. customer[d] \in {"waiting", "cut"}
      <3>1. question[d] # <<0>>
        BY <1>5
      <3>2. customer[d] \in {"home", "prompt", "waiting", "done", "left", "cut"}
        BY DEF DispatcherTypeOK
      <3>. QED
        BY <1>1, <1>5, <3>1, <3>2 DEF InTurn
    <2>3. question[d] = <<asked[d]>> /\ answer[d] = <<>> /\ asked[d] = Len(got[d]) + 1
      BY <1>1, <2>2 DEF InTurn
    <2>4. question'[d] = <<>> /\ answer'[d] = <<x>> /\ x.n = Len(got[d]) + 1
      BY <1>2, <2>1, <2>3
    <2>. HIDE DEF x
    <2>5. Len(answer'[d]) = 1
      BY <2>4
    <2>6. x = [n |-> Len(got[d]) + 1, kind |-> services[servedBy[d]].kind]
      BY <2>4 DEF x
    <2>. QED
      BY <1>1, <2>2, <2>3, <2>4, <2>5, <2>6 DEF InTurn
  <1>. QED
    BY <1>3, <1>4, <1>5

LEMMA TailOfOne ==
  ASSUME NEW S, NEW s \in Seq(S), Len(s) = 1
  PROVE  Tail(s) = <<>>
  <1>1. s # <<>>
    OBVIOUS
  <1>2. Tail(s) \in Seq(S) /\ Len(Tail(s)) = 0
    BY <1>1, SeqTypes
  <1>3. \A u \in Seq(S) : Len(u) = 0 => u = <<>>
    OBVIOUS
  <1>. QED
    BY <1>2, <1>3

LEMMA InTurnStep ==
  ASSUME DispatcherTypeOK, DispatcherNext, NEW d \in Customers, InTurn(d)
  PROVE  InTurn(d)'
  <1>0. /\ got[d] \in Seq([n : Nat, kind : Kinds]) /\ answer[d] \in Seq([n : Nat, kind : Kinds])
        /\ asked[d] \in Nat /\ question[d] \in Seq(Nat)
    <2>1. asked[d] \in 0..MaxAsked /\ MaxAsked \in Nat
      BY DispatcherAssumption DEF DispatcherTypeOK
    <2>2. \A i \in 0..MaxAsked : i \in Nat
      OBVIOUS
    <2>. QED
      BY <2>1, <2>2 DEF DispatcherTypeOK
  <1>1. CASE ~Customer(d) /\ ~ThreadAnswers(d)
    BY <1>1, OthersWait DEF InTurn
  <1>2. CASE ThreadAnswers(d)
    BY <1>2, AnswerInTurn
  <1>3. CASE \E p \in Ports : CustomerConnects(d, p)
    BY <1>3 DEF CustomerConnects, InTurn, DispatcherTypeOK
  <1>4. CASE CustomerTypes(d)
    <2>1. UNCHANGED <<got, answer, servedBy>> /\ customer[d] = "prompt"
      BY <1>4 DEF CustomerTypes
    <2>2. answer[d] = <<>> /\ question[d] = <<>> /\ Len(got[d]) = asked[d]
      BY <2>1 DEF InTurn
    <2>3. \/ customer'[d] = "waiting" /\ asked'[d] = asked[d] + 1
             /\ question'[d] = Append(question[d], asked'[d])
          \/ customer'[d] = "done" /\ question'[d] = Append(question[d], 0) /\ asked'[d] = asked[d]
      BY <1>4 DEF CustomerTypes, DispatcherTypeOK
    <2>4. question'[d] = <<asked'[d]>> \/ question'[d] = <<0>>
      BY <2>2, <2>3
    <2>5. \/ customer'[d] = "waiting" /\ asked'[d] = Len(got[d]) + 1 /\ question'[d] = <<asked'[d]>>
          \/ customer'[d] = "done" /\ question'[d] = <<0>>
      BY <2>2, <2>3
    <2>. QED
      BY <2>1, <2>2, <2>5 DEF InTurn
  <1>5. CASE CustomerReads(d)
    <2>1. UNCHANGED <<question, servedBy, asked>> /\ customer[d] = "waiting" /\ answer[d] # <<>>
          /\ customer'[d] = "prompt" /\ got'[d] = Append(got[d], Head(answer[d]))
          /\ answer'[d] = Tail(answer[d])
      BY <1>5 DEF CustomerReads, DispatcherTypeOK
    <2>2. question[d] = <<>> /\ Len(answer[d]) = 1 /\ asked[d] = Len(got[d]) + 1 /\ servedBy[d] # 0
      BY <2>1 DEF InTurn
    <2>3. answer'[d] = <<>>
      BY <1>0, <2>1, <2>2, TailOfOne
    <2>4. Len(got'[d]) = asked[d]
      BY <1>0, <2>1, <2>2, SeqTypes
    <2>. QED
      BY <2>1, <2>2, <2>3, <2>4 DEF InTurn
  <1>6. CASE CustomerIsCut(d) \/ CustomerWalksOut(d)
    BY <1>6 DEF CustomerIsCut, CustomerWalksOut, InTurn, DispatcherTypeOK
  <1>. QED
    BY <1>1, <1>2, <1>3, <1>4, <1>5, <1>6 DEF Customer

LEMMA MoveHead ==
  ASSUME NEW S, NEW s \in Seq(S), NEW t \in Seq(S), t # <<>>
  PROVE  Append(s, Head(t)) \o Tail(t) = s \o t
  OBVIOUS

LEMMA ConcatOne ==
  ASSUME NEW S, NEW s \in Seq(S), NEW x \in S
  PROVE  s \o <<x>> = Append(s, x) /\ s \o <<>> = s
  OBVIOUS

LEMMA OwnStep ==
  ASSUME AnswersInv, DispatcherNext
  PROVE  AnswersAreOwn'
  <1> DEFINE all(c) == got[c] \o answer[c]
  <1>1. DispatcherTypeOK /\ PortKept
    BY PortStep DEF AnswersInv
  <1>. SUFFICES ASSUME NEW d \in Customers
                PROVE  \A k \in 1..Len(all(d)') : all(d)'[k] = [n |-> k, kind |-> announced'[port'[d]]]
    BY DEF AnswersAreOwn
  <1>2. \A k \in 1..Len(all(d)) : all(d)[k] = [n |-> k, kind |-> announced[port[d]]]
    BY DEF AnswersInv, AnswersAreOwn
  <1>3. Routed(d) /\ InTurn(d)
    BY DEF AnswersInv
  <1>4. CASE servedBy[d] = 0
    <2>1. ~ThreadAnswers(d)
      BY <1>4 DEF ThreadAnswers
    <2>2. got[d] = <<>> /\ answer[d] = <<>>
      BY <1>3, <1>4 DEF InTurn
    <2>3. got'[d] = <<>> /\ answer'[d] = <<>>
      <3>1. CASE Customer(d)
        BY <2>2, <3>1 DEF Customer, CustomerConnects, CustomerTypes, CustomerReads, CustomerIsCut,
                          CustomerWalksOut
      <3>2. CASE ~Customer(d)
        BY <1>1, <2>1, <2>2, <3>2, OthersWait
      <3>. QED
        BY <3>1, <3>2
    <2>. QED
      BY <2>3
  <1>5. CASE servedBy[d] # 0
    <2>1. /\ port'[d] = port[d] /\ port[d] \in Ports /\ allUSDs[port[d]] = servedBy[d]
          /\ announced'[port[d]] = announced[port[d]]
      BY <1>1, <1>3, <1>5, CustomerStays DEF Routed, PortKept
    <2>2. CASE all(d)' = all(d)
      BY <1>2, <2>1, <2>2
    <2>3. CASE ~Customer(d) /\ ~ThreadAnswers(d)
      BY <1>1, <2>2, <2>3, OthersWait
    <2>4. CASE Customer(d)
      <3>1. CASE CustomerReads(d)
        <4>1. /\ got[d] \in Seq([n : Nat, kind : Kinds]) /\ answer[d] \in Seq([n : Nat, kind : Kinds])
              /\ answer[d] # <<>> /\ got'[d] = Append(got[d], Head(answer[d]))
              /\ answer'[d] = Tail(answer[d])
          BY <1>1, <3>1 DEF CustomerReads, DispatcherTypeOK
        <4>2. all(d)' = all(d)
          BY <4>1, MoveHead
        <4>. QED
          BY <2>2, <4>2
      <3>2. CASE ~CustomerReads(d)
        <4>1. UNCHANGED <<got, answer>>
          BY <2>4, <3>2 DEF Customer, CustomerConnects, CustomerTypes, CustomerIsCut, CustomerWalksOut
        <4>. QED
          BY <2>2, <4>1
      <3>. QED
        BY <3>1, <3>2
    <2>5. CASE ThreadAnswers(d)
      <3> DEFINE m == Len(got[d]) + 1
                 kd == announced[port[d]]
                 x == [n |-> m, kind |-> kd]
      <3>1. got' = got
        BY <2>5 DEF ThreadAnswers, customerVars
      <3>2. services[servedBy[d]].kind = kd
        BY <1>5, <2>1 DEF AnswersInv, PortOf
      <3>3. \/ answer'[d] = answer[d]
            \/ answer[d] = <<>> /\ answer'[d] = <<x>>
        BY <1>1, <1>3, <2>5, <3>2, AnswerInTurn
      <3>4. CASE answer[d] = <<>> /\ answer'[d] = <<x>>
        <4> DEFINE S == [n : Nat, kind : Kinds]
        <4>1. got[d] \in Seq(S) /\ kd \in Kinds
          <5>1. servedBy[d] \in 1..Len(services)
            BY <1>1, <1>5 DEF DispatcherTypeOK
          <5>2. services[servedBy[d]] \in [kind : Kinds, state : {"serving", "spinning", "dead"}]
            BY <1>1, <5>1, ElementType DEF DispatcherTypeOK
          <5>3. services[servedBy[d]].kind \in Kinds
            BY <5>2
          <5>4. got[d] \in Seq(S)
            BY <1>1 DEF DispatcherTypeOK
          <5>. QED
            BY <3>2, <5>3, <5>4
        <4>2. x \in S
          <5>1. Len(got[d]) \in Nat
            BY <4>1
          <5>. QED
            BY <4>1, <5>1
        <4>. HIDE DEF S, x
        <4>3. all(d) = got[d] /\ all(d)' = Append(got[d], x)
          BY <3>1, <3>4, <4>1, <4>2, ConcatOne
        <4>4. /\ Len(Append(got[d], x)) = m /\ Append(got[d], x)[m] = x /\ Len(got[d]) \in Nat
              /\ \A k \in 1..Len(got[d]) : Append(got[d], x)[k] = got[d][k]
          BY <4>1, <4>2
        <4>5. \A k \in 1..m : k \in 1..Len(got[d]) \/ k = m
          BY <4>4
        <4>. HIDE DEF m, all
        <4>6. \A k \in 1..m : Append(got[d], x)[k] = [n |-> k, kind |-> kd]
          BY <1>2, <4>3, <4>4, <4>5 DEF x
        <4>. QED
          BY <2>1, <4>3, <4>4, <4>6
      <3>. QED
        BY <2>2, <3>1, <3>3, <3>4
    <2>. QED
      BY <2>3, <2>4, <2>5
  <1>. QED
    BY <1>4, <1>5

\* Everything a customer is answered is its own line's answer, in order, from
\* the program announced for its port; whatever the number of ports, customers
\* and messages, and whoever dies (F.c createService, acceptClientAndSendFD;
\* thread_func of S1.c to S3.c).
THEOREM AnswersInvariant == DispatcherSpec => []AnswersInv
  <1>1. AnswersInv /\ DispatcherNext => AnswersInv'
    BY DispatcherTypeStep, FewServicesStep, PortStep, RoutedStep, InTurnStep, OwnStep DEF AnswersInv
  <1>2. AnswersInv /\ UNCHANGED dispatcherVars => AnswersInv'
    <2>. SUFFICES ASSUME AnswersInv, UNCHANGED dispatcherVars PROVE AnswersInv'
      OBVIOUS
    <2>1. DispatcherTypeOK'
      BY DispatcherTypeStep DEF AnswersInv
    <2>. USE DEF AnswersInv, dispatcherVars, forwarderVars, customerVars
    <2>2. FewServices'
      BY DEF FewServices
    <2>3. PortOf'
      BY DEF PortOf
    <2>4. \A c \in Customers : Routed(c)'
      BY DEF Routed
    <2>5. \A c \in Customers : InTurn(c)'
      BY DEF InTurn
    <2>6. AnswersAreOwn'
      BY DEF AnswersAreOwn
    <2>. QED
      BY <2>1, <2>2, <2>3, <2>4, <2>5, <2>6
  <1>. QED
    BY <1>1, <1>2, DispatcherInitInv, PTL DEF DispatcherSpec

THEOREM AnswersAreOwnAlways == DispatcherSpec => []AnswersAreOwn
  BY AnswersInvariant, PTL DEF AnswersInv

-----------------------------------------------------------------------------
(* The toll plaza *)

LEMMA Messages ==
  /\ \A b \in Booths : Go(b) \in Message
  /\ AmountPlease \in Message /\ [kind |-> "exit"] \in Message
  BY DEF Go, AmountPlease, Message

LEMMA WriteType ==
  ASSUME TollTypeOK, NEW v \in Vehicles, NEW m \in Message, Write(v, m)
  PROVE  mail' \in [Vehicles -> Seq(Message)] /\ spoiled' \in [Vehicles -> BOOLEAN]
  <1>1. Append(mail[v], m) \in Seq(Message) /\ mail \in [Vehicles -> Seq(Message)]
    BY DEF TollTypeOK
  <1>2. mail' = mail \/ mail' = [mail EXCEPT ![v] = Append(mail[v], m)]
    BY DEF Write
  <1>. QED
    BY <1>1, <1>2, ExceptType DEF Write, TollTypeOK

LEMMA DispenserType ==
  ASSUME TollTypeOK, NEW d \in Dispensers, Dispenser(d)
  PROVE  TollTypeOK'
  <1>1. CASE DispenserStarts(d)
    <2>1. \A b \in Booths : Append(joined[b], d) \in Seq(Dispensers \cup {Ghost})
                            /\ Append(joined[b], Ghost) \in Seq(Dispensers \cup {Ghost})
      BY DEF TollTypeOK
    <2>2. joined' \in [Booths -> Seq(Dispensers \cup {Ghost})]
      <3>1. \/ joined' = [b \in Booths |-> Append(joined[b], d)]
            \/ joined' = [joined EXCEPT ![1] = Append(joined[1], Ghost)]
        BY <1>1 DEF DispenserStarts
      <3>2. CASE joined' = [b \in Booths |-> Append(joined[b], d)]
        BY <2>1, <3>2
      <3>3. CASE joined' = [joined EXCEPT ![1] = Append(joined[1], Ghost)]
        <4>1. 1 \in Booths /\ joined \in [Booths -> Seq(Dispensers \cup {Ghost})]
          BY DEF Booths, TollTypeOK
        <4>2. Append(joined[1], Ghost) \in Seq(Dispensers \cup {Ghost})
          BY <2>1, <4>1
        <4>. QED
          BY <3>3, <4>1, <4>2, ExceptType
      <3>. QED
        BY <3>1, <3>2, <3>3
    <2>3. dispenser' \in [Dispensers -> {"off", "up", "dead"}]
      BY <1>1 DEF DispenserStarts, TollTypeOK
    <2>. QED
      BY <1>1, <2>2, <2>3 DEF DispenserStarts, TollTypeOK, boothVars, vehicleVars
  <1>2. CASE DispenserTakes(d)
    <2>1. Head(road[d]) \in Vehicles /\ Tail(road[d]) \in Seq(Vehicles)
      BY <1>2, SeqTypes DEF DispenserTakes, TollTypeOK
    <2>2. serving' \in [Dispensers -> Vehicles \cup {NoVehicle}] /\ road' \in [Dispensers -> Seq(Vehicles)]
      BY <1>2, <2>1, ExceptType DEF DispenserTakes, TollTypeOK
    <2>. QED
      BY <1>2, <2>2 DEF DispenserTakes, TollTypeOK, boothVars, vehicleVars
  <1>3. CASE DispenserSends(d)
    <2>. PICK v : v = serving[d]
      OBVIOUS
    <2>. PICK b \in Booths :
           /\ Write(v, [kind |-> "go", booth |-> b])
           /\ IF booth[b] = "dead"
              THEN dispenser' = [dispenser EXCEPT ![d] = "dead"] /\ UNCHANGED lane
              ELSE lane' = [lane EXCEPT ![b][d] = Append(@, v)] /\ UNCHANGED dispenser
      BY <1>3 DEF DispenserSends
    <2>1. v \in Vehicles /\ serving' \in [Dispensers -> Vehicles \cup {NoVehicle}]
      BY <1>3 DEF DispenserSends, TollTypeOK
    <2>2. mail' \in [Vehicles -> Seq(Message)] /\ spoiled' \in [Vehicles -> BOOLEAN]
      BY <2>1, WriteType, Messages DEF Go
    <2>3. dispenser' \in [Dispensers -> {"off", "up", "dead"}]
      BY DEF TollTypeOK
    <2>4. lane' \in [Booths -> [Dispensers -> Seq(Vehicles)]]
      <3>1. lane[b] \in [Dispensers -> Seq(Vehicles)] /\ Append(lane[b][d], v) \in Seq(Vehicles)
        BY <2>1 DEF TollTypeOK
      <3>2. [lane[b] EXCEPT ![d] = Append(lane[b][d], v)] \in [Dispensers -> Seq(Vehicles)]
        BY <3>1, ExceptType
      <3>3. lane' = lane \/ lane' = [lane EXCEPT ![b] = [lane[b] EXCEPT ![d] = Append(lane[b][d], v)]]
        OBVIOUS
      <3>4. lane \in [Booths -> [Dispensers -> Seq(Vehicles)]]
        BY DEF TollTypeOK
      <3>. QED
        BY <3>2, <3>3, <3>4, ExceptType
    <2>. QED
      BY <1>3, <2>1, <2>2, <2>3, <2>4 DEF DispenserSends, TollTypeOK, boothVars, vehicleVars
  <1>. QED
    BY <1>1, <1>2, <1>3 DEF Dispenser

LEMMA BoothWritesType ==
  ASSUME TollTypeOK, NEW b \in Booths, NEW m \in Message, NEW next,
         next \in {"off", "opening", "idle", "asking", "reading", "closing", "stuck", "dead"},
         atBooth[b] \in Vehicles, BoothWrites(b, m, next)
  PROVE  /\ mail' \in [Vehicles -> Seq(Message)] /\ spoiled' \in [Vehicles -> BOOLEAN]
         /\ booth' \in [Booths -> {"off", "opening", "idle", "asking", "reading", "closing",
                                   "stuck", "dead"}]
  <1>1. booth' \in [Booths -> {"off", "opening", "idle", "asking", "reading", "closing",
                               "stuck", "dead"}]
    BY DEF BoothWrites, TollTypeOK
  <1>2. Write(atBooth[b], m) \/ UNCHANGED <<mail, spoiled>>
    BY DEF BoothWrites
  <1>. QED
    BY <1>1, <1>2, WriteType DEF TollTypeOK

LEMMA BoothType ==
  ASSUME TollTypeOK, NEW b \in Booths, AtBooth(b), BoothStarts(b) \/ Booth(b)
  PROVE  TollTypeOK'
  <1>. USE DEF TollTypeOK, dispenserVars, vehicleVars
  <1>0. took \in [Booths -> SUBSET Vehicles]
    OBVIOUS
  <1>1. CASE BoothStarts(b) \/ BoothOpens(b) \/ BoothSticks(b)
    BY <1>1 DEF BoothStarts, BoothOpens, BoothSticks
  <1>2. CASE BoothTakes(b)
    <2>. PICK d \in (Accepted(b) \cap Dispensers) \ hungup[b] :
             /\ lane[b][d] # <<>>
             /\ lane' = [lane EXCEPT ![b][d] = Tail(@)]
             /\ atBooth' = [atBooth EXCEPT ![b] = Head(lane[b][d])]
             /\ took' = [took EXCEPT ![b] = @ \cup {Head(lane[b][d])}]
             /\ \/ UNCHANGED hungup
                \/ hungup' = [hungup EXCEPT ![b] = @ \cup {d}]
      BY <1>2 DEF BoothTakes
    <2>1. lane[b][d] \in Seq(Vehicles) /\ d \in Dispensers
      OBVIOUS
    <2>2. Head(lane[b][d]) \in Vehicles /\ Tail(lane[b][d]) \in Seq(Vehicles)
      BY <2>1, SeqTypes
    <2>3. [lane[b] EXCEPT ![d] = Tail(lane[b][d])] \in [Dispensers -> Seq(Vehicles)]
      BY <2>2, ExceptType
    <2>4. lane' \in [Booths -> [Dispensers -> Seq(Vehicles)]]
      BY <2>3, ExceptType
    <2>5. atBooth' \in [Booths -> Vehicles \cup {NoVehicle}] /\ took' \in [Booths -> SUBSET Vehicles]
          /\ hungup' \in [Booths -> SUBSET Dispensers]
      <3>. PICK v : v = Head(lane[b][d])
        OBVIOUS
      <3>1. v \in Vehicles /\ atBooth' = [atBooth EXCEPT ![b] = v]
            /\ took' = [took EXCEPT ![b] = @ \cup {v}]
        BY <2>2
      <3>2. hungup' = hungup \/ hungup' = [hungup EXCEPT ![b] = @ \cup {d}]
        OBVIOUS
      <3>3. atBooth' \in [Booths -> Vehicles \cup {NoVehicle}]
        BY <3>1
      <3>4. took' \in [Booths -> SUBSET Vehicles]
        BY <3>1
      <3>5. hungup' \in [Booths -> SUBSET Dispensers]
        <4>1. hungup \in [Booths -> SUBSET Dispensers] /\ hungup[b] \cup {d} \in SUBSET Dispensers
          BY <2>1
        <4>. HIDE DEF TollTypeOK
        <4>2. CASE hungup' = [hungup EXCEPT ![b] = hungup[b] \cup {d}]
          BY <4>1, <4>2, ExceptType
        <4>. QED
          BY <3>2, <4>1, <4>2
      <3>. QED
        BY <3>3, <3>4, <3>5
    <2>6. booth' \in [Booths -> {"off", "opening", "idle", "asking", "reading", "closing",
                                 "stuck", "dead"}]
      BY <1>2 DEF BoothTakes
    <2>. QED
      BY <1>2, <2>4, <2>5, <2>6 DEF BoothTakes
  <1>3. CASE BoothAsks(b)
    <2>1. atBooth[b] \in Vehicles
      BY <1>0, <1>3 DEF BoothAsks, AtBooth
    <2>2. BoothWrites(b, AmountPlease, "reading")
      BY <1>3 DEF BoothAsks, AmountPlease
    <2>3. /\ mail' \in [Vehicles -> Seq(Message)] /\ spoiled' \in [Vehicles -> BOOLEAN]
          /\ booth' \in [Booths -> {"off", "opening", "idle", "asking", "reading", "closing",
                                    "stuck", "dead"}]
      BY <2>1, <2>2, Messages, BoothWritesType
    <2>. QED
      BY <1>3, <2>3 DEF BoothAsks
  <1>4. CASE BoothReads(b)
    <2>. PICK v : v = atBooth[b]
      OBVIOUS
    <2>. PICK amount : amount = IF reply[v] = <<>> THEN 0 ELSE Head(reply[v])
      OBVIOUS
    <2>1. v \in Vehicles
      BY <1>0, <1>4 DEF BoothReads, AtBooth
    <2>2. amount \in Int
      <3>1. reply[v] \in Seq(Int)
        BY <2>1
      <3>. QED
        BY <3>1, SeqTypes
    <2>3. total' \in [Booths -> Int]
      BY <1>4, <2>2 DEF BoothReads
    <2>4. billed' \in [Booths -> SUBSET Vehicles] /\ reply' \in [Vehicles -> Seq(Int)]
      BY <1>4, <2>1 DEF BoothReads
    <2>5. booth' \in [Booths -> {"off", "opening", "idle", "asking", "reading", "closing",
                                 "stuck", "dead"}]
      BY <1>4 DEF BoothReads
    <2>. QED
      BY <1>4, <2>3, <2>4, <2>5 DEF BoothReads
  <1>5. CASE BoothCloses(b)
    <2>1. atBooth[b] \in Vehicles
      BY <1>5 DEF BoothCloses, AtBooth
    <2>2. BoothWrites(b, [kind |-> "exit"], "idle")
      BY <1>5 DEF BoothCloses
    <2>3. /\ mail' \in [Vehicles -> Seq(Message)] /\ spoiled' \in [Vehicles -> BOOLEAN]
          /\ booth' \in [Booths -> {"off", "opening", "idle", "asking", "reading", "closing",
                                    "stuck", "dead"}]
      BY <2>1, <2>2, Messages, BoothWritesType
    <2>. QED
      BY <1>5, <2>3 DEF BoothCloses
  <1>. QED
    BY <1>1, <1>2, <1>3, <1>4, <1>5 DEF Booth

LEMMA VehicleType ==
  ASSUME TollTypeOK, NEW v \in Vehicles, Vehicle(v)
  PROVE  TollTypeOK'
  <1>. USE DEF TollTypeOK, dispenserVars, boothVars
  <1>1. CASE \E d \in Dispensers : Arrives(v, d)
    <2>. PICK d \in Dispensers : Arrives(v, d)
      BY <1>1
    <2>1. Append(road[d], v) \in Seq(Vehicles)
      OBVIOUS
    <2>2. road' \in [Dispensers -> Seq(Vehicles)]
      BY <2>1, ExceptType DEF Arrives
    <2>3. driver' \in [Vehicles -> {"home", "first", "reading", "typing", "done", "left", "lost"}]
          /\ via' \in [Vehicles -> Dispensers \cup {Ghost}]
      BY DEF Arrives
    <2>. QED
      BY <2>2, <2>3 DEF Arrives
  <1>2. CASE DriverReads(v)
    <2>. PICK m : m = IF mail[v] = <<>> THEN [kind |-> "end"] ELSE Head(mail[v])
      OBVIOUS
    <2>. PICK mm : mm = IF mail[v] = <<>> THEN mail[v] ELSE Tail(mail[v])
      OBVIOUS
    <2>0. mail[v] \in Seq(Message)
      OBVIOUS
    <2>1. m.kind = "go" => m.booth \in Booths
      <3>1. mail[v] # <<>> => Head(mail[v]) \in Message
        BY <2>0, SeqTypes
      <3>. QED
        BY <3>1 DEF Message
    <2>2. told' = [told EXCEPT ![v] = IF m.kind = "go" THEN m.booth ELSE told[v]]
      <3>1. CASE mail[v] = <<>>
        BY <1>2, <3>1 DEF DriverReads
      <3>2. CASE mail[v] # <<>>
        BY <1>2, <3>2 DEF DriverReads
      <3>. QED
        BY <3>1, <3>2
    <2>3. told' \in [Vehicles -> Booths \cup {0}]
      BY <2>1, <2>2
    <2>4. \E s \in {"reading", "done", "typing"} : driver' = [driver EXCEPT ![v] = s]
      <3>1. CASE driver[v] = "first"
        BY <1>2, <3>1 DEF DriverReads
      <3>2. CASE driver[v] # "first" /\ m.kind = "exit"
        BY <1>2, <3>2 DEF DriverReads
      <3>3. CASE driver[v] # "first" /\ m.kind # "exit"
        BY <1>2, <3>3 DEF DriverReads
      <3>. QED
        BY <3>1, <3>2, <3>3
    <2>5. driver' \in [Vehicles -> {"home", "first", "reading", "typing", "done", "left", "lost"}]
      BY <2>4
    <2>6. mm \in Seq(Message)
      BY <2>0, SeqTypes
    <2>7. mail' = [mail EXCEPT ![v] = mm]
      <3>1. CASE mail[v] = <<>>
        BY <1>2, <3>1 DEF DriverReads
      <3>2. CASE mail[v] # <<>>
        BY <1>2, <3>2 DEF DriverReads
      <3>. QED
        BY <3>1, <3>2
    <2>8. mail' \in [Vehicles -> Seq(Message)]
      BY <2>6, <2>7, ExceptType
    <2>. QED
      BY <1>2, <2>3, <2>5, <2>8 DEF DriverReads
  <1>3. CASE \E amount \in Amounts : DriverTypes(v, amount)
    <2>. PICK amount \in Amounts : DriverTypes(v, amount)
      BY <1>3
    <2>1. amount \in Int
      BY TollAssumption
    <2>2. Append(reply[v], amount) \in Seq(Int)
      BY <2>1
    <2>3. reply' \in [Vehicles -> Seq(Int)]
      BY <2>2, ExceptType DEF DriverTypes
    <2>4. typed' \in [Vehicles -> Int]
      BY <2>1 DEF DriverTypes
    <2>5. driver' \in [Vehicles -> {"home", "first", "reading", "typing", "done", "left", "lost"}]
      BY DEF DriverTypes
    <2>. QED
      BY <2>3, <2>4, <2>5 DEF DriverTypes
  <1>4. CASE Leaves(v)
    BY <1>4 DEF Leaves
  <1>. QED
    BY <1>1, <1>2, <1>3, <1>4 DEF Vehicle

LEMMA TollTypeStep ==
  ASSUME TollTypeOK, \A b \in Booths : AtBooth(b), [TollNext]_tollVars
  PROVE  TollTypeOK'
  <1>1. CASE UNCHANGED tollVars
    BY <1>1 DEF tollVars, dispenserVars, boothVars, vehicleVars, TollTypeOK
  <1>2. CASE TollNext
    BY <1>2, DispenserType, BoothType, VehicleType DEF TollNext
  <1>. QED
    BY <1>1, <1>2

LEMMA PlacedStays ==
  ASSUME NEW v \in Vehicles, Placed(v), UNCHANGED <<road, serving, lane, took, via>>,
         driver[v] # "home" => driver'[v] # "home",
         \A d \in Dispensers : dispenser[d] = "up" /\ serving[d] = v => dispenser'[d] = "up"
  PROVE  Placed(v)'
  BY DEF Placed, Passed

LEMMA PlacedTaken ==
  ASSUME TollTypeOK, NEW v \in Vehicles, Placed(v), NEW d \in Dispensers, DispenserTakes(d)
  PROVE  Placed(v)'
  <1>. PICK u : u = Head(road[d])
    OBVIOUS
  <1>. PICK r : r = Tail(road[d])
    OBVIOUS
  <1>0. /\ road[d] \in Seq(Vehicles) /\ road[d] # <<>> /\ dispenser[d] = "up"
        /\ UNCHANGED <<lane, took, via, driver, dispenser>>
        /\ serving' = [serving EXCEPT ![d] = u]
    BY DEF DispenserTakes, TollTypeOK, boothVars, vehicleVars
  <1>1. /\ road'[d] = r /\ \A e \in Dispensers : e # d => road'[e] = road[e]
        /\ serving'[d] = u /\ \A e \in Dispensers : e # d => serving'[e] = serving[e]
    BY DEF DispenserTakes, TollTypeOK
  <1>2. /\ 1 \in 1..Len(road[d]) /\ road[d][1] = u
        /\ \A k \in 1..Len(r) : k + 1 \in 1..Len(road[d]) /\ r[k] = road[d][k + 1] /\ k + 1 # 1
    BY <1>0, TailAt
  <1>3. Passed(v)' = Passed(v)
    BY <1>0 DEF Passed
  <1>4. ASSUME NEW e \in Dispensers, NEW k \in 1..Len(road'[e]), road'[e][k] = v
        PROVE  /\ via[v] = e /\ driver[v] # "home" /\ ~Passed(v)
               /\ \A f \in Dispensers : serving'[f] # v
               /\ \A i \in 1..Len(road'[e]) : road'[e][i] = v => i = k
    <2>1. CASE e = d
      <3>1. k + 1 \in 1..Len(road[d]) /\ road[d][k + 1] = v
        BY <1>1, <1>2, <1>4, <2>1
      <3>2. /\ via[v] = d /\ driver[v] # "home" /\ ~Passed(v) /\ u # v
            /\ \A f \in Dispensers : serving[f] # v
        BY <1>2, <3>1 DEF Placed
      <3>3. \A i \in 1..Len(r) : r[i] = v => i + 1 = k + 1
        BY <1>2, <3>1 DEF Placed
      <3>4. \A i \in 1..Len(r) : r[i] = v => i = k
        <4>1. \A i \in 1..Len(r), j \in 1..Len(r) : i + 1 = j + 1 => i = j
          OBVIOUS
        <4>2. k \in 1..Len(r)
          BY <1>1, <2>1
        <4>. QED
          BY <3>3, <4>1, <4>2
      <3>. QED
        BY <1>1, <2>1, <3>2, <3>4
    <2>2. CASE e # d
      <3>1. k \in 1..Len(road[e]) /\ road[e][k] = v
        BY <1>1, <1>4, <2>2
      <3>2. /\ via[v] = e /\ driver[v] # "home" /\ ~Passed(v)
            /\ \A f \in Dispensers : serving[f] # v
            /\ \A i \in 1..Len(road[e]) : road[e][i] = v => i = k
        BY <3>1 DEF Placed
      <3>3. u # v
        BY <1>2, <2>2, <3>2 DEF Placed
      <3>. QED
        BY <1>1, <2>2, <3>2, <3>3
    <2>. QED
      BY <2>1, <2>2
  <1>5. ASSUME NEW e \in Dispensers, serving'[e] = v
        PROVE  via[v] = e /\ driver[v] # "home" /\ ~Passed(v) /\ dispenser[e] = "up"
    BY <1>0, <1>1, <1>2, <1>5 DEF Placed
  <1>. QED
    BY <1>0, <1>3, <1>4, <1>5 DEF Placed

LEMMA PlacedSent ==
  ASSUME TollTypeOK, NEW v \in Vehicles, Placed(v), NEW d \in Dispensers, DispenserSends(d)
  PROVE  Placed(v)'
  <1>. PICK u : u = serving[d]
    OBVIOUS
  <1>0. /\ u \in Vehicles /\ u # NoVehicle /\ UNCHANGED <<road, took, via, driver>>
        /\ serving'[d] = NoVehicle /\ \A e \in Dispensers : e # d => serving'[e] = serving[e]
    BY TollAssumption DEF DispenserSends, TollTypeOK, boothVars, vehicleVars
  <1>1. /\ serving'[d] # v
        /\ \A e \in Dispensers : serving'[e] = v => e # d /\ serving[e] = v
    BY <1>0, TollAssumption
  <1>2. \A e \in Dispensers : e # d => dispenser'[e] = dispenser[e]
    BY DEF DispenserSends, TollTypeOK
  <1>3. PICK b \in Booths :
           \/ UNCHANGED lane
           \/ lane' = [lane EXCEPT ![b][d] = Append(lane[b][d], u)]
    BY DEF DispenserSends
  <1>4. \A c \in Booths, e \in Dispensers : \A k \in 1..Len(lane'[c][e]) :
           \/ k \in 1..Len(lane[c][e]) /\ lane'[c][e][k] = lane[c][e][k]
           \/ c = b /\ e = d /\ k = Len(lane[b][d]) + 1 /\ lane'[c][e][k] = u
    <2>1. CASE UNCHANGED lane
      BY <2>1
    <2>2. CASE lane' = [lane EXCEPT ![b][d] = Append(lane[b][d], u)]
      <3>1. lane[b][d] \in Seq(Vehicles)
        BY DEF TollTypeOK
      <3>. PICK s : s = Append(lane[b][d], u)
        OBVIOUS
      <3>2. \A k \in 1..Len(s) : \/ k \in 1..Len(lane[b][d]) /\ s[k] = lane[b][d][k]
                                 \/ k = Len(lane[b][d]) + 1 /\ s[k] = u
        BY <1>0, <3>1, AppendAt
      <3>3. /\ lane'[b][d] = s
            /\ \A c \in Booths, e \in Dispensers : c # b \/ e # d => lane'[c][e] = lane[c][e]
        BY <2>2 DEF TollTypeOK
      <3>. QED
        BY <3>2, <3>3
    <2>. QED
      BY <1>3, <2>1, <2>2
  <1>5. u = v => /\ via[v] = d /\ driver[v] # "home" /\ ~Passed(v)
                 /\ \A e \in Dispensers : e # d => serving[e] # v
                 /\ \A e \in Dispensers : \A k \in 1..Len(road[e]) : road[e][k] # v
    BY DEF Placed
  <1>6. u # v => (Passed(v)' => Passed(v))
    <2>. SUFFICES ASSUME u # v, Passed(v)' PROVE Passed(v)
      OBVIOUS
    <2>1. CASE \E c \in Booths : v \in took'[c]
      BY <1>0, <2>1 DEF Passed
    <2>2. CASE \E c \in Booths, e \in Dispensers : \E k \in 1..Len(lane'[c][e]) : lane'[c][e][k] = v
      <3>. PICK c \in Booths, e \in Dispensers : \E k \in 1..Len(lane'[c][e]) : lane'[c][e][k] = v
        BY <2>2
      <3>. PICK k \in 1..Len(lane'[c][e]) : lane'[c][e][k] = v
        OBVIOUS
      <3>1. k \in 1..Len(lane[c][e]) /\ lane[c][e][k] = v
        BY <1>4
      <3>. QED
        BY <3>1 DEF Passed
    <2>. QED
      BY <2>1, <2>2 DEF Passed
  <1>7. ASSUME NEW e \in Dispensers, NEW k \in 1..Len(road[e]), road[e][k] = v
        PROVE  /\ via[v] = e /\ driver[v] # "home" /\ ~Passed(v)'
               /\ \A f \in Dispensers : serving'[f] # v
               /\ \A i \in 1..Len(road[e]) : road[e][i] = v => i = k
    <2>1. u # v
      BY <1>5, <1>7
    <2>. QED
      BY <1>1, <1>6, <1>7, <2>1 DEF Placed
  <1>8. ASSUME NEW e \in Dispensers, serving'[e] = v
        PROVE  via[v] = e /\ driver[v] # "home" /\ ~Passed(v)' /\ dispenser'[e] = "up"
    <2>1. serving[e] = v /\ e # d
      BY <1>1, <1>8
    <2>2. u # v
      BY <1>5, <2>1
    <2>. QED
      BY <1>2, <1>6, <2>1, <2>2 DEF Placed
  <1>9. ASSUME NEW c \in Booths, NEW e \in Dispensers, NEW k \in 1..Len(lane'[c][e]),
               lane'[c][e][k] = v
        PROVE  /\ driver[v] # "home" /\ \A g \in Booths : v \notin took[g]
               /\ \A g \in Booths, f \in Dispensers : \A i \in 1..Len(lane'[g][f]) :
                     lane'[g][f][i] = v => g = c /\ f = e /\ i = k
    <2>1. CASE u = v
      <3>1. \A g \in Booths, f \in Dispensers : \A i \in 1..Len(lane'[g][f]) :
               lane'[g][f][i] = v => g = b /\ f = d /\ i = Len(lane[b][d]) + 1
        <4>1. \A g \in Booths, f \in Dispensers : \A i \in 1..Len(lane[g][f]) : lane[g][f][i] # v
          BY <1>5, <2>1 DEF Passed
        <4>2. ASSUME NEW g \in Booths, NEW f \in Dispensers, NEW i \in 1..Len(lane'[g][f]),
                     lane'[g][f][i] = v
              PROVE  g = b /\ f = d /\ i = Len(lane[b][d]) + 1
          <5>1. \/ i \in 1..Len(lane[g][f]) /\ lane'[g][f][i] = lane[g][f][i]
                \/ g = b /\ f = d /\ i = Len(lane[b][d]) + 1
            BY <1>4
          <5>. QED
            BY <4>1, <4>2, <5>1
        <4>. QED
          BY <4>2
      <3>2. driver[v] # "home" /\ \A g \in Booths : v \notin took[g]
        BY <1>5, <2>1 DEF Passed
      <3>3. c = b /\ e = d /\ k = Len(lane[b][d]) + 1
        BY <1>9, <3>1
      <3>. QED
        BY <3>1, <3>2, <3>3
    <2>2. CASE u # v
      <3>1. \A g \in Booths, f \in Dispensers : \A i \in 1..Len(lane'[g][f]) :
               lane'[g][f][i] = v => i \in 1..Len(lane[g][f]) /\ lane[g][f][i] = v
        BY <1>4, <2>2
      <3>2. k \in 1..Len(lane[c][e]) /\ lane[c][e][k] = v
        BY <1>9, <3>1
      <3>3. /\ driver[v] # "home" /\ \A g \in Booths : v \notin took[g]
            /\ \A g \in Booths, f \in Dispensers : \A i \in 1..Len(lane[g][f]) :
                  lane[g][f][i] = v => g = c /\ f = e /\ i = k
        BY <3>2 DEF Placed
      <3>. QED
        BY <3>1, <3>3
    <2>. QED
      BY <2>1, <2>2
  <1>. QED
    BY <1>0, <1>7, <1>8, <1>9 DEF Placed

LEMMA PlacedAtBooth ==
  ASSUME TollTypeOK, NEW v \in Vehicles, Placed(v), NEW b \in Booths, BoothTakes(b)
  PROVE  Placed(v)'
  <1>. PICK d \in Dispensers :
             /\ lane[b][d] # <<>>
             /\ lane' = [lane EXCEPT ![b][d] = Tail(lane[b][d])]
             /\ took' = [took EXCEPT ![b] = @ \cup {Head(lane[b][d])}]
    BY DEF BoothTakes
  <1>. PICK u : u = Head(lane[b][d])
    OBVIOUS
  <1>. PICK r : r = Tail(lane[b][d])
    OBVIOUS
  <1>0. UNCHANGED <<road, serving, dispenser, via, driver>>
    BY DEF BoothTakes, dispenserVars, vehicleVars
  <1>1. lane[b][d] \in Seq(Vehicles)
    BY DEF TollTypeOK
  <1>2. /\ 1 \in 1..Len(lane[b][d]) /\ lane[b][d][1] = u
        /\ \A k \in 1..Len(r) : k + 1 \in 1..Len(lane[b][d]) /\ r[k] = lane[b][d][k + 1] /\ k + 1 # 1
    BY <1>1, TailAt
  <1>3. /\ lane'[b][d] = r
        /\ \A c \in Booths, e \in Dispensers : c # b \/ e # d => lane'[c][e] = lane[c][e]
        /\ took'[b] = took[b] \cup {u} /\ \A c \in Booths : c # b => took'[c] = took[c]
    BY DEF TollTypeOK
  <1>4. CASE u = v
    <2>1. /\ driver[v] # "home" /\ \A c \in Booths : v \notin took[c]
          /\ \A c \in Booths, e \in Dispensers : \A i \in 1..Len(lane[c][e]) :
                lane[c][e][i] = v => c = b /\ e = d /\ i = 1
      BY <1>2, <1>4 DEF Placed
    <2>2. \A c \in Booths, e \in Dispensers : \A i \in 1..Len(lane'[c][e]) : lane'[c][e][i] # v
      <3>1. \A i \in 1..Len(r) : r[i] # v
        BY <1>2, <2>1
      <3>2. ASSUME NEW c \in Booths, NEW e \in Dispensers, NEW i \in 1..Len(lane'[c][e])
            PROVE  lane'[c][e][i] # v
        <4>1. CASE c = b /\ e = d
          BY <1>3, <3>1, <3>2, <4>1
        <4>2. CASE c # b \/ e # d
          <5>1. lane'[c][e] = lane[c][e]
            BY <1>3, <4>2
          <5>. QED
            BY <2>1, <3>2, <4>2, <5>1
        <4>. QED
          BY <4>1, <4>2
      <3>. QED
        BY <3>2
    <2>3. Passed(v)
      BY <1>2, <1>4 DEF Passed
    <2>. QED
      BY <1>0, <1>3, <2>1, <2>2, <2>3 DEF Placed
  <1>5. CASE u # v
    <2>1. \A c \in Booths, e \in Dispensers : \A i \in 1..Len(lane'[c][e]) :
             lane'[c][e][i] = v =>
                IF c = b /\ e = d THEN i + 1 \in 1..Len(lane[c][e]) /\ lane[c][e][i + 1] = v
                ELSE i \in 1..Len(lane[c][e]) /\ lane[c][e][i] = v
      <3>1. ASSUME NEW c \in Booths, NEW e \in Dispensers, NEW i \in 1..Len(lane'[c][e]),
                   lane'[c][e][i] = v
            PROVE  IF c = b /\ e = d THEN i + 1 \in 1..Len(lane[c][e]) /\ lane[c][e][i + 1] = v
                   ELSE i \in 1..Len(lane[c][e]) /\ lane[c][e][i] = v
        <4>1. CASE c = b /\ e = d
          <5>1. i \in 1..Len(r) /\ r[i] = v
            BY <1>3, <3>1, <4>1
          <5>. QED
            BY <1>2, <4>1, <5>1
        <4>2. CASE c # b \/ e # d
          <5>1. lane'[c][e] = lane[c][e]
            BY <1>3, <4>2
          <5>. QED
            BY <3>1, <4>2, <5>1
        <4>. QED
          BY <4>1, <4>2
      <3>. QED
        BY <3>1
    <2>2. \A c \in Booths : v \in took'[c] => v \in took[c]
      BY <1>3, <1>5
    <2>3. Passed(v)' => Passed(v)
      BY <2>1, <2>2 DEF Passed
    <2>4. ASSUME NEW c \in Booths, NEW e \in Dispensers, NEW k \in 1..Len(lane'[c][e]),
                 lane'[c][e][k] = v
          PROVE  /\ driver[v] # "home" /\ \A g \in Booths : v \notin took'[g]
                 /\ \A g \in Booths, f \in Dispensers : \A i \in 1..Len(lane'[g][f]) :
                       lane'[g][f][i] = v => g = c /\ f = e /\ i = k
      <3>. PICK j : j = IF c = b /\ e = d THEN k + 1 ELSE k
        OBVIOUS
      <3>1. j \in 1..Len(lane[c][e]) /\ lane[c][e][j] = v
        BY <2>1, <2>4
      <3>2. /\ driver[v] # "home" /\ \A g \in Booths : v \notin took[g]
            /\ \A g \in Booths, f \in Dispensers : \A i \in 1..Len(lane[g][f]) :
                  lane[g][f][i] = v => g = c /\ f = e /\ i = j
        BY <3>1 DEF Placed
      <3>3. ASSUME NEW g \in Booths, NEW f \in Dispensers, NEW i \in 1..Len(lane'[g][f]),
                   lane'[g][f][i] = v
            PROVE  g = c /\ f = e /\ i = k
        <4>. PICK l : l = IF g = b /\ f = d THEN i + 1 ELSE i
          OBVIOUS
        <4>1. l \in 1..Len(lane[g][f]) /\ lane[g][f][l] = v
          BY <2>1, <3>3
        <4>2. g = c /\ f = e /\ l = j
          BY <3>2, <4>1
        <4>3. i \in Int /\ k \in Int
          OBVIOUS
        <4>. QED
          BY <4>2, <4>3
      <3>. QED
        BY <2>2, <3>2, <3>3
    <2>. QED
      BY <1>0, <2>2, <2>3, <2>4 DEF Placed
  <1>. QED
    BY <1>4, <1>5

LEMMA PlacedArriving ==
  ASSUME TollTypeOK, NEW v \in Vehicles, Placed(v), NEW u \in Vehicles, NEW d \in Dispensers,
         Arrives(u, d)
  PROVE  Placed(v)'
  <1>0. /\ driver[u] = "home" /\ UNCHANGED <<serving, dispenser, lane, took>>
        /\ driver'[u] # "home" /\ via'[u] = d
        /\ v # u => driver'[v] = driver[v] /\ via'[v] = via[v]
    BY DEF Arrives, boothVars, TollTypeOK
  <1>. PICK r : r = Append(road[d], u)
    OBVIOUS
  <1>1. road'[d] = r /\ \A e \in Dispensers : e # d => road'[e] = road[e]
    BY DEF Arrives, TollTypeOK
  <1>2. /\ \A k \in 1..Len(r) : \/ k = Len(road[d]) + 1 /\ r[k] = u
                                \/ k \in 1..Len(road[d]) /\ r[k] = road[d][k]
    <2>1. road[d] \in Seq(Vehicles)
      BY DEF TollTypeOK
    <2>. QED
      BY <2>1, AppendAt
  <1>3. Passed(v)' = Passed(v)
    BY <1>0 DEF Passed
  <1>4. CASE u = v
    <2>1. /\ \A e \in Dispensers : serving[e] # v /\ \A k \in 1..Len(road[e]) : road[e][k] # v
          /\ ~Passed(v)
      BY <1>0, <1>4 DEF Placed, Passed
    <2>2. ASSUME NEW e \in Dispensers, NEW k \in 1..Len(road'[e]), road'[e][k] = v
          PROVE  e = d /\ k = Len(road[d]) + 1
      BY <1>1, <1>2, <2>1, <2>2
    <2>3. ASSUME NEW e \in Dispensers, NEW k \in 1..Len(road'[e]), road'[e][k] = v
          PROVE  e = d /\ \A i \in 1..Len(road'[e]) : road'[e][i] = v => i = k
      BY <2>2, <2>3
    <2>. QED
      BY <1>0, <1>3, <1>4, <2>1, <2>3 DEF Placed, Passed
  <1>5. CASE u # v
    <2>1. \A e \in Dispensers : \A k \in 1..Len(road'[e]) : road'[e][k] = v =>
             k \in 1..Len(road[e]) /\ road[e][k] = v
      BY <1>1, <1>2, <1>5
    <2>2. ASSUME NEW e \in Dispensers, NEW k \in 1..Len(road'[e]), road'[e][k] = v
          PROVE  /\ via[v] = e /\ driver[v] # "home" /\ ~Passed(v)
                 /\ \A f \in Dispensers : serving[f] # v
                 /\ \A i \in 1..Len(road'[e]) : road'[e][i] = v => i = k
      <3>1. k \in 1..Len(road[e]) /\ road[e][k] = v
        BY <2>1, <2>2
      <3>. QED
        BY <2>1, <3>1 DEF Placed
    <2>. QED
      BY <1>0, <1>3, <1>5, <2>2 DEF Placed
  <1>. QED
    BY <1>4, <1>5

LEMMA PlacedStep ==
  ASSUME TollTypeOK, TollNext, NEW v \in Vehicles, Placed(v)
  PROVE  Placed(v)'
  <1>1. ASSUME NEW d \in Dispensers, Dispenser(d)
        PROVE  Placed(v)'
    <2>1. CASE DispenserStarts(d)
      BY <2>1, PlacedStays DEF DispenserStarts, boothVars, vehicleVars, TollTypeOK
    <2>. QED
      BY <1>1, <2>1, PlacedTaken, PlacedSent DEF Dispenser
  <1>2. ASSUME NEW b \in Booths, BoothStarts(b) \/ Booth(b)
        PROVE  Placed(v)'
    <2>1. CASE ~BoothTakes(b)
      <3>1. UNCHANGED <<road, serving, lane, took, via, driver, dispenser>>
        BY <1>2, <2>1 DEF Booth, BoothStarts, BoothOpens, BoothSticks, BoothAsks, BoothReads,
                          BoothCloses, dispenserVars, vehicleVars
      <3>. QED
        BY <3>1, PlacedStays
    <2>. QED
      BY <2>1, PlacedAtBooth
  <1>3. ASSUME NEW u \in Vehicles, Vehicle(u)
        PROVE  Placed(v)'
    <2>1. CASE \E d \in Dispensers : Arrives(u, d)
      BY <2>1, PlacedArriving
    <2>2. CASE \E amount \in Amounts : DriverTypes(u, amount)
      <3>1. UNCHANGED <<road, serving, lane, took, via, dispenser>> /\ driver'[v] \in {driver[v], "reading", "lost"}
        BY <2>2 DEF DriverTypes, boothVars, dispenserVars, TollTypeOK
      <3>. QED
        BY <3>1, PlacedStays
    <2>3. CASE DriverReads(u)
      <3>1. UNCHANGED <<road, serving, lane, took, via, dispenser>>
        BY <2>3 DEF DriverReads, boothVars, dispenserVars
      <3>2. driver'[v] \in {driver[v], "reading", "typing", "done"}
        BY <2>3 DEF DriverReads, TollTypeOK
      <3>. QED
        BY <3>1, <3>2, PlacedStays
    <2>4. CASE Leaves(u)
      <3>1. UNCHANGED <<road, serving, lane, took, via, dispenser>> /\ driver'[v] \in {driver[v], "left"}
        BY <2>4 DEF Leaves, boothVars, dispenserVars, TollTypeOK
      <3>. QED
        BY <3>1, PlacedStays
    <2>. QED
      BY <1>3, <2>1, <2>2, <2>3, <2>4 DEF Vehicle
  <1>. QED
    BY <1>1, <1>2, <1>3 DEF TollNext

OnRoad(d, v) == \E k \in 1..Len(road[d]) : road[d][k] = v
InLane(b, d, v) == \E k \in 1..Len(lane[b][d]) : lane[b][d][k] = v
Exit == [kind |-> "exit"]

LEMMA PlacesOfPassed ==
  ASSUME NEW v \in Vehicles, Placed(v)
  PROVE  /\ \A d \in Dispensers : OnRoad(d, v) => via[v] = d /\ driver[v] # "home" /\ ~Passed(v)
                                                  /\ \A e \in Dispensers : serving[e] # v
         /\ \A d \in Dispensers : serving[d] = v =>
               via[v] = d /\ driver[v] # "home" /\ ~Passed(v) /\ dispenser[d] = "up"
         /\ \A b \in Booths, d \in Dispensers : InLane(b, d, v) =>
               /\ driver[v] # "home" /\ \A c \in Booths : v \notin took[c]
               /\ \A c \in Booths, e \in Dispensers : InLane(c, e, v) => c = b /\ e = d
         /\ \A b, c \in Booths : v \in took[b] /\ v \in took[c] => b = c
         /\ \A b \in Booths : v \in took[b] => driver[v] # "home"
         /\ Passed(v) = \/ \E b \in Booths : v \in took[b]
                        \/ \E b \in Booths, d \in Dispensers : InLane(b, d, v)
  <1>1. Passed(v) = \/ \E b \in Booths : v \in took[b]
                    \/ \E b \in Booths, d \in Dispensers : InLane(b, d, v)
    BY DEF Passed, InLane
  <1>2. \A b, c \in Booths : v \in took[b] /\ v \in took[c] => b = c
    BY DEF Placed
  <1>3. \A b \in Booths, d \in Dispensers : InLane(b, d, v) =>
               /\ driver[v] # "home" /\ \A c \in Booths : v \notin took[c]
               /\ \A c \in Booths, e \in Dispensers : InLane(c, e, v) => c = b /\ e = d
    BY DEF Placed, InLane
  <1>4. \A d \in Dispensers : OnRoad(d, v) => via[v] = d /\ driver[v] # "home" /\ ~Passed(v)
                                              /\ \A e \in Dispensers : serving[e] # v
    BY DEF Placed, OnRoad
  <1>5. /\ \A d \in Dispensers : serving[d] = v =>
               via[v] = d /\ driver[v] # "home" /\ ~Passed(v) /\ dispenser[d] = "up"
        /\ \A b \in Booths : v \in took[b] => driver[v] # "home"
    BY DEF Placed
  <1>. QED
    BY <1>1, <1>2, <1>3, <1>4, <1>5

\* Conversation, read with the places of a vehicle.
Talk(v) ==
    /\ IF driver[v] = "home" THEN mail[v] = <<>> /\ reply[v] = <<>> ELSE via[v] \in Dispensers
    /\ \A d \in Dispensers : serving[d] = v => Silent(v)
    /\ \A d \in Dispensers : OnRoad(d, v) /\ dispenser[d] # "dead" => Silent(v)
    /\ \A b \in Booths, d \in Dispensers : InLane(b, d, v) /\ booth[b] # "dead" => Directed(v, b)
    /\ \A b \in Booths : v \in took[b] /\ v \notin billed[b] =>
          /\ v = atBooth[b]
          /\ \/ booth[b] = "asking" /\ Directed(v, b)
             \/ booth[b] = "reading" /\ Asked(v, b)
             \/ booth[b] = "dead"
    /\ \A b \in Booths : v \in billed[b] =>
          /\ v \in took[b] /\ Paid(v, b)
          /\ booth[b] = "closing" /\ v = atBooth[b] => mail[v] = <<>>

LEMMA TalkIsConversation ==
  ASSUME NEW v \in Vehicles
  PROVE  /\ Conversation(v) => Talk(v)
         /\ Talk(v) => Conversation(v)
  <1>. USE DEF Conversation, Talk, OnRoad, InLane
  <1>1. Conversation(v) => Talk(v)
    OBVIOUS
  <1>2. Talk(v) => Conversation(v)
    OBVIOUS
  <1>. QED
    BY <1>1, <1>2

LEMMA TalkIsConversationNext ==
  ASSUME NEW v \in Vehicles, Talk(v)'
  PROVE  Conversation(v)'
  BY DEF Conversation, Talk, OnRoad, InLane

\* What the others do does not reach vehicle v.
LEMMA TalkStays ==
  ASSUME NEW v \in Vehicles, Talk(v),
         driver'[v] = driver[v], via'[v] = via[v], mail'[v] = mail[v], reply'[v] = reply[v],
         told'[v] = told[v], typed'[v] = typed[v],
         \A d \in Dispensers : serving'[d] = v => Silent(v),
         \A d \in Dispensers : OnRoad(d, v)' /\ dispenser'[d] # "dead" =>
            OnRoad(d, v) /\ dispenser[d] # "dead",
         \A b \in Booths, d \in Dispensers : InLane(b, d, v)' /\ booth'[b] # "dead" =>
            InLane(b, d, v) /\ booth[b] # "dead",
         \A b \in Booths : v \in took'[b] <=> v \in took[b],
         \A b \in Booths : v \in billed'[b] <=> v \in billed[b],
         \A b \in Booths : v \in took[b] /\ v \notin billed[b] =>
            v = atBooth'[b] /\ (booth'[b] = booth[b] \/ booth'[b] = "dead"),
         \A b \in Booths : v \in billed[b] /\ booth'[b] = "closing" /\ v = atBooth'[b] =>
            booth[b] = "closing" /\ v = atBooth[b],
         \A b \in Booths : booth[b] = "dead" => booth'[b] = "dead",
         \A d \in Dispensers : dispenser[d] = "dead" => dispenser'[d] = "dead"
  PROVE  Talk(v)'
  <1>1. Silent(v)' = Silent(v)
    BY DEF Silent
  <1>2. \A b \in Booths : Directed(v, b)' = Directed(v, b)
    BY DEF Directed, Go
  <1>3. \A b \in Booths : Asked(v, b)' = Asked(v, b)
    BY DEF Asked, Go, AmountPlease
  <1>4. \A b \in Booths : Paid(v, b) => Paid(v, b)'
    BY DEF Paid, Talk
  <1>5. /\ IF driver'[v] = "home" THEN mail'[v] = <<>> /\ reply'[v] = <<>> ELSE via'[v] \in Dispensers
        /\ \A d \in Dispensers : serving'[d] = v => Silent(v)'
        /\ \A d \in Dispensers : OnRoad(d, v)' /\ dispenser'[d] # "dead" => Silent(v)'
        /\ \A b \in Booths, d \in Dispensers : InLane(b, d, v)' /\ booth'[b] # "dead" => Directed(v, b)'
    BY <1>1, <1>2 DEF Talk
  <1>6. \A b \in Booths : v \in took'[b] /\ v \notin billed'[b] =>
          /\ v = atBooth'[b]
          /\ \/ booth'[b] = "asking" /\ Directed(v, b)'
             \/ booth'[b] = "reading" /\ Asked(v, b)'
             \/ booth'[b] = "dead"
    BY <1>2, <1>3 DEF Talk
  <1>7. \A b \in Booths : v \in billed'[b] =>
          /\ v \in took'[b] /\ Paid(v, b)'
          /\ booth'[b] = "closing" /\ v = atBooth'[b] => mail'[v] = <<>>
    BY <1>4 DEF Talk
  <1>. QED
    BY <1>5, <1>6, <1>7 DEF Talk

\* A vehicle whose descriptor a booth holds is nowhere else.
LEMMA TalkAtBooth ==
  ASSUME NEW v \in Vehicles, NEW b \in Booths, Placed(v)', v \in took'[b], via'[v] \in Dispensers,
         \A c \in Booths : v \in billed'[c] => v \in took'[c],
         v \notin billed'[b] =>
            /\ v = atBooth'[b]
            /\ \/ booth'[b] = "asking" /\ Directed(v, b)'
               \/ booth'[b] = "reading" /\ Asked(v, b)'
               \/ booth'[b] = "dead",
         v \in billed'[b] =>
            Paid(v, b)' /\ (booth'[b] = "closing" /\ v = atBooth'[b] => mail'[v] = <<>>)
  PROVE  Talk(v)'
  <1>1. (/\ \A d \in Dispensers : ~OnRoad(d, v)
         /\ \A d \in Dispensers : serving[d] # v
         /\ \A c \in Booths, d \in Dispensers : ~InLane(c, d, v)
         /\ \A c \in Booths : v \in took[c] => b = c
         /\ driver[v] # "home")'
    BY DEF Placed, Passed, OnRoad, InLane
  <1>. QED
    BY <1>1 DEF Talk

\* The parts of the invariant that the steps below start from.
Known == TollTypeOK /\ \A v \in Vehicles : Placed(v) /\ Talk(v)

LEMMA MessageTuples ==
  \A m, n \in Message :
     /\ <<m>> # <<>> /\ Head(<<m>>) = m /\ Tail(<<m>>) = <<>>
     /\ <<m, n>> # <<>> /\ Head(<<m, n>>) = m /\ Tail(<<m, n>>) = <<n>>
  <1>. SUFFICES ASSUME NEW m \in Message, NEW n \in Message
                PROVE  /\ <<m>> # <<>> /\ Head(<<m>>) = m /\ Tail(<<m>>) = <<>>
                       /\ <<m, n>> # <<>> /\ Head(<<m, n>>) = m /\ Tail(<<m, n>>) = <<n>>
    OBVIOUS
  <1>. QED
    BY Tuples

LEMMA MessageKinds ==
  /\ \A b \in Booths : Go(b).kind = "go" /\ Go(b).booth = b
  /\ AmountPlease.kind = "amount" /\ Exit.kind = "exit"
  BY DEF Go, AmountPlease, Exit

LEMMA WriteAt ==
  ASSUME TollTypeOK, NEW u \in Vehicles, NEW m, Write(u, m)
  PROVE  /\ mail'[u] = IF driver[u] = "left" THEN mail[u] ELSE Append(mail[u], m)
         /\ \A v \in Vehicles : v # u => mail'[v] = mail[v]
  BY DEF Write, TollTypeOK

LEMMA TalkDispenser ==
  ASSUME Known, NEW v \in Vehicles, Placed(v)', NEW d \in Dispensers, Dispenser(d)
  PROVE  Talk(v)'
  <1>0. Placed(v) /\ Talk(v) /\ TollTypeOK
    BY DEF Known
  <1>1. CASE DispenserStarts(d)
    <2>1. UNCHANGED <<serving, road, booth, atBooth, took, billed, driver, via, typed, told, lane, mail, reply>>
      BY <1>1 DEF DispenserStarts, boothVars, vehicleVars
    <2>2. \A e \in Dispensers : dispenser'[e] = "dead" <=> dispenser[e] = "dead"
      BY <1>0, <1>1 DEF DispenserStarts, TollTypeOK
    <2>4. /\ \A e \in Dispensers : OnRoad(e, v)' = OnRoad(e, v)
          /\ \A b \in Booths, e \in Dispensers : InLane(b, e, v)' = InLane(b, e, v)
      BY <2>1 DEF OnRoad, InLane
    <2>5. /\ \A e \in Dispensers : serving[e] = v => Silent(v)
          /\ \A b \in Booths : v \in took[b] /\ v \notin billed[b] => v = atBooth[b]
      BY <1>0 DEF Talk
    <2>. QED
      BY <1>0, <2>1, <2>2, <2>4, <2>5, TalkStays
  <1>2. CASE DispenserTakes(d)
    <2>. PICK u : u = Head(road[d])
      OBVIOUS
    <2>1. UNCHANGED <<dispenser, booth, atBooth, took, billed, driver, via, typed, told, lane, mail, reply>>
      BY <1>2 DEF DispenserTakes, boothVars, vehicleVars
    <2>2. road[d] \in Seq(Vehicles) /\ road[d] # <<>> /\ dispenser[d] = "up"
      BY <1>0, <1>2 DEF DispenserTakes, TollTypeOK
    <2>3. OnRoad(d, u)
      BY <2>2, TailAt DEF OnRoad
    <2>4. \A e \in Dispensers : serving'[e] = v => Silent(v)
      BY <1>0, <1>2, <2>2, <2>3 DEF Talk, DispenserTakes, TollTypeOK
    <2>5. ASSUME NEW e \in Dispensers, OnRoad(e, v)' PROVE OnRoad(e, v)
      <3>1. CASE e = d
        <4>1. road'[d] = Tail(road[d])
          BY <1>0, <1>2 DEF DispenserTakes, TollTypeOK
        <4>2. \A k \in 1..Len(Tail(road[d])) : k + 1 \in 1..Len(road[d]) /\ Tail(road[d])[k] = road[d][k + 1]
          BY <2>2, TailAt
        <4>. QED
          BY <2>5, <3>1, <4>1, <4>2 DEF OnRoad
      <3>2. CASE e # d
        BY <1>0, <1>2, <2>5, <3>2 DEF DispenserTakes, TollTypeOK, OnRoad
      <3>. QED
        BY <3>1, <3>2
    <2>6. \A b \in Booths, e \in Dispensers : InLane(b, e, v)' = InLane(b, e, v)
      BY <2>1 DEF InLane
    <2>7. \A b \in Booths : v \in took[b] /\ v \notin billed[b] => v = atBooth[b]
      BY <1>0 DEF Talk
    <2>. QED
      BY <1>0, <2>1, <2>4, <2>5, <2>6, <2>7, TalkStays
  <1>3. CASE DispenserSends(d)
    <2>. PICK u : u = serving[d]
      OBVIOUS
    <2>1. /\ UNCHANGED <<road, booth, atBooth, took, billed, driver, via, typed, told, reply>>
          /\ u \in Vehicles /\ u # NoVehicle
      BY <1>0, <1>3 DEF DispenserSends, boothVars, vehicleVars, TollTypeOK
    <2>2. PICK b \in Booths :
            /\ Write(u, Go(b))
            /\ \/ booth[b] = "dead" /\ dispenser' = [dispenser EXCEPT ![d] = "dead"] /\ UNCHANGED lane
               \/ lane' = [lane EXCEPT ![b][d] = Append(lane[b][d], u)] /\ UNCHANGED dispenser
      BY <1>3 DEF DispenserSends, Go
    <2>3. \A e \in Dispensers : dispenser'[e] = dispenser[e] \/ dispenser'[e] = "dead"
      BY <1>0, <2>2 DEF TollTypeOK
    <2>4. /\ \A e \in Dispensers : serving'[e] = v => serving[e] = v
          /\ serving'[d] # v
      BY <1>0, <1>3, TollAssumption DEF DispenserSends, TollTypeOK
    <2>5. \A e \in Dispensers : OnRoad(e, v)' = OnRoad(e, v)
      BY <2>1 DEF OnRoad
    <2>6. ASSUME NEW c \in Booths, NEW e \in Dispensers, InLane(c, e, v)'
          PROVE  InLane(c, e, v) \/ (c = b /\ e = d /\ v = u)
      <3>1. CASE lane' = lane
        BY <2>6, <3>1 DEF InLane
      <3>2. CASE lane' = [lane EXCEPT ![b][d] = Append(lane[b][d], u)]
        <4>1. CASE c = b /\ e = d
          <5>1. lane'[c][e] = Append(lane[c][e], u) /\ lane[c][e] \in Seq(Vehicles)
            BY <1>0, <3>2, <4>1 DEF TollTypeOK
          <5>. PICK s : s = Append(lane[c][e], u)
            OBVIOUS
          <5>2. \A k \in 1..Len(s) : s[k] = u \/ (k \in 1..Len(lane[c][e]) /\ s[k] = lane[c][e][k])
            BY <2>1, <5>1, AppendAt
          <5>3. \E k \in 1..Len(s) : s[k] = v
            BY <2>6, <5>1 DEF InLane
          <5>. QED
            BY <4>1, <5>2, <5>3 DEF InLane
        <4>2. CASE c # b \/ e # d
          <5>1. lane'[c][e] = lane[c][e]
            BY <1>0, <3>2, <4>2 DEF TollTypeOK
          <5>. QED
            BY <2>6, <5>1 DEF InLane
        <4>. QED
          BY <4>1, <4>2
      <3>. QED
        BY <2>2, <3>1, <3>2
    <2>7. mail'[u] = (IF driver[u] = "left" THEN mail[u] ELSE Append(mail[u], Go(b)))
          /\ \A w \in Vehicles : w # u => mail'[w] = mail[w]
      BY <1>0, <2>1, <2>2, WriteAt
    <2>8. CASE v # u
      <3>1. \A c \in Booths : v \in took[c] /\ v \notin billed[c] => v = atBooth[c]
        BY <1>0 DEF Talk
      <3>2. \A e \in Dispensers : serving[e] = v => Silent(v)
        BY <1>0 DEF Talk
      <3>. QED
        BY <1>0, <2>1, <2>3, <2>4, <2>5, <2>6, <2>7, <2>8, <3>1, <3>2, TalkStays
    <2>9. CASE v = u
      <3>0. ~Passed(v) /\ via[v] = d /\ driver[v] # "home"
        BY <1>0, <2>9, PlacesOfPassed
      <3>1. /\ Silent(v) /\ \A c \in Booths : v \notin took[c] /\ v \notin billed[c]
            /\ \A c \in Booths, e \in Dispensers : ~InLane(c, e, v)
            /\ \A e \in Dispensers : ~OnRoad(e, v)
            /\ driver[v] # "home"
        <4>1. /\ \A c \in Booths : v \notin took[c]
              /\ \A c \in Booths, e \in Dispensers : ~InLane(c, e, v)
          BY <1>0, <3>0, PlacesOfPassed
        <4>2. \A e \in Dispensers : ~OnRoad(e, v)
          BY <1>0, <2>9, PlacesOfPassed
        <4>3. Silent(v) /\ \A c \in Booths : v \notin billed[c]
          BY <1>0, <2>9, <4>1 DEF Talk
        <4>. QED
          BY <3>0, <4>1, <4>2, <4>3
      <3>2. Directed(v, b)'
        <4>1. CASE driver[v] = "left"
          BY <2>1, <2>7, <2>9, <3>1, <4>1 DEF Silent, Directed
        <4>2. CASE driver[v] = "first"
          <5>1. mail'[v] = <<Go(b)>>
            BY <2>7, <2>9, <3>1, <4>2, Tuples DEF Silent
          <5>. QED
            BY <2>1, <2>9, <3>1, <4>2, <5>1 DEF Silent, Directed, Go
        <4>. QED
          BY <3>1, <4>1, <4>2 DEF Silent
      <3>3. \A c \in Booths, e \in Dispensers : InLane(c, e, v)' => c = b
        BY <2>6, <3>1
      <3>4. \A e \in Dispensers : serving'[e] # v /\ ~OnRoad(e, v)'
        <4>1. \A e \in Dispensers : serving[e] = v => e = d
          BY <1>0, <3>0, PlacesOfPassed
        <4>. QED
          BY <2>4, <2>5, <3>1, <4>1
      <3>. QED
        BY <2>1, <3>0, <3>1, <3>2, <3>3, <3>4 DEF Talk
    <2>. QED
      BY <2>8, <2>9
  <1>. QED
    BY <1>1, <1>2, <1>3 DEF Dispenser

LEMMA TalkBoothTakes ==
  ASSUME Known, NEW v \in Vehicles, Placed(v)', NEW b \in Booths, BoothTakes(b)
  PROVE  Talk(v)'
  <1>0. Placed(v) /\ Talk(v) /\ TollTypeOK
    BY DEF Known
  <1>1. PICK d \in Dispensers :
             /\ lane[b][d] # <<>>
             /\ lane' = [lane EXCEPT ![b][d] = Tail(lane[b][d])]
             /\ atBooth' = [atBooth EXCEPT ![b] = Head(lane[b][d])]
             /\ took' = [took EXCEPT ![b] = @ \cup {Head(lane[b][d])}]
    BY DEF BoothTakes
  <1>. PICK u : u = Head(lane[b][d])
    OBVIOUS
  <1>2. /\ UNCHANGED <<dispenser, serving, road, billed, driver, via, typed, told, mail, reply>>
        /\ booth[b] = "idle" /\ booth' = [booth EXCEPT ![b] = "asking"]
    BY DEF BoothTakes, dispenserVars, vehicleVars
  <1>3. /\ booth'[b] = "asking" /\ \A c \in Booths : c # b => booth'[c] = booth[c]
        /\ atBooth'[b] = u /\ \A c \in Booths : c # b => atBooth'[c] = atBooth[c]
        /\ took'[b] = took[b] \cup {u} /\ \A c \in Booths : c # b => took'[c] = took[c]
    BY <1>0, <1>1, <1>2 DEF TollTypeOK
  <1>4. /\ lane[b][d] \in Seq(Vehicles)
        /\ lane'[b][d] = Tail(lane[b][d])
        /\ \A c \in Booths, e \in Dispensers : c # b \/ e # d => lane'[c][e] = lane[c][e]
    BY <1>0, <1>1 DEF TollTypeOK
  <1>5. InLane(b, d, u)
    BY <1>1, <1>4, TailAt DEF InLane
  <1>6. CASE v = u
    <2>1. /\ Directed(v, b) /\ via[v] \in Dispensers
          /\ \A c \in Booths : v \notin took[c] /\ v \notin billed[c]
      BY <1>0, <1>2, <1>5, <1>6, PlacesOfPassed DEF Talk
    <2>2. Directed(v, b)'
      BY <1>2, <2>1 DEF Directed
    <2>. QED
      BY <1>2, <1>3, <1>6, <2>1, <2>2, TalkAtBooth
  <1>7. CASE v # u
    <2>1. \A c \in Booths : v \in took[c] /\ v \notin billed[c] => v = atBooth[c] /\ c # b
      BY <1>0, <1>2 DEF Talk
    <2>2. ASSUME NEW c \in Booths, NEW e \in Dispensers, InLane(c, e, v)'
          PROVE  InLane(c, e, v)
      <3>1. CASE c = b /\ e = d
        <4>1. \A k \in 1..Len(Tail(lane[b][d])) :
                 k + 1 \in 1..Len(lane[b][d]) /\ Tail(lane[b][d])[k] = lane[b][d][k + 1]
          BY <1>1, <1>4, TailAt
        <4>2. PICK k \in 1..Len(Tail(lane[b][d])) : Tail(lane[b][d])[k] = v
          BY <1>4, <2>2, <3>1 DEF InLane
        <4>. QED
          BY <3>1, <4>1, <4>2 DEF InLane
      <3>2. CASE c # b \/ e # d
        <4>1. lane'[c][e] = lane[c][e]
          BY <1>4, <3>2
        <4>. QED
          BY <2>2, <4>1 DEF InLane
      <3>. QED
        BY <3>1, <3>2
    <2>3. \A e \in Dispensers : OnRoad(e, v)' = OnRoad(e, v)
      BY <1>2 DEF OnRoad
    <2>4. \A e \in Dispensers : serving[e] = v => Silent(v)
      BY <1>0 DEF Talk
    <2>5. \A c \in Booths : (booth[c] = "dead" <=> booth'[c] = "dead")
                            /\ (booth'[c] = "closing" => c # b)
      BY <1>2, <1>3
    <2>6. \A c \in Booths : v \in took'[c] <=> v \in took[c]
      BY <1>3, <1>7
    <2>. QED
      BY <1>0, <1>2, <1>3, <2>1, <2>2, <2>3, <2>4, <2>5, <2>6, TalkStays
  <1>. QED
    BY <1>6, <1>7

\* A step of a booth that touches no vehicle but the one it serves.
LEMMA TalkElsewhere ==
  ASSUME Known, NEW v \in Vehicles, NEW b \in Booths,
         UNCHANGED <<dispenser, serving, road, driver, via, typed, told, lane, atBooth, took>>,
         mail'[v] = mail[v], reply'[v] = reply[v],
         \A c \in Booths : v \in billed'[c] <=> v \in billed[c],
         \A c \in Booths : c # b => booth'[c] = booth[c],
         booth[b] # "dead",
         v \in took[b] /\ v \notin billed[b] => booth'[b] = booth[b] \/ booth'[b] = "dead",
         v = atBooth[b] => booth'[b] # "closing"
  PROVE  Talk(v)'
  <1>1. Talk(v)
    BY DEF Known
  <1>2. /\ \A d \in Dispensers : OnRoad(d, v)' = OnRoad(d, v)
        /\ \A c \in Booths, d \in Dispensers : InLane(c, d, v)' = InLane(c, d, v)
    BY DEF OnRoad, InLane
  <1>3. /\ \A d \in Dispensers : serving[d] = v => Silent(v)
        /\ \A c \in Booths : v \in took[c] /\ v \notin billed[c] => v = atBooth[c]
    BY <1>1 DEF Talk
  <1>. QED
    BY <1>1, <1>2, <1>3, TalkStays

LEMMA BoothWritesAt ==
  ASSUME TollTypeOK, NEW b \in Booths, NEW m, NEW next, atBooth[b] \in Vehicles,
         next # "dead", BoothWrites(b, m, next)
  PROVE  /\ \A v \in Vehicles : v # atBooth[b] => mail'[v] = mail[v]
         /\ \A c \in Booths : c # b => booth'[c] = booth[c]
         /\ \/ /\ booth'[b] = next
               /\ mail'[atBooth[b]] = IF driver[atBooth[b]] = "left" THEN mail[atBooth[b]]
                                      ELSE Append(mail[atBooth[b]], m)
            \/ booth'[b] = "dead" /\ driver[atBooth[b]] = "left" /\ UNCHANGED mail
  <1>1. CASE Write(atBooth[b], m) /\ booth' = [booth EXCEPT ![b] = next]
    BY <1>1, WriteAt DEF TollTypeOK
  <1>2. CASE driver[atBooth[b]] = "left" /\ booth' = [booth EXCEPT ![b] = "dead"]
             /\ UNCHANGED <<mail, spoiled>>
    BY <1>2 DEF TollTypeOK
  <1>. QED
    BY <1>1, <1>2 DEF BoothWrites

LEMMA TalkBoothAsks ==
  ASSUME Known, NEW v \in Vehicles, Placed(v)', NEW b \in Booths, AtBooth(b), BoothAsks(b)
  PROVE  Talk(v)'
  <1>0. Placed(v) /\ Talk(v) /\ TollTypeOK
    BY DEF Known
  <1>. PICK u : u = atBooth[b]
    OBVIOUS
  <1>1. /\ UNCHANGED <<dispenser, serving, road, driver, via, typed, told, lane, atBooth, took, billed, reply>>
        /\ booth[b] = "asking"
    BY DEF BoothAsks, dispenserVars, vehicleVars
  <1>2. u \in Vehicles /\ u \in took[b] /\ u \notin billed[b]
    BY <1>0, <1>1 DEF AtBooth, TollTypeOK
  <1>3. /\ v # u => mail'[v] = mail[v]
        /\ \A c \in Booths : c # b => booth'[c] = booth[c]
        /\ \/ /\ booth'[b] = "reading"
              /\ mail'[u] = IF driver[u] = "left" THEN mail[u] ELSE Append(mail[u], AmountPlease)
           \/ booth'[b] = "dead" /\ driver[u] = "left" /\ UNCHANGED mail
    BY <1>0, <1>2, BoothWritesAt DEF BoothAsks, AmountPlease
  <1>4. CASE v # u
    <2>1. v \in took[b] => v \in billed[b]
      BY <1>0, <1>4 DEF Talk
    <2>. QED
      BY <1>1, <1>3, <1>4, <2>1, TalkElsewhere
  <1>5. CASE v = u
    <2>1. /\ Directed(v, b) /\ via[v] \in Dispensers
          /\ \A c \in Booths : v \in billed[c] => v \in took[c]
      BY <1>0, <1>1, <1>2, <1>5, PlacesOfPassed DEF Talk
    <2>2. booth'[b] = "reading" => Asked(v, b)'
      <3>. SUFFICES ASSUME booth'[b] = "reading" PROVE Asked(v, b)'
        OBVIOUS
      <3>1. CASE driver[v] = "left"
        BY <1>1, <1>3, <1>5, <2>1, <3>1 DEF Directed, Asked
      <3>2. CASE driver[v] = "first"
        <4>1. mail'[v] = <<Go(b), AmountPlease>>
          BY <1>3, <1>5, <2>1, <3>2, Messages, Tuples DEF Directed
        <4>. QED
          BY <1>1, <2>1, <3>2, <4>1 DEF Directed, Asked, Go, AmountPlease
      <3>3. CASE driver[v] = "reading"
        <4>1. mail'[v] = <<AmountPlease>>
          BY <1>3, <1>5, <2>1, <3>3, Messages, Tuples DEF Directed
        <4>. QED
          BY <1>1, <2>1, <3>3, <4>1 DEF Directed, Asked, AmountPlease
      <3>. QED
        BY <2>1, <3>1, <3>2, <3>3 DEF Directed
    <2>. QED
      BY <1>1, <1>2, <1>3, <1>5, <2>1, <2>2, TalkAtBooth
  <1>. QED
    BY <1>4, <1>5

LEMMA TalkBoothReads ==
  ASSUME Known, NEW v \in Vehicles, Placed(v)', NEW b \in Booths, AtBooth(b), BoothReads(b)
  PROVE  Talk(v)'
  <1>0. Placed(v) /\ Talk(v) /\ TollTypeOK
    BY DEF Known
  <1>. PICK u : u = atBooth[b]
    OBVIOUS
  <1>. PICK amount : amount = IF reply[u] = <<>> THEN 0 ELSE Head(reply[u])
    OBVIOUS
  <1>1. /\ UNCHANGED <<dispenser, serving, road, driver, via, typed, told, lane, atBooth, took, mail>>
        /\ booth[b] = "reading" /\ (reply[u] # <<>> \/ driver[u] = "left")
    BY DEF BoothReads, dispenserVars, vehicleVars
  <1>2. u \in Vehicles /\ u \in took[b] /\ u \notin billed[b]
    BY <1>0, <1>1 DEF AtBooth, TollTypeOK
  <1>3. /\ reply' = [reply EXCEPT ![u] = <<>>]
        /\ billed' = [billed EXCEPT ![b] = IF amount = 0 THEN @ ELSE @ \cup {u}]
        /\ booth' = [booth EXCEPT ![b] = IF amount = 0 THEN "asking" ELSE "closing"]
    BY DEF BoothReads
  <1>4. /\ v # u => reply'[v] = reply[v]
        /\ reply'[u] = <<>>
        /\ billed'[b] = IF amount = 0 THEN billed[b] ELSE billed[b] \cup {u}
        /\ booth'[b] = IF amount = 0 THEN "asking" ELSE "closing"
        /\ \A c \in Booths : c # b => booth'[c] = booth[c] /\ billed'[c] = billed[c]
    BY <1>0, <1>2, <1>3 DEF TollTypeOK
  <1>5. CASE v # u
    <2>1. v \in took[b] => v \in billed[b]
      BY <1>0, <1>1, <1>5 DEF Talk
    <2>2. \A c \in Booths : v \in billed'[c] <=> v \in billed[c]
      BY <1>4, <1>5
    <2>. QED
      BY <1>1, <1>4, <1>5, <2>1, <2>2, TalkElsewhere
  <1>6. CASE v = u
    <2>1. /\ Asked(v, b) /\ via[v] \in Dispensers
          /\ \A c \in Booths : v \in billed[c] => v \in took[c]
      BY <1>0, <1>1, <1>2, <1>6, PlacesOfPassed DEF Talk
    <2>2. \A c \in Booths : v \in billed'[c] => v \in took'[c]
      BY <1>1, <1>2, <1>4, <1>6, <2>1
    <2>3. \/ driver[v] = "left" /\ mail[v] = <<>>
          \/ driver[v] \in {"reading", "left"} /\ mail[v] = <<>> /\ told[v] = b
      BY <1>1, <1>6, <2>1 DEF Asked
    <2>4. amount # 0 => told[v] = b
      BY <1>6, <2>1 DEF Asked
    <2>5. Directed(v, b)'
      BY <1>1, <1>4, <1>6, <2>3 DEF Directed
    <2>6. amount # 0 => Paid(v, b)'
      BY <1>1, <1>4, <1>6, <2>3, <2>4 DEF Paid
    <2>7. mail'[v] = <<>>
      BY <1>1, <2>3
    <2>8. amount = 0 => booth'[b] = "asking" /\ v \notin billed'[b]
      BY <1>2, <1>4, <1>6
    <2>9. amount # 0 => v \in billed'[b]
      BY <1>2, <1>4, <1>6
    <2>. QED
      BY <1>1, <1>2, <1>6, <2>1, <2>2, <2>5, <2>6, <2>7, <2>8, <2>9, TalkAtBooth
  <1>. QED
    BY <1>5, <1>6

LEMMA TalkBoothCloses ==
  ASSUME Known, NEW v \in Vehicles, Placed(v)', NEW b \in Booths, AtBooth(b), BoothCloses(b)
  PROVE  Talk(v)'
  <1>0. Placed(v) /\ Talk(v) /\ TollTypeOK
    BY DEF Known
  <1>. PICK u : u = atBooth[b]
    OBVIOUS
  <1>1. /\ UNCHANGED <<dispenser, serving, road, driver, via, typed, told, lane, atBooth, took, billed, reply>>
        /\ booth[b] = "closing"
    BY DEF BoothCloses, dispenserVars, vehicleVars
  <1>2. u \in Vehicles /\ u \in billed[b]
    BY <1>0, <1>1 DEF AtBooth, TollTypeOK
  <1>3. /\ v # u => mail'[v] = mail[v]
        /\ \A c \in Booths : c # b => booth'[c] = booth[c]
        /\ \/ /\ booth'[b] = "idle"
              /\ mail'[u] = IF driver[u] = "left" THEN mail[u] ELSE Append(mail[u], Exit)
           \/ booth'[b] = "dead" /\ driver[u] = "left" /\ UNCHANGED mail
    BY <1>0, <1>2, BoothWritesAt DEF BoothCloses, Exit
  <1>4. CASE v # u
    <2>1. v \in took[b] => v \in billed[b]
      BY <1>0, <1>1, <1>4 DEF Talk
    <2>. QED
      BY <1>1, <1>3, <1>4, <2>1, TalkElsewhere
  <1>5. CASE v = u
    <2>1. /\ Paid(v, b) /\ via[v] \in Dispensers /\ v \in took[b] /\ mail[v] = <<>>
          /\ \A c \in Booths : v \in billed[c] => v \in took[c]
      BY <1>0, <1>1, <1>2, <1>5, PlacesOfPassed DEF Talk
    <2>2. mail'[v] = <<>> \/ mail'[v] = <<Exit>>
      BY <1>3, <1>5, <2>1, Messages, Tuples DEF Exit
    <2>3. driver[v] # "typing"
      BY <1>1, <2>1 DEF Paid
    <2>4. Paid(v, b)'
      BY <1>1, <2>1, <2>2, <2>3 DEF Paid, Exit
    <2>. QED
      BY <1>1, <1>2, <1>3, <1>5, <2>1, <2>4, TalkAtBooth
  <1>. QED
    BY <1>4, <1>5

LEMMA TalkBooth ==
  ASSUME Known, NEW v \in Vehicles, Placed(v)', NEW b \in Booths, AtBooth(b),
         BoothStarts(b) \/ Booth(b)
  PROVE  Talk(v)'
  <1>1. CASE BoothStarts(b) \/ BoothOpens(b) \/ BoothSticks(b)
    <2>1. /\ UNCHANGED <<dispenser, serving, road, driver, via, typed, told, lane, atBooth, took,
                         billed, mail, reply>>
          /\ booth[b] \in {"off", "opening", "idle"}
      BY <1>1 DEF BoothStarts, BoothOpens, BoothSticks, dispenserVars, vehicleVars
    <2>2. booth'[b] # "closing" /\ \A c \in Booths : c # b => booth'[c] = booth[c]
      BY <1>1 DEF BoothStarts, BoothOpens, BoothSticks, Known, TollTypeOK
    <2>3. v \in took[b] => v \in billed[b]
      BY <2>1 DEF Known, Talk
    <2>. QED
      BY <2>1, <2>2, <2>3, TalkElsewhere
  <1>. QED
    BY <1>1, TalkBoothTakes, TalkBoothAsks, TalkBoothReads, TalkBoothCloses DEF Booth

\* A step of a vehicle touches no other vehicle.
LEMMA TalkOfOthers ==
  ASSUME Known, NEW v \in Vehicles, NEW u \in Vehicles, u # v, Vehicle(u)
  PROVE  Talk(v)'
  <1>0. Talk(v) /\ TollTypeOK
    BY DEF Known
  <1>1. /\ UNCHANGED <<dispenser, serving, booth, atBooth, took, billed, lane>>
        /\ driver'[v] = driver[v] /\ via'[v] = via[v] /\ mail'[v] = mail[v] /\ reply'[v] = reply[v]
        /\ told'[v] = told[v] /\ typed'[v] = typed[v]
    <2>1. CASE \E d \in Dispensers : Arrives(u, d)
      BY <1>0, <2>1 DEF Arrives, boothVars, TollTypeOK
    <2>2. CASE DriverReads(u)
      BY <1>0, <2>2 DEF DriverReads, boothVars, dispenserVars, TollTypeOK
    <2>3. CASE \E amount \in Amounts : DriverTypes(u, amount)
      BY <1>0, <2>3 DEF DriverTypes, boothVars, dispenserVars, TollTypeOK
    <2>4. CASE Leaves(u)
      BY <1>0, <2>4 DEF Leaves, boothVars, dispenserVars, TollTypeOK
    <2>. QED
      BY <2>1, <2>2, <2>3, <2>4 DEF Vehicle
  <1>2. ASSUME NEW e \in Dispensers, OnRoad(e, v)' PROVE OnRoad(e, v)
    <2>1. CASE \E d \in Dispensers : Arrives(u, d)
      <3>. PICK d \in Dispensers : Arrives(u, d)
        BY <2>1
      <3>1. /\ road[d] \in Seq(Vehicles) /\ road'[d] = Append(road[d], u)
            /\ e # d => road'[e] = road[e]
        BY <1>0 DEF Arrives, TollTypeOK
      <3>. PICK r : r = Append(road[d], u)
        OBVIOUS
      <3>2. \A k \in 1..Len(r) : r[k] = u \/ (k \in 1..Len(road[d]) /\ r[k] = road[d][k])
        BY <3>1, AppendAt
      <3>. QED
        BY <1>2, <3>1, <3>2 DEF OnRoad
    <2>2. CASE ~\E d \in Dispensers : Arrives(u, d)
      <3>1. road' = road
        BY <2>2 DEF Vehicle, DriverReads, DriverTypes, Leaves, dispenserVars
      <3>. QED
        BY <1>2, <3>1 DEF OnRoad
    <2>. QED
      BY <2>1, <2>2
  <1>3. \A c \in Booths, d \in Dispensers : InLane(c, d, v)' = InLane(c, d, v)
    BY <1>1 DEF InLane
  <1>4. /\ \A d \in Dispensers : serving[d] = v => Silent(v)
        /\ \A c \in Booths : v \in took[c] /\ v \notin billed[c] => v = atBooth[c]
    BY <1>0 DEF Talk
  <1>. QED
    BY <1>0, <1>1, <1>2, <1>3, <1>4, TalkStays

LEMMA TalkArrives ==
  ASSUME Known, NEW v \in Vehicles, NEW d \in Dispensers, Arrives(v, d)
  PROVE  Talk(v)'
  <1>0. Placed(v) /\ Talk(v) /\ TollTypeOK
    BY DEF Known
  <1>1. /\ UNCHANGED <<dispenser, serving, booth, atBooth, took, billed, lane, mail, reply>>
        /\ driver[v] = "home" /\ driver'[v] = "first" /\ via'[v] = d
    BY <1>0 DEF Arrives, boothVars, TollTypeOK
  <1>2. Silent(v)'
    BY <1>0, <1>1 DEF Talk, Silent
  <1>3. /\ \A b \in Booths : v \notin took[b] /\ v \notin billed[b]
        /\ \A b \in Booths, e \in Dispensers : ~InLane(b, e, v)
    BY <1>0, <1>1, PlacesOfPassed DEF Talk
  <1>4. \A b \in Booths, e \in Dispensers : ~InLane(b, e, v)'
    BY <1>1, <1>3 DEF InLane
  <1>. QED
    BY <1>1, <1>2, <1>3, <1>4 DEF Talk

\* While somebody who will still write to it has its connection, it is open.
LEMMA OpenConnection ==
  ASSUME NEW v \in Vehicles, Placed(v),
         \/ \E d \in Dispensers : serving[d] = v
         \/ \E d \in Dispensers : OnRoad(d, v) /\ dispenser[d] # "dead"
         \/ \E b \in Booths, d \in Dispensers : InLane(b, d, v) /\ booth[b] # "dead"
         \/ \E b \in Booths : v \in took[b] /\ booth[b] # "dead"
  PROVE  ~Closed(v)
  <1>1. (\E d \in Dispensers : serving[d] = v \/ (OnRoad(d, v) /\ dispenser[d] # "dead")) =>
           dispenser[via[v]] # "dead"
    BY PlacesOfPassed
  <1>2. (\E b \in Booths, d \in Dispensers : InLane(b, d, v) /\ booth[b] # "dead") => ~Closed(v)
    BY DEF Closed, InLane
  <1>. QED
    BY <1>1, <1>2 DEF Closed

\* What a driver finds when it reads: nothing only at the end of a connection.
LEMMA ReadingAt ==
  ASSUME TollTypeOK, NEW v \in Vehicles, DriverReads(v)
  PROVE  /\ driver[v] \in {"first", "reading"} /\ (mail[v] # <<>> \/ Closed(v))
         /\ driver[v] = "first" => driver'[v] = "reading"
         /\ driver[v] = "reading" /\ mail[v] = <<>> =>
               driver'[v] = "typing" /\ mail'[v] = <<>> /\ told'[v] = told[v]
         /\ mail[v] # <<>> =>
               /\ mail'[v] = Tail(mail[v])
               /\ Head(mail[v]).kind = "go" => told'[v] = Head(mail[v]).booth
               /\ Head(mail[v]).kind # "go" => told'[v] = told[v]
               /\ driver[v] = "reading" =>
                     driver'[v] = IF Head(mail[v]).kind = "exit" THEN "done" ELSE "typing"
  <1>1. CASE mail[v] = <<>>
    <2>1. CASE driver[v] = "first"
      BY <1>1, <2>1 DEF DriverReads, TollTypeOK
    <2>2. CASE driver[v] # "first"
      BY <1>1, <2>2 DEF DriverReads, TollTypeOK
    <2>. QED
      BY <2>1, <2>2
  <1>2. CASE mail[v] # <<>>
    <2>1. /\ driver[v] \in {"first", "reading"} /\ mail'[v] = Tail(mail[v])
          /\ Head(mail[v]).kind = "go" => told'[v] = Head(mail[v]).booth
          /\ Head(mail[v]).kind # "go" => told'[v] = told[v]
      BY <1>2 DEF DriverReads, TollTypeOK
    <2>2. driver[v] = "first" => driver'[v] = "reading"
      BY <1>2 DEF DriverReads, TollTypeOK
    <2>3. driver[v] = "reading" =>
             driver'[v] = IF Head(mail[v]).kind = "exit" THEN "done" ELSE "typing"
      BY <1>2 DEF DriverReads, TollTypeOK
    <2>. QED
      BY <1>2, <2>1, <2>2, <2>3
  <1>. QED
    BY <1>1, <1>2

LEMMA TalkReads ==
  ASSUME Known, NEW v \in Vehicles, Placed(v)', DriverReads(v)
  PROVE  Talk(v)'
  <1>0. Placed(v) /\ Talk(v) /\ TollTypeOK
    BY DEF Known
  <1>1. /\ UNCHANGED <<dispenser, serving, road, booth, atBooth, took, billed, lane, via, typed, reply>>
        /\ driver[v] \in {"first", "reading"}
    BY DEF DriverReads, dispenserVars, boothVars
  <1>2. driver'[v] # "home" /\ via'[v] \in Dispensers
    BY <1>0, <1>1, ReadingAt DEF Talk
  <1>3. \A d \in Dispensers : serving[d] # v
    <2>1. ASSUME NEW d \in Dispensers, serving[d] = v PROVE FALSE
      BY <1>0, <2>1, ReadingAt, OpenConnection DEF Talk, Silent
    <2>. QED
      BY <2>1
  <1>4. \A d \in Dispensers : ~(OnRoad(d, v) /\ dispenser[d] # "dead")
    <2>1. ASSUME NEW d \in Dispensers, OnRoad(d, v), dispenser[d] # "dead" PROVE FALSE
      BY <1>0, <2>1, ReadingAt, OpenConnection DEF Talk, Silent
    <2>. QED
      BY <2>1
  <1>5. ASSUME NEW b \in Booths, Directed(v, b), ~Closed(v)
        PROVE  Directed(v, b)'
    <2>1. driver[v] = "first" /\ mail[v] = <<Go(b)>> /\ reply[v] = <<>>
      BY <1>0, <1>1, <1>5, ReadingAt DEF Directed
    <2>2. Head(mail[v]) = Go(b) /\ Tail(mail[v]) = <<>> /\ mail[v] # <<>>
      BY <2>1, Messages, MessageTuples
    <2>3. told'[v] = b /\ driver'[v] = "reading" /\ mail'[v] = <<>>
      <3>1. Head(mail[v]).kind = "go" /\ Head(mail[v]).booth = b
        BY <2>2, MessageKinds
      <3>2. told'[v] = Head(mail[v]).booth /\ mail'[v] = Tail(mail[v]) /\ driver'[v] = "reading"
        BY <1>0, <2>1, <2>2, <3>1, ReadingAt
      <3>. QED
        BY <2>2, <3>1, <3>2
    <2>. QED
      BY <1>1, <2>1, <2>3 DEF Directed
  <1>6. ASSUME NEW b \in Booths, Asked(v, b), ~Closed(v)
        PROVE  Asked(v, b)'
    <2>1. \/ driver[v] = "first" /\ mail[v] = <<Go(b), AmountPlease>> /\ reply[v] = <<>>
          \/ told[v] = b /\ driver[v] = "reading" /\ mail[v] = <<AmountPlease>> /\ reply[v] = <<>>
      BY <1>0, <1>1, <1>6, ReadingAt DEF Asked
    <2>2. CASE driver[v] = "first"
      <3>1. Head(mail[v]) = Go(b) /\ Tail(mail[v]) = <<AmountPlease>> /\ mail[v] # <<>>
        <4>1. mail[v] = <<Go(b), AmountPlease>> /\ Go(b) \in Message /\ AmountPlease \in Message
          BY <2>1, <2>2, Messages
        <4>. QED
          BY <4>1, MessageTuples
      <3>2. told'[v] = b /\ driver'[v] = "reading" /\ mail'[v] = <<AmountPlease>>
        BY <1>0, <2>2, <3>1, ReadingAt, MessageKinds
      <3>. QED
        BY <1>1, <2>1, <2>2, <3>2 DEF Asked, AmountPlease
    <2>3. CASE driver[v] = "reading"
      <3>1. Head(mail[v]) = AmountPlease /\ Tail(mail[v]) = <<>> /\ mail[v] # <<>>
        BY <2>1, <2>3, Messages, MessageTuples
      <3>2. told'[v] = b /\ driver'[v] = "typing" /\ mail'[v] = <<>>
        BY <1>0, <2>1, <2>3, <3>1, ReadingAt, MessageKinds
      <3>. QED
        BY <1>1, <2>1, <2>3, <3>2 DEF Asked
    <2>. QED
      BY <1>1, <2>2, <2>3
  <1>7. ASSUME NEW b \in Booths, Paid(v, b), v \in took[b]
        PROVE  Paid(v, b)' /\ (mail[v] = <<>> => mail'[v] = <<>>)
    <2>1. told[v] = b /\ reply[v] = <<>> /\ driver[v] = "reading"
          /\ (mail[v] = <<>> \/ mail[v] = <<Exit>>)
      BY <1>1, <1>7 DEF Paid, Exit
    <2>2. CASE mail[v] = <<>>
      <3>1. driver'[v] = "typing" /\ mail'[v] = <<>> /\ told'[v] = b /\ Closed(v)
        BY <1>0, <2>1, <2>2, ReadingAt
      <3>2. booth[b] = "dead" /\ dispenser[via[v]] = "dead"
        BY <1>7, <3>1 DEF Closed
      <3>. QED
        BY <1>1, <2>1, <3>1, <3>2 DEF Paid
    <2>3. CASE mail[v] = <<Exit>>
      <3>1. Head(mail[v]) = Exit /\ Tail(mail[v]) = <<>> /\ mail[v] # <<>>
        BY <2>3, Messages, MessageTuples DEF Exit
      <3>2. driver'[v] = "done" /\ mail'[v] = <<>> /\ told'[v] = b
        BY <1>0, <2>1, <3>1, ReadingAt, MessageKinds
      <3>. QED
        BY <1>1, <2>1, <3>2 DEF Paid
    <2>. QED
      BY <2>1, <2>2, <2>3
  <1>8. \A b \in Booths, d \in Dispensers : InLane(b, d, v)' /\ booth'[b] # "dead" => Directed(v, b)'
    <2>. SUFFICES ASSUME NEW b \in Booths, NEW d \in Dispensers, InLane(b, d, v)', booth'[b] # "dead"
                  PROVE  Directed(v, b)'
      OBVIOUS
    <2>1. InLane(b, d, v) /\ booth[b] # "dead"
      BY <1>1 DEF InLane
    <2>2. Directed(v, b) /\ ~Closed(v)
      BY <1>0, <2>1, OpenConnection DEF Talk
    <2>. QED
      BY <1>5, <2>2
  <1>9. \A b \in Booths : v \in took'[b] /\ v \notin billed'[b] =>
          /\ v = atBooth'[b]
          /\ \/ booth'[b] = "asking" /\ Directed(v, b)'
             \/ booth'[b] = "reading" /\ Asked(v, b)'
             \/ booth'[b] = "dead"
    <2>. SUFFICES ASSUME NEW b \in Booths, v \in took[b], v \notin billed[b]
                  PROVE  /\ v = atBooth[b]
                         /\ \/ booth[b] = "asking" /\ Directed(v, b)'
                            \/ booth[b] = "reading" /\ Asked(v, b)'
                            \/ booth[b] = "dead"
      BY <1>1
    <2>1. CASE booth[b] = "dead"
      BY <1>0, <2>1 DEF Talk
    <2>2. CASE booth[b] # "dead"
      <3>1. ~Closed(v)
        BY <1>0, <2>2, OpenConnection
      <3>. QED
        BY <1>0, <1>5, <1>6, <2>2, <3>1 DEF Talk
    <2>. QED
      BY <2>1, <2>2
  <1>10. \A b \in Booths : v \in billed'[b] =>
          /\ v \in took'[b] /\ Paid(v, b)'
          /\ booth'[b] = "closing" /\ v = atBooth'[b] => mail'[v] = <<>>
    BY <1>0, <1>1, <1>7 DEF Talk
  <1>11. \A d \in Dispensers : OnRoad(d, v)' = OnRoad(d, v)
    BY <1>1 DEF OnRoad
  <1>. QED
    BY <1>1, <1>2, <1>3, <1>4, <1>8, <1>9, <1>10, <1>11 DEF Talk

-----------------------------------------------------------------------------
(* Sums over finite sets.  SumFunctionOnSet is a recursive function on the    *)
(* subsets of a set; what it returns is proved by induction on cardinality,   *)
(* which rests on the least element of a set of naturals (WFMin).             *)

LEMMA LeastNat ==
  ASSUME NEW T, T \subseteq Nat, T # {}
  PROVE  \E m \in T : \A k \in T : ~(k < m)
  <1> DEFINE R == {ss \in Nat \X Nat : ss[1] < ss[2]}
  <1>1. IsWellFoundedOn(R, Nat)
    BY NatLessThanWellFounded DEF OpToRel
  <1>2. \E m \in T : \A k \in T : ~(<<k, m>> \in R)
    <2>. HIDE DEF R
    <2>. QED BY <1>1, WFMin
  <1>. QED
    BY <1>2

LEMMA SetInduction ==
  ASSUME NEW T, 0 \in T, \A n \in Nat : n \in T => n + 1 \in T
  PROVE  Nat \subseteq T
  <1> DEFINE U == {n \in Nat : n \notin T}
  <1> SUFFICES ASSUME U # {} PROVE FALSE
    OBVIOUS
  <1>1. PICK m \in U : \A k \in U : ~(k < m)
    <2>. U \subseteq Nat OBVIOUS
    <2>. HIDE DEF U
    <2>. QED BY LeastNat
  <1>2. m # 0 /\ m \in Nat OBVIOUS
  <1>3. m - 1 \in Nat /\ m - 1 < m BY <1>2
  <1>4. m - 1 \in T BY <1>1, <1>3
  <1>. QED BY <1>1, <1>2, <1>3, <1>4
  Folding(g, f, S) ==
      g = [s \in SUBSET S |-> IF s = {} THEN 0
                              ELSE f[CHOOSE x \in s : TRUE] + g[s \ {CHOOSE x \in s : TRUE}]]

  SumOf(f, S) == (CHOOSE g : Folding(g, f, S))[S]

LEMMA Unfold ==
  ASSUME NEW f, NEW S
  PROVE  SumFunctionOnSet(f, S) = SumOf(f, S)
  BY DEF SumFunctionOnSet, FoldFunctionOnSet, MapThenFoldSet, SumOf, Folding

LEMMA FoldingAgrees ==
  ASSUME NEW f, NEW S, NEW T, NEW g, NEW h, Folding(g, f, S), Folding(h, f, T)
  PROVE  \A s \in SUBSET (S \cap T) : IsFiniteSet(s) => g[s] = h[s]
  <1> DEFINE P == {n \in Nat : \A s \in SUBSET (S \cap T) : IsFiniteSet(s) /\ Cardinality(s) = n => g[s] = h[s]}
  <1>1. 0 \in P
    BY FS_EmptySet DEF Folding
  <1>2. ASSUME NEW n \in Nat, n \in P PROVE n + 1 \in P
    <2> SUFFICES ASSUME NEW s \in SUBSET (S \cap T), IsFiniteSet(s), Cardinality(s) = n + 1
                 PROVE  g[s] = h[s]
      OBVIOUS
    <2>. PICK c : c = CHOOSE x \in s : TRUE
      OBVIOUS
    <2>1. s # {} 
      BY FS_EmptySet
    <2>2. c \in s
      BY <2>1
    <2>3. s \ {c} \in SUBSET (S \cap T) /\ IsFiniteSet(s \ {c}) /\ Cardinality(s \ {c}) = n
      <3>1. IsFiniteSet(s \ {c}) /\ Cardinality(s \ {c}) = Cardinality(s) - 1
        BY <2>2, FS_RemoveElement
      <3>. QED
        BY <3>1
    <2>4. g[s \ {c}] = h[s \ {c}]
      BY <1>2, <2>3
    <2>5. g[s] = f[c] + g[s \ {c}]
      BY <2>1 DEF Folding
    <2>6. h[s] = f[c] + h[s \ {c}]
      BY <2>1 DEF Folding
    <2>. QED
      BY <2>4, <2>5, <2>6
  <1>3. Nat \subseteq P
    <2>. HIDE DEF P
    <2>. QED
      BY <1>1, <1>2, SetInduction
  <1>. QED
    BY <1>3, FS_CardinalityType

LEMMA FoldingExists ==
  ASSUME NEW f, NEW U, IsFiniteSet(U)
  PROVE  \E g : Folding(g, f, U)
  <1> DEFINE P == {n \in Nat : \A S : IsFiniteSet(S) /\ Cardinality(S) <= n => \E g : Folding(g, f, S)}
  <1>1. 0 \in P
    <2> SUFFICES ASSUME NEW S, IsFiniteSet(S), Cardinality(S) <= 0 PROVE \E g : Folding(g, f, S)
      OBVIOUS
    <2>1. S = {}
      BY FS_EmptySet, FS_CardinalityType
    <2> DEFINE g == [s \in SUBSET S |-> 0]
    <2>2. Folding(g, f, S)
      BY <2>1 DEF Folding
    <2>. QED
      BY <2>2
  <1>2. ASSUME NEW n \in Nat, n \in P PROVE n + 1 \in P
    <2> SUFFICES ASSUME NEW S, IsFiniteSet(S), Cardinality(S) <= n + 1
                 PROVE  \E g : Folding(g, f, S)
      OBVIOUS
    <2>. PICK c : c = CHOOSE x \in S : TRUE
      OBVIOUS
    <2>1. \A s : s \subseteq S /\ s # S => IsFiniteSet(s) /\ \E g : Folding(g, f, s)
      <3> SUFFICES ASSUME NEW s, s \subseteq S, s # S PROVE IsFiniteSet(s) /\ \E g : Folding(g, f, s)
        OBVIOUS
      <3>1. IsFiniteSet(s) /\ Cardinality(s) < Cardinality(S)
        <4>1. /\ IsFiniteSet(s) /\ Cardinality(s) <= Cardinality(S)
              /\ Cardinality(S) = Cardinality(s) => S = s
          BY FS_Subset
        <4>2. Cardinality(S) \in Nat /\ Cardinality(s) \in Nat
          BY <4>1, FS_CardinalityType
        <4>. QED
          BY <4>1, <4>2
      <3>2. Cardinality(s) <= n
        BY <3>1, FS_CardinalityType
      <3>. QED
        BY <1>2, <3>1, <3>2
    <2> DEFINE g == [s \in SUBSET S |-> IF s = S THEN IF S = {} THEN 0 ELSE f[c] + SumOf(f, S \ {c})
                                        ELSE SumOf(f, s)]
    <2>2. ASSUME NEW s \in SUBSET S
          PROVE  g[s] = IF s = {} THEN 0
                        ELSE f[CHOOSE x \in s : TRUE] + g[s \ {CHOOSE x \in s : TRUE}]
      <3>1. CASE s = S
        <4>1. S # {} => S \ {c} # S
          OBVIOUS
        <4>. QED
          BY <3>1, <4>1
      <3>2. CASE s # S
        <4>. PICK d : d = CHOOSE x \in s : TRUE
          OBVIOUS
        <4>1. PICK h : Folding(h, f, s) /\ SumOf(f, s) = h[s]
          BY <2>1, <3>2 DEF SumOf
        <4>2. g[s] = h[s]
          BY <3>2, <4>1
        <4>3. CASE s = {}
          BY <4>1, <4>2, <4>3 DEF Folding
        <4>4. CASE s # {}
          <5>1. d \in s /\ s \ {d} \subseteq S /\ s \ {d} # S /\ IsFiniteSet(s \ {d})
            <6>1. d \in s
              BY <4>4
            <6>. QED
              BY <2>1, <3>2, <6>1
          <5>2. PICK k : Folding(k, f, s \ {d}) /\ SumOf(f, s \ {d}) = k[s \ {d}]
            BY <2>1, <5>1 DEF SumOf
          <5>3. k[s \ {d}] = h[s \ {d}]
            BY <4>1, <5>1, <5>2, FoldingAgrees
          <5>4. h[s] = f[d] + h[s \ {d}]
            BY <4>1, <4>4 DEF Folding
          <5>5. g[s \ {d}] = SumOf(f, s \ {d})
            BY <5>1
          <5>. HIDE DEF g
          <5>. QED
            BY <4>2, <4>4, <5>2, <5>3, <5>4, <5>5
        <4>. QED
          BY <4>3, <4>4
      <3>. QED
        BY <3>1, <3>2
    <2>3. g = [s \in SUBSET S |-> g[s]]
      OBVIOUS
    <2>. HIDE DEF g
    <2>4. Folding(g, f, S)
      BY <2>2, <2>3 DEF Folding
    <2>. QED
      BY <2>4
  <1>3. Nat \subseteq P
    <2>. HIDE DEF P
    <2>. QED
      BY <1>1, <1>2, SetInduction
  <1>. QED
    BY <1>3, FS_CardinalityType

LEMMA SumChosen ==
  ASSUME NEW f, NEW S, IsFiniteSet(S), S # {}
  PROVE  SumOf(f, S) = f[CHOOSE x \in S : TRUE] + SumOf(f, S \ {CHOOSE x \in S : TRUE})
  <1>. PICK c : c = CHOOSE x \in S : TRUE
    OBVIOUS
  <1>1. c \in S /\ IsFiniteSet(S \ {c}) /\ S \ {c} \in SUBSET (S \cap (S \ {c}))
    BY FS_RemoveElement
  <1>2. PICK g : Folding(g, f, S) /\ SumOf(f, S) = g[S]
    BY FoldingExists DEF SumOf
  <1>3. PICK h : Folding(h, f, S \ {c}) /\ SumOf(f, S \ {c}) = h[S \ {c}]
    BY <1>1, FoldingExists DEF SumOf
  <1>4. g[S \ {c}] = h[S \ {c}]
    BY <1>1, <1>2, <1>3, FoldingAgrees
  <1>5. g[S] = f[c] + g[S \ {c}]
    BY <1>2 DEF Folding
  <1>. QED
    BY <1>2, <1>3, <1>4, <1>5

LEMMA SumEmpty == ASSUME NEW f PROVE SumOf(f, {}) = 0
  <1>1. PICK g : Folding(g, f, {}) /\ SumOf(f, {}) = g[{}]
    BY FoldingExists, FS_EmptySet DEF SumOf
  <1>. QED
    BY <1>1 DEF Folding

LEMMA SumType ==
  ASSUME NEW V, NEW f \in [V -> Int], NEW U \in SUBSET V, IsFiniteSet(U)
  PROVE  /\ SumOf(f, U) \in Int
         /\ \A x \in U : SumOf(f, U) = f[x] + SumOf(f, U \ {x})
  <1> DEFINE P == {n \in Nat : \A S \in SUBSET V : IsFiniteSet(S) /\ Cardinality(S) <= n =>
                     /\ SumOf(f, S) \in Int
                     /\ \A x \in S : SumOf(f, S) = f[x] + SumOf(f, S \ {x})}
  <1>1. 0 \in P
    <2> SUFFICES ASSUME NEW S \in SUBSET V, IsFiniteSet(S), Cardinality(S) <= 0 PROVE SumOf(f, S) \in Int /\ S = {}
      OBVIOUS
    <2>1. S = {}
      BY FS_EmptySet, FS_CardinalityType
    <2>. QED
      BY <2>1, SumEmpty
  <1>2. ASSUME NEW n \in Nat, n \in P PROVE n + 1 \in P
    <2> SUFFICES ASSUME NEW S \in SUBSET V, IsFiniteSet(S), Cardinality(S) <= n + 1
                 PROVE  /\ SumOf(f, S) \in Int
                        /\ \A x \in S : SumOf(f, S) = f[x] + SumOf(f, S \ {x})
      OBVIOUS
    <2>. PICK c : c = CHOOSE x \in S : TRUE
      OBVIOUS
    <2>0. \A x \in S : S \ {x} \in SUBSET V /\ IsFiniteSet(S \ {x}) /\ Cardinality(S \ {x}) <= n
      <3> SUFFICES ASSUME NEW x \in S PROVE IsFiniteSet(S \ {x}) /\ Cardinality(S \ {x}) <= n
        OBVIOUS
      <3>1. IsFiniteSet(S \ {x}) /\ Cardinality(S \ {x}) = Cardinality(S) - 1
        BY FS_RemoveElement
      <3>2. Cardinality(S) \in Nat
        BY FS_CardinalityType
      <3>. QED
        BY <3>1, <3>2
    <2>1. CASE S = {}
      BY <2>1, SumEmpty
    <2>2. CASE S # {}
      <3>1. c \in S /\ SumOf(f, S) = f[c] + SumOf(f, S \ {c})
        BY <2>2, SumChosen
      <3>2. \A x \in S : SumOf(f, S \ {x}) \in Int
        BY <1>2, <2>0
      <3>3. SumOf(f, S) \in Int
        <4>1. f[c] \in Int /\ SumOf(f, S \ {c}) \in Int
          BY <3>1, <3>2
        <4>. QED
          BY <3>1, <4>1
      <3>4. ASSUME NEW x \in S PROVE SumOf(f, S) = f[x] + SumOf(f, S \ {x})
        <4>1. CASE x = c
          BY <3>1, <4>1
        <4>2. CASE x # c
          <5>1. SumOf(f, S \ {c}) = f[x] + SumOf(f, (S \ {c}) \ {x})
            BY <1>2, <2>0, <3>1, <4>2
          <5>2. SumOf(f, S \ {x}) = f[c] + SumOf(f, (S \ {x}) \ {c})
            BY <1>2, <2>0, <3>1, <4>2
          <5>3. (S \ {c}) \ {x} = (S \ {x}) \ {c}
            OBVIOUS
          <5>4. SumOf(f, (S \ {x}) \ {c}) \in Int
            <6>1. (S \ {x}) \ {c} \in SUBSET V /\ IsFiniteSet((S \ {x}) \ {c}) /\ Cardinality((S \ {x}) \ {c}) <= n
              <7>1. /\ IsFiniteSet(S \ {x}) /\ Cardinality(S \ {x}) <= n
                    /\ S \ {x} \in SUBSET V
                BY <2>0
              <7>2. (S \ {x}) \ {c} \in SUBSET (S \ {x})
                OBVIOUS
              <7>3. IsFiniteSet((S \ {x}) \ {c}) /\ Cardinality((S \ {x}) \ {c}) <= Cardinality(S \ {x})
                BY <7>1, <7>2, FS_Subset
              <7>4. Cardinality(S \ {x}) \in Nat /\ Cardinality((S \ {x}) \ {c}) \in Nat
                BY <7>1, <7>3, FS_CardinalityType
              <7>. QED
                BY <7>1, <7>3, <7>4
            <6>. QED
              BY <1>2, <6>1
          <5>5. f[x] \in Int /\ f[c] \in Int
            BY <3>1
          <5>6. SumOf(f, S) = f[c] + (f[x] + SumOf(f, (S \ {x}) \ {c}))
            BY <3>1, <5>1, <5>3
          <5> DEFINE u == SumOf(f, (S \ {x}) \ {c})
          <5>. HIDE DEF u
          <5>7. f[c] + (f[x] + u) = f[x] + (f[c] + u)
            BY <5>4, <5>5 DEF u
          <5>. QED
            BY <5>2, <5>6, <5>7 DEF u
        <4>. QED
          BY <4>1, <4>2
      <3>. QED
        BY <3>3, <3>4
    <2>. QED
      BY <2>1, <2>2
  <1>3. Nat \subseteq P
    <2>. HIDE DEF P
    <2>. QED
      BY <1>1, <1>2, SetInduction
  <1>4. Cardinality(U) \in P
    BY <1>3, FS_CardinalityType
  <1>5. Cardinality(U) <= Cardinality(U)
    BY FS_CardinalityType
  <1>. QED
    BY <1>4, <1>5

LEMMA SumCongruence ==
  ASSUME NEW f, NEW h, NEW U, IsFiniteSet(U), \A x \in U : f[x] = h[x]
  PROVE  SumOf(f, U) = SumOf(h, U)
  <1>1. PICK g : Folding(g, f, U) /\ SumOf(f, U) = g[U]
    BY FoldingExists DEF SumOf
  <1>2. PICK k : Folding(k, h, U) /\ SumOf(h, U) = k[U]
    BY FoldingExists DEF SumOf
  <1>3. Folding(g, h, U)
    <2>1. ASSUME NEW s \in SUBSET U
          PROVE  (IF s = {} THEN 0 ELSE f[CHOOSE x \in s : TRUE] + g[s \ {CHOOSE x \in s : TRUE}])
                   = IF s = {} THEN 0 ELSE h[CHOOSE x \in s : TRUE] + g[s \ {CHOOSE x \in s : TRUE}]
      <3>. PICK c : c = CHOOSE x \in s : TRUE
        OBVIOUS
      <3>1. s # {} => c \in U
        OBVIOUS
      <3>. QED
        BY <3>1
    <2>. QED
      BY <1>1, <2>1 DEF Folding
  <1>4. U \in SUBSET (U \cap U)
    OBVIOUS
  <1>5. g[U] = k[U]
    BY <1>2, <1>3, <1>4, FoldingAgrees
  <1>. QED
    BY <1>1, <1>2, <1>5

-----------------------------------------------------------------------------
(* The totals *)

LEMMA TypingAt ==
  ASSUME TollTypeOK, NEW v \in Vehicles, NEW amount \in Amounts, DriverTypes(v, amount)
  PROVE  /\ driver[v] = "typing" /\ amount \in Int
         /\ \/ /\ ~Closed(v) /\ driver'[v] = "reading" /\ reply'[v] = Append(reply[v], amount)
               /\ typed'[v] = amount /\ \A u \in Vehicles : u # v => typed'[u] = typed[u]
            \/ Closed(v) /\ driver'[v] \in {"reading", "lost"} /\ UNCHANGED <<reply, typed>>
  <1>1. CASE ~Closed(v)
    BY <1>1, TollAssumption DEF DriverTypes, TollTypeOK
  <1>2. CASE Closed(v)
    BY <1>2, TollAssumption DEF DriverTypes, TollTypeOK
  <1>. QED
    BY <1>1, <1>2

\* A vehicle that has been billed is asked nothing any more.
LEMMA BilledIsClosed ==
  ASSUME NEW v \in Vehicles, Placed(v), Talk(v), NEW b \in Booths, v \in billed[b], driver[v] = "typing"
  PROVE  Closed(v)
  <1>1. v \in took[b] /\ booth[b] = "dead" /\ dispenser[via[v]] = "dead"
    BY DEF Talk, Paid
  <1>2. /\ \A c \in Booths : v \in took[c] => c = b
        /\ \A c \in Booths, d \in Dispensers : ~InLane(c, d, v)
    BY <1>1, PlacesOfPassed
  <1>. QED
    BY <1>1, <1>2 DEF Closed, InLane

LEMMA TalkTypes ==
  ASSUME Known, NEW v \in Vehicles, Placed(v)', NEW amount \in Amounts, DriverTypes(v, amount)
  PROVE  Talk(v)'
  <1>0. Placed(v) /\ Talk(v) /\ TollTypeOK
    BY DEF Known
  <1>1. /\ UNCHANGED <<dispenser, serving, road, booth, atBooth, took, billed, lane, via, told, mail>>
        /\ driver[v] = "typing"
    BY DEF DriverTypes, dispenserVars, boothVars
  <1>2. /\ driver'[v] # "home" /\ via'[v] \in Dispensers
        /\ \A d \in Dispensers : serving'[d] # v
        /\ \A d \in Dispensers : ~(OnRoad(d, v) /\ dispenser[d] # "dead")
        /\ \A b \in Booths, d \in Dispensers : ~(InLane(b, d, v) /\ booth[b] # "dead")
    BY <1>0, <1>1, TypingAt DEF Talk, Silent, Directed
  <1>3. /\ \A d \in Dispensers : OnRoad(d, v)' = OnRoad(d, v)
        /\ \A b \in Booths, d \in Dispensers : InLane(b, d, v)' = InLane(b, d, v)
    BY <1>1 DEF OnRoad, InLane
  <1>4. ASSUME NEW b \in Booths, v \in took[b], v \notin billed[b]
        PROVE  v = atBooth[b] /\ (booth[b] = "dead" \/ (booth[b] = "reading" /\ Asked(v, b)'))
    <2>1. CASE booth[b] = "dead"
      BY <1>0, <1>4, <2>1 DEF Talk
    <2>2. CASE booth[b] # "dead"
      <3>1. v = atBooth[b] /\ booth[b] = "reading" /\ Asked(v, b)
        BY <1>0, <1>1, <1>4, <2>2 DEF Talk, Directed
      <3>2. told[v] = b /\ mail[v] = <<>> /\ reply[v] = <<>>
        BY <1>1, <3>1 DEF Asked
      <3>3. ~Closed(v)
        BY <1>0, <1>4, <2>2, OpenConnection
      <3>4. driver'[v] = "reading" /\ reply'[v] = Append(reply[v], amount) /\ typed'[v] = amount
        BY <1>0, <3>3, TypingAt
      <3>5. reply'[v] = <<amount>>
        BY <3>2, <3>4
      <3>. QED
        BY <1>1, <3>1, <3>2, <3>4, <3>5 DEF Asked
    <2>. QED
      BY <2>1, <2>2
  <1>5. ASSUME NEW b \in Booths, v \in billed[b]
        PROVE  v \in took[b] /\ Paid(v, b)' /\ (booth[b] = "closing" /\ v = atBooth[b] => mail[v] = <<>>)
    <2>1. driver'[v] \in {"reading", "lost"} /\ reply' = reply
      BY <1>0, <1>1, <1>5, BilledIsClosed, TypingAt
    <2>2. v \in took[b] /\ Paid(v, b) /\ (booth[b] = "closing" /\ v = atBooth[b] => mail[v] = <<>>)
      BY <1>0, <1>5 DEF Talk
    <2>. QED
      BY <1>1, <2>1, <2>2 DEF Paid
  <1>. QED
    BY <1>1, <1>2, <1>3, <1>4, <1>5 DEF Talk

LEMMA TalkLeaves ==
  ASSUME Known, NEW v \in Vehicles, Leaves(v)
  PROVE  Talk(v)'
  <1>0. Placed(v) /\ Talk(v) /\ TollTypeOK
    BY DEF Known
  <1>1. /\ UNCHANGED <<dispenser, serving, road, booth, atBooth, took, billed, lane, via, told, typed, reply>>
        /\ driver[v] \in {"first", "reading", "typing"} /\ driver'[v] = "left" /\ mail'[v] = <<>>
    BY <1>0 DEF Leaves, dispenserVars, boothVars, TollTypeOK
  <1>2. Silent(v) => Silent(v)'
    BY <1>1 DEF Silent
  <1>3. \A b \in Booths : Directed(v, b) => Directed(v, b)'
    BY <1>1 DEF Directed
  <1>4. \A b \in Booths : Asked(v, b) => Asked(v, b)'
    BY <1>1 DEF Asked
  <1>5. \A b \in Booths : Paid(v, b) => Paid(v, b)'
    BY <1>1 DEF Paid
  <1>6. via'[v] \in Dispensers
    BY <1>0, <1>1 DEF Talk
  <1>7. /\ \A d \in Dispensers : OnRoad(d, v)' = OnRoad(d, v)
        /\ \A b \in Booths, d \in Dispensers : InLane(b, d, v)' = InLane(b, d, v)
    BY <1>1 DEF OnRoad, InLane
  <1>. QED
    BY <1>0, <1>1, <1>2, <1>3, <1>4, <1>5, <1>6, <1>7 DEF Talk

LEMMA TalkVehicle ==
  ASSUME Known, NEW v \in Vehicles, Placed(v)', NEW u \in Vehicles, Vehicle(u)
  PROVE  Talk(v)'
  <1>1. CASE u = v
    BY <1>1, TalkArrives, TalkReads, TalkTypes, TalkLeaves DEF Vehicle
  <1>. QED
    BY <1>1, TalkOfOthers

LEMMA AtBoothStep ==
  ASSUME Known, TollNext, NEW b \in Booths, AtBooth(b)
  PROVE  AtBooth(b)'
  <1>0. TollTypeOK
    BY DEF Known
  <1>1. CASE UNCHANGED <<booth, atBooth, took, billed>>
    BY <1>1 DEF AtBooth
  <1>2. ASSUME NEW c \in Booths, BoothStarts(c) \/ Booth(c)
        PROVE  AtBooth(b)'
    <2>1. CASE BoothTakes(c)
      <3>1. PICK d \in Dispensers :
             /\ lane[c][d] # <<>>
             /\ atBooth' = [atBooth EXCEPT ![c] = Head(lane[c][d])]
             /\ took' = [took EXCEPT ![c] = @ \cup {Head(lane[c][d])}]
        BY <2>1 DEF BoothTakes
      <3>. PICK u : u = Head(lane[c][d])
        OBVIOUS
      <3>2. lane[c][d] \in Seq(Vehicles)
        BY <1>0 DEF TollTypeOK
      <3>3. u \in Vehicles /\ InLane(c, d, u)
        BY <3>1, <3>2, SeqTypes, TailAt DEF InLane
      <3>4. u \notin billed[c]
        <4>1. Placed(u) /\ Talk(u)
          BY <3>3 DEF Known
        <4>. QED
          BY <3>3, <4>1, PlacesOfPassed DEF Talk
      <3>5. billed' = billed /\ booth' = [booth EXCEPT ![c] = "asking"]
        BY <2>1 DEF BoothTakes
      <3>6. CASE b = c
        <4>1. atBooth'[b] = u /\ u \in took'[b] /\ booth'[b] = "asking"
          BY <1>0, <3>1, <3>5, <3>6 DEF TollTypeOK
        <4>. QED
          BY <3>4, <3>5, <3>6, <4>1 DEF AtBooth
      <3>7. CASE b # c
        <4>1. atBooth'[b] = atBooth[b] /\ took'[b] = took[b] /\ booth'[b] = booth[b]
          BY <1>0, <3>1, <3>5, <3>7 DEF TollTypeOK
        <4>. QED
          BY <3>5, <4>1 DEF AtBooth
      <3>. QED
        BY <3>6, <3>7
    <2>2. CASE BoothReads(c)
      <3>. PICK u : u = atBooth[c]
        OBVIOUS
      <3>. PICK amount : amount = IF reply[u] = <<>> THEN 0 ELSE Head(reply[u])
        OBVIOUS
      <3>1. /\ UNCHANGED <<atBooth, took>> /\ booth[c] = "reading"
            /\ billed' = [billed EXCEPT ![c] = IF amount = 0 THEN @ ELSE @ \cup {u}]
            /\ booth' = [booth EXCEPT ![c] = IF amount = 0 THEN "asking" ELSE "closing"]
        BY <2>2 DEF BoothReads
      <3>2. CASE b = c
        <4>1. /\ billed'[b] = IF amount = 0 THEN billed[b] ELSE billed[b] \cup {u}
              /\ booth'[b] = IF amount = 0 THEN "asking" ELSE "closing"
          BY <1>0, <3>1, <3>2 DEF TollTypeOK
        <4>2. IsFiniteSet(billed'[b])
          BY <4>1, FS_AddElement DEF AtBooth
        <4>3. CASE amount = 0
          BY <3>1, <3>2, <4>1, <4>2, <4>3 DEF AtBooth
        <4>4. CASE amount # 0
          BY <3>1, <3>2, <4>1, <4>2, <4>4 DEF AtBooth
        <4>. QED
          BY <4>3, <4>4
      <3>3. CASE b # c
        <4>1. billed'[b] = billed[b] /\ booth'[b] = booth[b]
          BY <1>0, <3>1, <3>3 DEF TollTypeOK
        <4>. QED
          BY <3>1, <4>1 DEF AtBooth
      <3>. QED
        BY <3>2, <3>3
    <2>3. CASE BoothAsks(c)
      <3>1. UNCHANGED <<atBooth, took, billed>> /\ booth[c] = "asking"
            /\ \E s \in {"reading", "dead"} : booth' = [booth EXCEPT ![c] = s]
        BY <2>3 DEF BoothAsks, BoothWrites
      <3>. QED
        BY <1>0, <3>1 DEF AtBooth, TollTypeOK
    <2>4. CASE BoothCloses(c)
      <3>1. UNCHANGED <<atBooth, took, billed>>
            /\ \E s \in {"idle", "dead"} : booth' = [booth EXCEPT ![c] = s]
        BY <2>4 DEF BoothCloses, BoothWrites
      <3>. QED
        BY <1>0, <3>1 DEF AtBooth, TollTypeOK
    <2>5. CASE BoothStarts(c) \/ BoothOpens(c) \/ BoothSticks(c)
      <3>1. UNCHANGED <<atBooth, took, billed>>
            /\ \E s \in {"opening", "idle", "stuck"} : booth' = [booth EXCEPT ![c] = s]
        BY <2>5 DEF BoothStarts, BoothOpens, BoothSticks
      <3>. QED
        BY <1>0, <3>1 DEF AtBooth, TollTypeOK
    <2>. QED
      BY <1>2, <2>1, <2>2, <2>3, <2>4, <2>5 DEF Booth
  <1>3. ASSUME NEW d \in Dispensers, Dispenser(d)
        PROVE  UNCHANGED <<booth, atBooth, took, billed>>
    BY <1>3 DEF Dispenser, DispenserStarts, DispenserTakes, DispenserSends, boothVars
  <1>4. ASSUME NEW u \in Vehicles, Vehicle(u)
        PROVE  UNCHANGED <<booth, atBooth, took, billed>>
    BY <1>4 DEF Vehicle, Arrives, DriverReads, DriverTypes, Leaves, boothVars
  <1>. QED
    BY <1>1, <1>2, <1>3, <1>4 DEF TollNext

\* TotalsAddUp with the sum of SumOf.
Totals ==
    \A b \in Booths : total[b] = SumOf(typed, billed[b]) /\ \A v \in billed[b] : told[v] = b

LEMMA TotalsUnfold == Totals <=> TotalsAddUp
  BY Unfold DEF Totals, TotalsAddUp

LEMMA TotalsUnfoldNext == Totals' <=> TotalsAddUp'
  BY Unfold DEF Totals, TotalsAddUp

LEMMA TotalsStep ==
  ASSUME Known, TollNext, \A b \in Booths : AtBooth(b), Totals
  PROVE  Totals'
  <1>0. TollTypeOK
    BY DEF Known
  <1>1. CASE UNCHANGED <<total, billed, typed, told>>
    BY <1>1 DEF Totals
  <1>2. ASSUME NEW u \in Vehicles, DriverReads(u)
        PROVE  Totals'
    <2>1. UNCHANGED <<total, billed, typed>> /\ \A v \in Vehicles : v # u => told'[v] = told[v]
      BY <1>0, <1>2 DEF DriverReads, boothVars, TollTypeOK
    <2>2. ASSUME NEW b \in Booths, u \in billed[b] PROVE told'[u] = told[u]
      <3>1. Placed(u) /\ Talk(u)
        BY DEF Known
      <3>2. Paid(u, b)
        BY <2>2, <3>1 DEF Talk
      <3>3. driver[u] = "reading" /\ (mail[u] = <<>> \/ mail[u] = <<Exit>>)
        BY <1>0, <1>2, <3>2, ReadingAt DEF Paid, Exit
      <3>4. CASE mail[u] = <<>>
        BY <1>0, <1>2, <3>3, <3>4, ReadingAt
      <3>5. CASE mail[u] = <<Exit>>
        <4>1. Exit \in Message /\ Exit.kind # "go"
          BY Messages, MessageKinds DEF Exit
        <4>2. Head(mail[u]) = Exit /\ mail[u] # <<>>
          BY <3>5, <4>1, MessageTuples
        <4>. QED
          BY <1>0, <1>2, <4>1, <4>2, ReadingAt
      <3>. QED
        BY <3>3, <3>4, <3>5
    <2>3. \A b \in Booths : billed[b] \subseteq Vehicles
      BY <1>0 DEF TollTypeOK
    <2>. QED
      BY <2>1, <2>2, <2>3 DEF Totals
  <1>3. ASSUME NEW u \in Vehicles, NEW amount \in Amounts, DriverTypes(u, amount)
        PROVE  Totals'
    <2>1. UNCHANGED <<total, billed, told>>
      BY <1>3 DEF DriverTypes, boothVars
    <2>2. ASSUME NEW b \in Booths
          PROVE  \A v \in billed[b] : typed'[v] = typed[v]
      <3>1. u \in billed[b] => Closed(u)
        BY <1>0, <1>3, TypingAt, BilledIsClosed DEF Known
      <3>2. billed[b] \subseteq Vehicles
        BY <1>0 DEF TollTypeOK
      <3>3. CASE Closed(u)
        BY <1>0, <1>3, <3>3, TypingAt
      <3>4. CASE ~Closed(u)
        BY <1>0, <1>3, <3>1, <3>2, <3>4, TypingAt
      <3>. QED
        BY <3>3, <3>4
    <2>3. \A b \in Booths : SumOf(typed', billed[b]) = SumOf(typed, billed[b])
      BY <2>2, SumCongruence DEF AtBooth
    <2>. QED
      BY <2>1, <2>3 DEF Totals
  <1>4. ASSUME NEW c \in Booths, BoothReads(c)
        PROVE  Totals'
    <2>. PICK u : u = atBooth[c]
      OBVIOUS
    <2>. PICK amount : amount = IF reply[u] = <<>> THEN 0 ELSE Head(reply[u])
      OBVIOUS
    <2>1. /\ UNCHANGED <<typed, told>> /\ booth[c] = "reading"
          /\ billed' = [billed EXCEPT ![c] = IF amount = 0 THEN @ ELSE @ \cup {u}]
          /\ total' = [total EXCEPT ![c] = @ + amount]
      BY <1>4 DEF BoothReads, vehicleVars
    <2>2. u \in took[c] /\ u \notin billed[c] /\ u \in Vehicles
      BY <1>0, <2>1 DEF AtBooth, TollTypeOK
    <2>3. Asked(u, c)
      <3>1. Talk(u)
        BY <2>2 DEF Known
      <3>. QED
        BY <2>1, <2>2, <3>1 DEF Talk
    <2>4. ASSUME NEW b \in Booths, b # c
          PROVE  total'[b] = total[b] /\ billed'[b] = billed[b]
      BY <1>0, <2>1, <2>4 DEF TollTypeOK
    <2>5. /\ total'[c] = total[c] + amount /\ total[c] \in Int
          /\ billed'[c] = IF amount = 0 THEN billed[c] ELSE billed[c] \cup {u}
      BY <1>0, <2>1 DEF TollTypeOK
    <2>6. CASE amount = 0
      <3>1. total'[c] = total[c] /\ billed'[c] = billed[c]
        BY <2>5, <2>6
      <3>. QED
        BY <2>1, <2>4, <3>1 DEF Totals
    <2>7. CASE amount # 0
      <3>1. told[u] = c /\ reply[u] = <<typed[u]>>
        BY <2>3, <2>7 DEF Asked
      <3>2. amount = typed[u]
        BY <2>7, <3>1
      <3>. PICK B : B = billed[c] \cup {u}
        OBVIOUS
      <3>3. typed \in [Vehicles -> Int] /\ B \in SUBSET Vehicles /\ IsFiniteSet(B) /\ B \ {u} = billed[c]
        <4>1. typed \in [Vehicles -> Int] /\ billed[c] \in SUBSET Vehicles /\ IsFiniteSet(billed[c])
          BY <1>0 DEF TollTypeOK, AtBooth
        <4>2. IsFiniteSet(B)
          BY <4>1, FS_AddElement
        <4>. QED
          BY <2>2, <4>1, <4>2
      <3>4. SumOf(typed, B) = typed[u] + SumOf(typed, B \ {u})
        BY <3>3, SumType
      <3>5. SumOf(typed, billed[c]) = total[c] /\ typed[u] \in Int
        BY <2>2, <3>3 DEF Totals
      <3>6. SumOf(typed, B) = total'[c] /\ billed'[c] = B
        <4>1. SumOf(typed, B) = typed[u] + total[c]
          BY <3>3, <3>4, <3>5
        <4>2. total'[c] = total[c] + typed[u] /\ billed'[c] = B
          BY <2>5, <2>7, <3>2
        <4>3. typed[u] + total[c] = total[c] + typed[u]
          BY <2>5, <3>5
        <4>. QED
          BY <4>1, <4>2, <4>3
      <3>7. \A v \in B : told[v] = c
        BY <3>1 DEF Totals
      <3>. QED
        BY <2>1, <2>4, <3>6, <3>7 DEF Totals
    <2>. QED
      BY <2>6, <2>7
  <1>5. ASSUME NEW d \in Dispensers, Dispenser(d)
        PROVE  UNCHANGED <<total, billed, typed, told>>
    BY <1>5 DEF Dispenser, DispenserStarts, DispenserTakes, DispenserSends, boothVars, vehicleVars
  <1>6. ASSUME NEW c \in Booths, BoothStarts(c) \/ Booth(c), ~BoothReads(c)
        PROVE  UNCHANGED <<total, billed, typed, told>>
    BY <1>6 DEF Booth, BoothStarts, BoothOpens, BoothTakes, BoothSticks, BoothAsks, BoothCloses, vehicleVars
  <1>7. ASSUME NEW u \in Vehicles, Vehicle(u), ~DriverReads(u),
               ~\E amount \in Amounts : DriverTypes(u, amount)
        PROVE  UNCHANGED <<total, billed, typed, told>>
    BY <1>7 DEF Vehicle, Arrives, Leaves, boothVars
  <1>. QED
    BY <1>1, <1>2, <1>3, <1>4, <1>5, <1>6, <1>7 DEF TollNext

LEMMA TollInitInv == TollInit => TollInv
  <1>. SUFFICES ASSUME TollInit PROVE TollInv
    OBVIOUS
  <1>1. TollTypeOK
    <2>1. 0 \in Int /\ <<>> \in Seq(Vehicles) /\ <<>> \in Seq(Message) /\ <<>> \in Seq(Int)
          /\ <<>> \in Seq(Dispensers \cup {Ghost})
      OBVIOUS
    <2>. QED
      BY <2>1 DEF TollInit, TollTypeOK
  <1>2. \A v \in Vehicles : Placed(v)
    BY TollAssumption DEF TollInit, Placed, Passed
  <1>3. \A v \in Vehicles : Conversation(v)
    BY TollAssumption DEF TollInit, Conversation
  <1>4. \A b \in Booths : AtBooth(b)
    BY FS_EmptySet DEF TollInit, AtBooth
  <1>5. TotalsAddUp
    <2>1. Totals
      BY SumEmpty DEF TollInit, Totals
    <2>. QED
      BY <2>1, TotalsUnfold
  <1>. QED
    BY <1>1, <1>2, <1>3, <1>4, <1>5 DEF TollInv

\* At every moment each vehicle's descriptor is in one place, the conversation
\* between a vehicle and its booth is at one of four points, and the booths'
\* totals are right; for any number of dispensers and vehicles, whoever leaves
\* or dies (main of D1.c, serve_vehicle of B1.c, main of V.c).
THEOREM TollInvariant == TollSpec => []TollInv
  <1>1. TollInv /\ TollNext => TollInv'
    <2>. SUFFICES ASSUME TollInv, TollNext PROVE TollInv'
      OBVIOUS
    <2>1. Known /\ (\A b \in Booths : AtBooth(b)) /\ Totals /\ TollTypeOK
      BY TalkIsConversation, TotalsUnfold DEF TollInv, Known
    <2>2. TollTypeOK'
      BY <2>1, TollTypeStep
    <2>3. \A v \in Vehicles : Placed(v)'
      BY <2>1, PlacedStep DEF Known
    <2>4. \A v \in Vehicles : Talk(v)'
      BY <2>1, <2>3, TalkDispenser, TalkBooth, TalkVehicle DEF TollNext
    <2>5. \A v \in Vehicles : Conversation(v)'
      BY <2>4, TalkIsConversationNext
    <2>6. \A b \in Booths : AtBooth(b)'
      BY <2>1, AtBoothStep
    <2>7. TotalsAddUp'
      BY <2>1, TotalsStep, TotalsUnfoldNext
    <2>. QED
      BY <2>2, <2>3, <2>5, <2>6, <2>7 DEF TollInv
  <1>2. TollInv /\ UNCHANGED tollVars => TollInv'
    <2>. SUFFICES ASSUME TollInv, UNCHANGED tollVars PROVE TollInv'
      OBVIOUS
    <2>1. TollTypeOK'
      BY TollTypeStep DEF TollInv
    <2>. USE DEF tollVars, dispenserVars, boothVars, vehicleVars
    <2>2. \A v \in Vehicles : Placed(v)'
      BY DEF TollInv, Placed, Passed
    <2>3. \A v \in Vehicles : Conversation(v)'
      BY DEF TollInv, Conversation, Silent, Directed, Asked, Paid
    <2>4. \A b \in Booths : AtBooth(b)'
      BY DEF TollInv, AtBooth
    <2>5. TotalsAddUp'
      BY DEF TollInv, TotalsAddUp
    <2>. QED
      BY <2>1, <2>2, <2>3, <2>4, <2>5 DEF TollInv
  <1>. QED
    BY <1>1, <1>2, TollInitInv, PTL DEF TollSpec

\* A booth's total is the sum of what the vehicles it billed typed, each once,
\* and each of them was told that booth (serve_vehicle of B1.c).
THEOREM TotalsAddUpAlways == TollSpec => []TotalsAddUp
  BY TollInvariant, PTL DEF TollInv
=============================================================================
