------------------------ MODULE ConversationsProofs -------------------------
(***************************************************************************)
(* Theorems about the chat server of 04-02-22-chat-sockets (Chat.tla), the  *)
(* popen server of 18-02-22-Assignment/q3 (PopenServer.tla) and inetd of     *)
(* 03-02-22-ISS-inetd-conf (Inetd.tla).                                      *)
(***************************************************************************)
EXTENDS Chat, PopenServer, Inetd, FiniteSetTheorems, SequenceTheorems, WellFoundedInduction, TLAPS

\* The types of what is done to a queue of records.
LEMMA QueueTypes ==
  ASSUME NEW S, NEW s \in Seq(S)
  PROVE  /\ Len(s) \in Nat /\ <<>> \in Seq(S)
         /\ s # <<>> => Head(s) \in S /\ Tail(s) \in Seq(S) /\ Len(Tail(s)) = Len(s) - 1
         /\ s # <<>> => Head(s) = s[1] /\ 1 \in 1..Len(s)
         /\ \A x \in S : Append(s, x) \in Seq(S) /\ Len(Append(s, x)) = Len(s) + 1
  OBVIOUS

LEMMA ItemType ==
  ASSUME NEW S, NEW s \in Seq(S), NEW n \in 1..Len(s)
  PROVE  s[n] \in S
  OBVIOUS

LEMMA TailItem ==
  ASSUME NEW S, NEW s \in Seq(S), s # <<>>, NEW n \in 1..Len(Tail(s))
  PROVE  n + 1 \in 1..Len(s) /\ Tail(s)[n] = s[n + 1]
  OBVIOUS

LEMMA AppendItem ==
  ASSUME NEW S, NEW s \in Seq(S), NEW x \in S
  PROVE  /\ \A n \in 1..Len(s) : n \in 1..Len(Append(s, x)) /\ Append(s, x)[n] = s[n]
         /\ Append(s, x)[Len(s) + 1] = x /\ Len(s) + 1 \in 1..Len(Append(s, x))
         /\ \A n \in 1..Len(Append(s, x)) : n \in 1..Len(s) \/ n = Len(s) + 1
  OBVIOUS

LEMMA Joined ==
  ASSUME NEW S, NEW s \in Seq(S), NEW t \in Seq(S)
  PROVE  /\ s \o t \in Seq(S) /\ Len(s \o t) = Len(s) + Len(t)
         /\ \A n \in 1..Len(s) : (s \o t)[n] = s[n]
         /\ \A n \in 1..Len(t) : (s \o t)[Len(s) + n] = t[n]
  OBVIOUS

\* Taking the next record over leaves the whole as it was.
LEMMA MovedOver ==
  ASSUME NEW S, NEW s \in Seq(S), NEW t \in Seq(S), t # <<>>
  PROVE  Append(s, Head(t)) \o Tail(t) = s \o t
  <1>1. Append(s, Head(t)) \in Seq(S) /\ Tail(t) \in Seq(S) /\ Head(t) \in S
    OBVIOUS
  <1>2. Append(s, Head(t)) \o Tail(t) \in Seq(S) /\ s \o t \in Seq(S)
    BY <1>1
  <1>3. Len(Append(s, Head(t)) \o Tail(t)) = Len(s \o t)
    BY <1>1
  <1>4. ASSUME NEW n \in 1..Len(s \o t)
        PROVE  (Append(s, Head(t)) \o Tail(t))[n] = (s \o t)[n]
    OBVIOUS
  <1>. QED
    BY <1>2, <1>3, <1>4, SeqEqual

\* A record sent to the end of what is on its way comes last of all.
LEMMA SentLast ==
  ASSUME NEW S, NEW s \in Seq(S), NEW t \in Seq(S), NEW x \in S
  PROVE  s \o Append(t, x) = Append(s \o t, x)
  <1>1. s \o Append(t, x) \in Seq(S) /\ Append(s \o t, x) \in Seq(S)
    OBVIOUS
  <1>2. Len(s \o Append(t, x)) = Len(Append(s \o t, x))
    OBVIOUS
  <1>3. ASSUME NEW n \in 1..Len(s \o Append(t, x))
        PROVE  (s \o Append(t, x))[n] = Append(s \o t, x)[n]
    OBVIOUS
  <1>. QED
    BY <1>1, <1>2, <1>3, SeqEqual

\* A sequence that is cut and put together behind another.
LEMMA SplitJoins ==
  ASSUME NEW S, NEW h \in Seq(S), NEW s \in Seq(S), NEW n \in 1..Len(s)
  PROVE  /\ (h \o SubSeq(s, 1, n)) \o SubSeq(s, n + 1, Len(s)) = h \o s
         /\ h \o SubSeq(s, 1, n) \in Seq(S) /\ SubSeq(s, n + 1, Len(s)) \in Seq(S)
         /\ Len(h \o SubSeq(s, 1, n)) = Len(h) + n /\ Len(h \o s) = Len(h) + Len(s)
         /\ Len(h) \in Nat
  <1>0. Len(h) \in Nat /\ Len(s) \in Nat /\ n \in Nat /\ n <= Len(s)
    OBVIOUS
  <1>4. PICK a \in Seq(S), b \in Seq(S) :
           /\ a = SubSeq(s, 1, n) /\ b = SubSeq(s, n + 1, Len(s))
           /\ Len(a) = n /\ Len(b) = Len(s) - n
           /\ \A k \in 1..n : a[k] = s[k]
           /\ \A k \in 1..(Len(s) - n) : b[k] = s[n + k]
    <2>1. /\ SubSeq(s, 1, n) \in Seq(S) /\ Len(SubSeq(s, 1, n)) = n
          /\ \A k \in 1..n : SubSeq(s, 1, n)[k] = s[k]
          /\ SubSeq(s, n + 1, Len(s)) \in Seq(S) /\ Len(SubSeq(s, n + 1, Len(s))) = Len(s) - n
          /\ \A k \in 1..(Len(s) - n) : SubSeq(s, n + 1, Len(s))[k] = s[n + k]
      OBVIOUS
    <2>. QED
      BY <2>1
  <1>1. /\ h \o a \in Seq(S) /\ Len(h \o a) = Len(h) + n
        /\ h \o s \in Seq(S) /\ Len(h \o s) = Len(h) + Len(s)
    BY <1>4, Joined
  <1>2. (h \o a) \o b \in Seq(S) /\ Len((h \o a) \o b) = Len(h) + Len(s)
    <2>1. (h \o a) \o b \in Seq(S) /\ Len((h \o a) \o b) = Len(h \o a) + Len(b)
      BY <1>1, Joined
    <2>. QED
      BY <1>0, <1>1, <1>4, <2>1
  <1>3. ASSUME NEW k \in 1..(Len(h) + Len(s)) PROVE ((h \o a) \o b)[k] = (h \o s)[k]
    <2>1. CASE k \in 1..Len(h)
      <3>1. (h \o a)[k] = h[k] /\ (h \o s)[k] = h[k] /\ k \in 1..Len(h \o a)
        BY <1>0, <1>1, <2>1
      <3>. QED
        BY <1>1, <3>1
    <2>2. CASE k \in (Len(h) + 1)..(Len(h) + n)
      <3>1. PICK m \in 1..n : k = Len(h) + m
        <4>1. k - Len(h) \in 1..n /\ k = Len(h) + (k - Len(h))
          BY <1>0, <2>2
        <4>. QED
          BY <4>1
      <3>2. (h \o a)[k] = s[m] /\ (h \o s)[k] = s[m] /\ k \in 1..Len(h \o a)
        BY <1>0, <1>1, <1>4, <3>1
      <3>. QED
        BY <1>1, <3>2
    <2>3. CASE k \in (Len(h) + n + 1)..(Len(h) + Len(s))
      <3>1. PICK m \in 1..(Len(s) - n) : k = Len(h) + n + m
        <4>1. k - (Len(h) + n) \in 1..(Len(s) - n) /\ k = Len(h) + n + (k - (Len(h) + n))
          BY <1>0, <2>3
        <4>. QED
          BY <4>1
      <3>2. (h \o s)[k] = s[n + m]
        BY <1>0, <3>1
      <3>3. ((h \o a) \o b)[k] = b[m]
        <4>1. \A l \in 1..Len(b) : ((h \o a) \o b)[Len(h \o a) + l] = b[l]
          BY <1>1, Joined
        <4>2. k = Len(h \o a) + m /\ m \in 1..Len(b)
          BY <1>1, <1>4, <3>1
        <4>. QED
          BY <4>1, <4>2
      <3>. QED
        BY <1>4, <3>2, <3>3
    <2>4. \/ k \in 1..Len(h) \/ k \in (Len(h) + 1)..(Len(h) + n)
          \/ k \in (Len(h) + n + 1)..(Len(h) + Len(s))
      BY <1>0
    <2>. QED
      BY <2>1, <2>2, <2>3, <2>4
  <1>. QED
    <2>1. (h \o a) \o b = h \o s
      BY <1>1, <1>2, <1>3, SeqEqual
    <2>. QED
      BY <1>0, <1>1, <1>4, <2>1

LEMMA LeastElement ==
  ASSUME NEW T, T \subseteq Nat, T # {}
  PROVE  \E m \in T : \A k \in T : m <= k
  <1> DEFINE R == {ss \in Nat \X Nat : ss[1] < ss[2]}
  <1>1. IsWellFoundedOn(R, Nat)
    BY NatLessThanWellFounded DEF OpToRel
  <1>2. \E m \in T : \A k \in T : ~(<<k, m>> \in R)
    <2>. HIDE DEF R
    <2>. QED BY <1>1, WFMin
  <1>3. \A k, m \in T : ~(<<k, m>> \in R) => m <= k
    OBVIOUS
  <1>. QED
    BY <1>2, <1>3

LEMMA MinChosen ==
  ASSUME NEW T, T \subseteq Nat, T # {}
  PROVE  Min(T) \in T
  BY LeastElement DEF Min

-----------------------------------------------------------------------------
(* The chat server: what a client is to hear *)

\* What others have said is finitely much, and each line has its number in it.
LEMMA OthersCount ==
  ASSUME NEW n \in Nat, NEW m \in Nat, NEW T, T \subseteq (m + 1)..n
  PROVE  /\ IsFiniteSet(T) /\ Cardinality(T) \in Nat
         /\ \A j \in T : /\ IsFiniteSet({k \in T : k <= j})
                         /\ Cardinality({k \in T : k <= j}) \in 1..Cardinality(T)
  <1>1. IsFiniteSet((m + 1)..n)
    BY FS_Interval
  <1>2. IsFiniteSet(T) /\ Cardinality(T) \in Nat
    BY <1>1, FS_Subset, FS_CardinalityType
  <1>3. ASSUME NEW j \in T
        PROVE  /\ IsFiniteSet({k \in T : k <= j})
               /\ Cardinality({k \in T : k <= j}) \in 1..Cardinality(T)
    <2> DEFINE U == {k \in T : k <= j}
    <2>1. U \subseteq T /\ j \in U
      OBVIOUS
    <2> HIDE DEF U
    <2>2. IsFiniteSet(U) /\ Cardinality(U) <= Cardinality(T) /\ Cardinality(U) \in Nat
      BY <1>2, <2>1, FS_Subset, FS_CardinalityType
    <2>3. Cardinality(U) # 0
      BY <2>1, <2>2, FS_EmptySet
    <2>. QED
      BY <1>2, <2>2, <2>3 DEF U
  <1>. QED
    BY <1>2, <1>3

LEMMA OthersAre ==
  ASSUME ChatTypeOK, NEW c \in Chatters
  PROVE  /\ IsFiniteSet(OfOthers(c)) /\ Cardinality(OfOthers(c)) \in Nat
         /\ OfOthers(c) \subseteq 1..Len(log) /\ Len(log) \in Nat
         /\ \A j \in OfOthers(c) : Nth(c, j) \in 1..Cardinality(OfOthers(c))
  <1>1. since[c] \in Nat /\ Len(log) \in Nat
    BY DEF ChatTypeOK
  <1>2. OfOthers(c) \subseteq (since[c] + 1)..Len(log)
    BY DEF OfOthers
  <1>3. OfOthers(c) \subseteq 1..Len(log)
    BY DEF OfOthers, ChatTypeOK
  <1>4. /\ IsFiniteSet(OfOthers(c)) /\ Cardinality(OfOthers(c)) \in Nat
        /\ \A j \in OfOthers(c) :
              Cardinality({k \in OfOthers(c) : k <= j}) \in 1..Cardinality(OfOthers(c))
    BY ONLY <1>1, <1>2, OthersCount
  <1>. QED
    BY <1>1, <1>3, <1>4 DEF Nth

\* One more line of another client is the last of them, and changes the numbers
\* of none.
LEMMA OthersGrow ==
  ASSUME NEW n \in Nat, NEW m \in Nat, NEW T, T \subseteq (m + 1)..n
  PROVE  /\ Cardinality(T \cup {n + 1}) = Cardinality(T) + 1
         /\ {k \in T \cup {n + 1} : k <= n + 1} = T \cup {n + 1}
         /\ \A j \in T : {k \in T \cup {n + 1} : k <= j} = {k \in T : k <= j}
  <1>1. IsFiniteSet(T)
    BY OthersCount
  <1>2. \A k \in T : k \in Nat /\ k <= n
    OBVIOUS
  <1>3. n + 1 \notin T
    BY <1>2
  <1>4. Cardinality(T \cup {n + 1}) = Cardinality(T) + 1
    BY <1>1, <1>3, FS_AddElement
  <1>5. {k \in T \cup {n + 1} : k <= n + 1} = T \cup {n + 1}
    <2>1. \A k \in T \cup {n + 1} : k <= n + 1
      BY <1>2
    <2>. QED
      BY <2>1
  <1>6. ASSUME NEW j \in T
        PROVE  {k \in T \cup {n + 1} : k <= j} = {k \in T : k <= j}
    <2>1. ~(n + 1 <= j)
      BY <1>2
    <2>. QED
      BY <2>1
  <1>. QED
    BY <1>4, <1>5, <1>6

\* Where the lines to be heard are, in the order they are heard.
InOrderHeard(T, g, l) ==
    \A j \in T : Cardinality({k \in T : k <= j}) <= Len(g) =>
                    g[Cardinality({k \in T : k <= j})] = l[j]

\* One more line to be heard, which is not, or is.
LEMMA HearsNext ==
  ASSUME NEW l \in Seq(Record), NEW m \in Nat, NEW T, T \subseteq (m + 1)..Len(l),
         NEW r \in Record, NEW g \in Seq(Record), Len(g) <= Cardinality(T),
         InOrderHeard(T, g, l)
  PROVE  /\ Len(g) <= Cardinality(T \cup {Len(l) + 1})
         /\ InOrderHeard(T \cup {Len(l) + 1}, g, Append(l, r))
         /\ Len(g) = Cardinality(T) =>
               /\ Len(Append(g, r)) = Cardinality(T \cup {Len(l) + 1})
               /\ InOrderHeard(T \cup {Len(l) + 1}, Append(g, r), Append(l, r))
  <1>0. Len(l) \in Nat /\ Len(g) \in Nat
    OBVIOUS
  <1>1. PICK N \in Nat : N = Cardinality(T)
    BY <1>0, OthersCount
  <1>2. PICK rank : rank = [j \in T |-> Cardinality({k \in T : k <= j})]
    OBVIOUS
  <1>3. \A j \in T : rank[j] \in 1..N /\ (rank[j] <= Len(g) => g[rank[j]] = l[j])
    BY <1>0, <1>1, <1>2, OthersCount DEF InOrderHeard
  <1>4. PICK T1 : T1 = T \cup {Len(l) + 1}
    OBVIOUS
  <1>5. /\ Cardinality(T1) = N + 1
        /\ {k \in T1 : k <= Len(l) + 1} = T1
        /\ \A j \in T : Cardinality({k \in T1 : k <= j}) = rank[j]
    <2>1. /\ Cardinality(T \cup {Len(l) + 1}) = Cardinality(T) + 1
          /\ {k \in T \cup {Len(l) + 1} : k <= Len(l) + 1} = T \cup {Len(l) + 1}
          /\ \A j \in T : {k \in T \cup {Len(l) + 1} : k <= j} = {k \in T : k <= j}
      BY <1>0, OthersGrow
    <2>. QED
      BY <1>1, <1>2, <1>4, <2>1
  <1>6. /\ Append(l, r)[Len(l) + 1] = r
        /\ \A j \in T : Append(l, r)[j] = l[j]
    <2>1. Append(l, r)[Len(l) + 1] = r /\ \A j \in 1..Len(l) : Append(l, r)[j] = l[j]
      BY AppendItem
    <2>2. \A j \in T : j \in 1..Len(l)
      OBVIOUS
    <2>. QED
      BY <2>1, <2>2
  <1>7. Len(g) <= N + 1 /\ ~(N + 1 <= Len(g))
    BY <1>0, <1>1
  <1>8. InOrderHeard(T1, g, Append(l, r))
    <2> SUFFICES ASSUME NEW j \in T1, Cardinality({k \in T1 : k <= j}) <= Len(g)
                 PROVE  g[Cardinality({k \in T1 : k <= j})] = Append(l, r)[j]
      BY DEF InOrderHeard
    <2>1. j # Len(l) + 1
      BY <1>5, <1>7
    <2>2. j \in T /\ Cardinality({k \in T1 : k <= j}) = rank[j]
      BY <1>4, <1>5, <2>1
    <2>. QED
      BY <1>3, <1>6, <2>2
  <1>9. ASSUME Len(g) = Cardinality(T)
        PROVE  /\ Len(Append(g, r)) = N + 1
               /\ InOrderHeard(T1, Append(g, r), Append(l, r))
    <2>1. /\ Len(Append(g, r)) = N + 1 /\ Append(g, r)[N + 1] = r
          /\ \A j \in 1..N : Append(g, r)[j] = g[j]
      BY <1>1, <1>9, AppendItem, QueueTypes
    <2> SUFFICES ASSUME NEW j \in T1
                 PROVE  Append(g, r)[Cardinality({k \in T1 : k <= j})] = Append(l, r)[j]
      BY <2>1 DEF InOrderHeard
    <2>2. CASE j = Len(l) + 1
      BY <1>5, <1>6, <2>1, <2>2
    <2>3. CASE j \in T
      BY <1>1, <1>3, <1>5, <1>6, <1>9, <2>1, <2>3
    <2>. QED
      BY <1>4, <2>2, <2>3
  <1>. QED
    BY <1>1, <1>4, <1>5, <1>7, <1>8, <1>9

\* What OneConversation says of one client.
Follows(c) ==
    chatter[c] = "on" =>
        /\ Len(Got(c)) <= Cardinality(OfOthers(c))
        /\ \A j \in OfOthers(c) :
              Nth(c, j) <= Len(Got(c)) => Got(c)[Nth(c, j)] = log[j]
        /\ Served(c) /\ chatServer = "up" => Len(Got(c)) = Cardinality(OfOthers(c))

LEMMA FollowsIs == OneConversation <=> \A c \in Chatters : Follows(c)
  BY DEF OneConversation, Follows

LEMMA FollowsIsNext == OneConversation' <=> \A c \in Chatters : Follows(c)'
  BY DEF OneConversation, Follows

\* A client that has got nothing and is not served has missed nothing.
LEMMA NothingYet ==
  ASSUME ChatTypeOK', NEW c \in Chatters, Got(c)' = <<>>, ~Served(c)'
  PROVE  Follows(c)'
  <1>1. /\ Cardinality(OfOthers(c)') \in Nat
        /\ \A j \in OfOthers(c)' : Nth(c, j)' \in 1..Cardinality(OfOthers(c)')
    <2>1. since'[c] \in Nat /\ Len(log') \in Nat
      BY DEF ChatTypeOK
    <2>2. OfOthers(c)' \subseteq (since'[c] + 1)..Len(log')
      BY DEF OfOthers
    <2>. QED
      BY <2>1, <2>2, OthersCount DEF Nth
  <1>2. Len(Got(c)') = 0
    OBVIOUS
  <1>. QED
    BY <1>1, <1>2 DEF Follows

\* A step in which c hears nothing new and nothing is passed on.
LEMMA FollowsStill ==
  ASSUME NEW c \in Chatters, Follows(c), Got(c)' = Got(c), UNCHANGED <<log, since>>,
         chatter'[c] = "on" => chatter[c] = "on",
         Served(c)' /\ chatServer' = "up" => Served(c) /\ chatServer = "up"
  PROVE  Follows(c)'
  <1>1. OfOthers(c)' = OfOthers(c)
    BY DEF OfOthers
  <1>2. \A j : Nth(c, j)' = Nth(c, j)
    BY <1>1 DEF Nth
  <1>. QED
    BY <1>1, <1>2 DEF Follows

\* A line of c itself: c is not to hear it.
LEMMA OwnLinePassed ==
  ASSUME ChatTypeOK, NEW c \in Chatters, NEW r \in Record, r.line.by = c, Follows(c),
         Got(c)' = Got(c), log' = Append(log, r), since' = since,
         chatter' = chatter, Served(c)' /\ chatServer' = "up" => Served(c) /\ chatServer = "up"
  PROVE  Follows(c)'
  <1>0. log \in Seq(Record) /\ since[c] \in Nat
    BY DEF ChatTypeOK
  <1>1. Len(log') = Len(log) + 1 /\ \A j \in 1..Len(log) : log'[j] = log[j]
    BY <1>0, AppendItem, QueueTypes
  <1>2. log'[Len(log) + 1].line.by = c
    BY <1>0, AppendItem
  <1>3. OfOthers(c)' = OfOthers(c)
    BY <1>0, <1>1, <1>2 DEF OfOthers
  <1>4. \A j : Nth(c, j)' = Nth(c, j)
    BY <1>3 DEF Nth
  <1>5. \A j \in OfOthers(c) : log'[j] = log[j]
    BY <1>1, OthersAre
  <1>6. CASE chatter[c] = "on"
    <2>1. /\ Len(Got(c)) <= Cardinality(OfOthers(c))
          /\ \A j \in OfOthers(c) :
                Nth(c, j) <= Len(Got(c)) => Got(c)[Nth(c, j)] = log[j]
          /\ Served(c) /\ chatServer = "up" => Len(Got(c)) = Cardinality(OfOthers(c))
      BY <1>6 DEF Follows
    <2>2. \A j \in OfOthers(c)' :
             Nth(c, j)' <= Len(Got(c)') => Got(c)'[Nth(c, j)'] = log'[j]
      BY <1>3, <1>4, <1>5, <2>1
    <2>3. Served(c)' /\ chatServer' = "up" => Len(Got(c)') = Cardinality(OfOthers(c)')
      BY <1>3, <2>1
    <2>. QED
      BY <1>3, <2>1, <2>2, <2>3 DEF Follows
  <1>7. CASE chatter[c] # "on"
    BY <1>7 DEF Follows
  <1>. QED
    BY <1>6, <1>7

\* A line of another client, which c gets unless it is not served any more or
\* the server is killed.
LEMMA OtherLinePassed ==
  ASSUME ChatTypeOK, NEW c \in Chatters, NEW r \in Record, r.line.by # c, Follows(c),
         Got(c) \in Seq(Record),
         log' = Append(log, r), since' = since, chatter' = chatter, chatServer = "up",
         Served(c)' => Served(c),
         \/ Got(c)' = Got(c) /\ (chatter[c] = "on" /\ Served(c) => chatServer' # "up")
         \/ Got(c)' = Append(Got(c), r) /\ Served(c)
  PROVE  Follows(c)'
  <1>0. log \in Seq(Record) /\ since[c] \in Nat /\ since[c] <= Len(log) /\ Len(log) \in Nat
    BY DEF ChatTypeOK
  <1>1. Len(log') = Len(log) + 1 /\ \A j \in 1..Len(log) : log'[j] = log[j]
    BY <1>0, AppendItem, QueueTypes
  <1>2. log'[Len(log) + 1] = r
    BY <1>0, AppendItem
  <1>3. OfOthers(c)' = OfOthers(c) \cup {Len(log) + 1}
    BY <1>0, <1>1, <1>2 DEF OfOthers
  <1>4. OfOthers(c) \subseteq (since[c] + 1)..Len(log)
    BY DEF OfOthers
  <1> SUFFICES ASSUME chatter[c] = "on"
               PROVE  Follows(c)'
    BY DEF Follows
  <1>5. /\ Len(Got(c)) \in Nat /\ Len(Got(c)) <= Cardinality(OfOthers(c))
        /\ \A j \in OfOthers(c) :
              Nth(c, j) <= Len(Got(c)) => Got(c)[Nth(c, j)] = log[j]
        /\ Served(c) => Len(Got(c)) = Cardinality(OfOthers(c))
    BY DEF Follows
  <1>6. \/ Got(c)' = Got(c) /\ ~(Served(c) /\ chatServer' = "up")
        \/ Got(c)' = Append(Got(c), r) /\ Len(Got(c)) = Cardinality(OfOthers(c))
    BY <1>5
  <1>7. /\ Len(Got(c)') <= Cardinality(OfOthers(c)')
        /\ InOrderHeard(OfOthers(c)', Got(c)', log')
        /\ Served(c)' /\ chatServer' = "up" => Len(Got(c)') = Cardinality(OfOthers(c)')
    <2>1. InOrderHeard(OfOthers(c), Got(c), log) /\ Len(Got(c)) <= Cardinality(OfOthers(c))
      BY <1>5 DEF InOrderHeard, Nth
    <2>2. PICK T : T = OfOthers(c)
      OBVIOUS
    <2>3. /\ Len(Got(c)) <= Cardinality(T \cup {Len(log) + 1})
          /\ InOrderHeard(T \cup {Len(log) + 1}, Got(c), Append(log, r))
          /\ Len(Got(c)) = Cardinality(T) =>
                /\ Len(Append(Got(c), r)) = Cardinality(T \cup {Len(log) + 1})
                /\ InOrderHeard(T \cup {Len(log) + 1}, Append(Got(c), r), Append(log, r))
      BY <1>0, <1>4, <2>1, <2>2, HearsNext
    <2>4. CASE Got(c)' = Got(c) /\ ~(Served(c) /\ chatServer' = "up")
      BY <1>3, <2>2, <2>3, <2>4
    <2>5. CASE Got(c)' = Append(Got(c), r) /\ Len(Got(c)) = Cardinality(OfOthers(c))
      <3>1. Cardinality(OfOthers(c)) \in Nat /\ Got(c)' = Append(Got(c), r)
        BY <2>5, OthersAre
      <3>2. Len(Got(c)') = Cardinality(OfOthers(c)') /\ InOrderHeard(OfOthers(c)', Got(c)', log')
        BY <1>3, <2>2, <2>3, <2>5
      <3>3. Len(Got(c)') \in Nat
        BY <3>1, QueueTypes
      <3>. QED
        BY <3>2, <3>3
    <2>. QED
      BY <1>6, <2>4, <2>5
  <1>. QED
    BY <1>6, <1>7 DEF Follows, Nth, InOrderHeard

-----------------------------------------------------------------------------
(* The chat server: its steps *)

\* The client whose turn it is, and what is read from it.
LEMMA TurnIs ==
  ASSUME ChatTypeOK, OnceConnected, OwnLines, ready # {}
  PROVE  /\ Min(ready) \in ready /\ Min(ready) \in 1..Len(nsFDs)
         /\ nsFDs[Min(ready)] \in Chatters
         /\ LET c == nsFDs[Min(ready)]
            IN  up[c] # <<>> => Head(up[c]) \in Line /\ Head(up[c]).by = c
  <1>1. ready \subseteq Nat
    BY DEF ChatTypeOK
  <1>2. PICK k \in ready : k = Min(ready)
    BY <1>1, MinChosen
  <1>3. k \in 1..Len(nsFDs) /\ nsFDs[k] # Nobody
    BY DEF ChatTypeOK, OnceConnected
  <1>4. nsFDs[k] \in Chatters
    <2>1. nsFDs \in Seq(Chatters \cup {Nobody})
      BY DEF ChatTypeOK
    <2>. QED
      BY <1>3, <2>1, ItemType
  <1>5. ASSUME up[nsFDs[k]] # <<>>
        PROVE  Head(up[nsFDs[k]]) \in Line /\ Head(up[nsFDs[k]]).by = nsFDs[k]
    <2>1. up[nsFDs[k]] \in Seq(Line)
      BY <1>4 DEF ChatTypeOK
    <2>. QED
      BY <1>4, <1>5, <2>1, QueueTypes DEF OwnLines
  <1>. QED
    BY <1>2, <1>3, <1>4, <1>5

\* Who gets a line: all others in a slot, or those before the client at which
\* the server is killed.
LEMMA Broadcast ==
  ASSUME ChatTypeOK, OnceConnected, chatServer = "up", NEW k \in 1..Len(nsFDs),
         nsFDs[k] # Nobody, NEW r \in Record, sendToAllClients(k, r)
  PROVE  /\ down' \in [Chatters -> Seq(Record)] /\ unread' \in [Chatters -> BOOLEAN]
         /\ chatServer' \in {"up", "dead"}
         /\ \A d \in Chatters :
               \/ /\ down'[d] = down[d]
                  /\ chatter[d] # "gone" /\ Served(d) /\ d # nsFDs[k] => chatServer' # "up"
               \/ /\ down'[d] = Append(down[d], r)
                  /\ Served(d) /\ d # nsFDs[k]
  <1> DEFINE others == {j \in 1..Len(nsFDs) : nsFDs[j] \notin {Nobody, nsFDs[k]}}
             gone == {j \in others : chatter[nsFDs[j]] = "gone"}
             Reach(js) ==
               /\ down' = [c \in Chatters |-> IF \E j \in js \ gone : nsFDs[j] = c
                                              THEN Append(down[c], r) ELSE down[c]]
               /\ unread' = [c \in Chatters |-> unread[c] \/ \E j \in js \cap gone : nsFDs[j] = c]
  <1>0. \A d \in Chatters : down[d] \in Seq(Record) /\ Append(down[d], r) \in Seq(Record)
    BY DEF ChatTypeOK
  <1>1. PICK js \in SUBSET others :
           /\ Reach(js)
           /\ (js = others /\ chatServer' = chatServer) \/ chatServer' = "dead"
    <2>1. CASE Reach(others) /\ UNCHANGED chatServer
      BY <2>1
    <2>2. CASE \E last \in gone : Reach({j \in others : j < last}) /\ chatServer' = "dead"
      <3>1. PICK last \in gone : Reach({j \in others : j < last}) /\ chatServer' = "dead"
        BY <2>2
      <3>2. {j \in others : j < last} \in SUBSET others
        OBVIOUS
      <3>. HIDE DEF others, gone, Reach
      <3>. QED
        BY <3>1, <3>2
    <2>. QED
      BY <2>1, <2>2 DEF sendToAllClients
  <1>2. down' \in [Chatters -> Seq(Record)] /\ unread' \in [Chatters -> BOOLEAN]
    <2>1. down' = [c \in Chatters |-> IF \E j \in js \ gone : nsFDs[j] = c
                                      THEN Append(down[c], r) ELSE down[c]]
      BY <1>1
    <2>2. \E g : unread' = [c \in Chatters |-> unread[c] \/ g[c]]
      <3> DEFINE h == [c \in Chatters |-> \E j \in js \cap gone : nsFDs[j] = c]
      <3>1. unread' = [c \in Chatters |-> unread[c] \/ h[c]]
        BY <1>1
      <3>. QED
        BY <3>1
    <2>. HIDE DEF others, gone, Reach
    <2>3. down' \in [Chatters -> Seq(Record)]
      BY <1>0, <2>1
    <2>4. unread' \in [Chatters -> BOOLEAN]
      BY <2>2
    <2>. QED
      BY <2>3, <2>4
  <1>3. chatServer' \in {"up", "dead"}
    BY <1>1
  <1>4. ASSUME NEW d \in Chatters
        PROVE  \/ /\ down'[d] = down[d]
                  /\ chatter[d] # "gone" /\ Served(d) /\ d # nsFDs[k] => chatServer' # "up"
               \/ /\ down'[d] = Append(down[d], r)
                  /\ Served(d) /\ d # nsFDs[k]
    <2>1. down'[d] = IF \E j \in js \ gone : nsFDs[j] = d THEN Append(down[d], r) ELSE down[d]
      BY <1>1
    <2>2. CASE \E j \in js \ gone : nsFDs[j] = d
      <3>1. Served(d) /\ d # nsFDs[k]
        BY <1>1, <2>2 DEF Served
      <3>. QED
        BY <2>1, <2>2, <3>1
    <2>3. CASE ~ \E j \in js \ gone : nsFDs[j] = d
      <3>1. ASSUME chatter[d] # "gone", Served(d), d # nsFDs[k], chatServer' = "up"
            PROVE  FALSE
        <4>1. PICK j \in 1..Len(nsFDs) : nsFDs[j] = d
          BY <3>1 DEF Served
        <4>2. j \in others \ gone /\ js = others
          BY <1>1, <3>1, <4>1, ChatAssumption
        <4>. QED
          BY <2>3, <4>1, <4>2
      <3>. QED
        BY <2>1, <2>3, <3>1
    <2>. QED
      BY <2>2, <2>3
  <1>. HIDE DEF others, gone, Reach
  <1>. QED
    BY <1>2, <1>3, <1>4

\* The whole of a step that passes a line on.
LEMMA PassIs ==
  ASSUME ChatTypeOK, OnceConnected, OwnLines, ChatPass
  PROVE  \E k \in ready, c \in Chatters, line \in Line :
            /\ k \in 1..Len(nsFDs) /\ nsFDs[k] = c /\ up[c] # <<>> /\ line.by = c
            /\ up' = [up EXCEPT ![c] = Tail(@)]
            /\ log' = Append(log, [from |-> k, line |-> line])
            /\ [from |-> k, line |-> line] \in Record
            /\ nsFDs' = [nsFDs EXCEPT ![k] = IF line.text = "exit" THEN Nobody ELSE @]
            /\ ready' = ready \ {k} /\ chatServer = "up" /\ chatServer' \in {"up", "dead"}
            /\ down' \in [Chatters -> Seq(Record)] /\ unread' \in [Chatters -> BOOLEAN]
            /\ UNCHANGED <<knocking, chatter, lines, heard, since>>
            /\ \A d \in Chatters :
                  \/ /\ down'[d] = down[d]
                     /\ chatter[d] # "gone" /\ Served(d) /\ d # c => chatServer' # "up"
                  \/ /\ down'[d] = Append(down[d], [from |-> k, line |-> line])
                     /\ Served(d) /\ d # c
  <1>1. ready # {} /\ chatServer = "up"
    BY DEF ChatPass
  <1>2. PICK k \in ready : k = Min(ready)
    BY <1>1, TurnIs
  <1>3. PICK c \in Chatters : c = nsFDs[k]
    BY <1>1, <1>2, TurnIs
  <1>4. up[c] # <<>>
    BY <1>2, <1>3 DEF ChatPass
  <1>5. PICK line \in Line : line = Head(up[c]) /\ line.by = c
    BY <1>1, <1>2, <1>3, <1>4, TurnIs
  <1>6. PICK r : r = [from |-> k, line |-> line]
    OBVIOUS
  <1>7. k \in 1..Len(nsFDs) /\ r \in Record /\ nsFDs[k] # Nobody
    <2>1. k \in 1..Len(nsFDs)
      BY <1>1, <1>2, TurnIs
    <2>2. k \in Nat
      BY <2>1
    <2>. QED
      BY <1>3, <1>6, <2>1, <2>2, ChatAssumption DEF Record
  <1>8. /\ up' = [up EXCEPT ![c] = Tail(@)]
        /\ log' = Append(log, r)
        /\ sendToAllClients(k, r)
        /\ nsFDs' = [nsFDs EXCEPT ![k] = IF line.text = "exit" THEN Nobody ELSE @]
        /\ ready' = ready \ {k}
        /\ UNCHANGED <<knocking, chatter, lines, heard, since>>
    BY <1>2, <1>3, <1>5, <1>6 DEF ChatPass
  <1>9. /\ down' \in [Chatters -> Seq(Record)] /\ unread' \in [Chatters -> BOOLEAN]
        /\ chatServer' \in {"up", "dead"}
        /\ \A d \in Chatters :
              \/ /\ down'[d] = down[d]
                 /\ chatter[d] # "gone" /\ Served(d) /\ d # nsFDs[k] => chatServer' # "up"
              \/ /\ down'[d] = Append(down[d], r)
                 /\ Served(d) /\ d # nsFDs[k]
    BY <1>1, <1>7, <1>8, Broadcast
  <1>. QED
    BY <1>1, <1>3, <1>4, <1>5, <1>6, <1>7, <1>8, <1>9

\* A client that is accepted: the first that knocked.
LEMMA AcceptedIs ==
  ASSUME ChatTypeOK, OnceConnected, knocking # <<>>
  PROVE  /\ Head(knocking) \in Chatters /\ Tail(knocking) \in Seq(Chatters)
         /\ Head(knocking) = knocking[1] /\ 1 \in 1..Len(knocking)
         /\ ~Served(Head(knocking)) /\ chatter[Head(knocking)] # "home" /\ Knocks(Head(knocking))
         /\ \A j \in 1..Len(Tail(knocking)) : /\ j + 1 \in 1..Len(knocking)
                                              /\ Tail(knocking)[j] = knocking[j + 1]
                                              /\ Tail(knocking)[j] # Head(knocking)
         /\ Len(Tail(knocking)) = Len(knocking) - 1
  <1>0. knocking \in Seq(Chatters)
    BY DEF ChatTypeOK
  <1>1. /\ Head(knocking) \in Chatters /\ Tail(knocking) \in Seq(Chatters)
        /\ Head(knocking) = knocking[1] /\ 1 \in 1..Len(knocking)
        /\ Len(Tail(knocking)) = Len(knocking) - 1
    BY <1>0, QueueTypes
  <1>2. ASSUME NEW j \in 1..Len(Tail(knocking))
        PROVE  /\ j + 1 \in 1..Len(knocking)
               /\ Tail(knocking)[j] = knocking[j + 1]
               /\ Tail(knocking)[j] # Head(knocking)
    <2>1. j + 1 \in 1..Len(knocking) /\ Tail(knocking)[j] = knocking[j + 1]
      BY <1>0, TailItem
    <2>. QED
      BY <1>1, <2>1 DEF OnceConnected
  <1>3. Knocks(Head(knocking))
    BY <1>1 DEF Knocks
  <1>. QED
    BY <1>1, <1>2, <1>3 DEF OnceConnected

LEMMA ChatTypeStep ==
  ASSUME ChatTypeOK, OnceConnected, OwnLines, ChatNext
  PROVE  ChatTypeOK'
  <1>0. Nobody \notin Chatters
    BY ChatAssumption
  <1>1. CASE ChatPoll
    <2>1. ready' \subseteq 1..Len(nsFDs)
      BY <1>1 DEF ChatPoll
    <2>2. CASE knocking = <<>>
      BY <1>1, <2>1, <2>2 DEF ChatPoll, ChatTypeOK
    <2>3. CASE knocking # <<>>
      <3>1. /\ nsFDs \in Seq(Chatters \cup {Nobody})
            /\ Head(knocking) \in Chatters \cup {Nobody} /\ Head(knocking) \in Chatters
            /\ Tail(knocking) \in Seq(Chatters) /\ Len(log) \in Nat
        BY <2>3, AcceptedIs DEF ChatTypeOK
      <3>2. /\ nsFDs' = Append(nsFDs, Head(knocking)) /\ knocking' = Tail(knocking)
            /\ since' = [since EXCEPT ![Head(knocking)] = Len(log)]
        BY <1>1, <2>3 DEF ChatPoll
      <3>3. nsFDs' \in Seq(Chatters \cup {Nobody}) /\ Len(nsFDs') = Len(nsFDs) + 1 /\ Len(nsFDs) \in Nat
        BY <3>1, <3>2, QueueTypes
      <3>4. since' \in [Chatters -> 0..Len(log)]
        BY <3>1, <3>2 DEF ChatTypeOK
      <3>5. ready' \subseteq 1..Len(nsFDs')
        BY <2>1, <3>3
      <3>6. UNCHANGED <<chatServer, chatter, up, down, unread, lines, heard, log>>
        BY <1>1 DEF ChatPoll
      <3>. QED
        BY <3>1, <3>2, <3>3, <3>4, <3>5, <3>6 DEF ChatTypeOK
    <2>. QED
      BY <2>2, <2>3
  <1>2. CASE ChatPass
    <2>1. PICK k \in ready, c \in Chatters, line \in Line :
             /\ k \in 1..Len(nsFDs) /\ up[c] # <<>>
             /\ up' = [up EXCEPT ![c] = Tail(@)]
             /\ log' = Append(log, [from |-> k, line |-> line])
             /\ [from |-> k, line |-> line] \in Record
             /\ nsFDs' = [nsFDs EXCEPT ![k] = IF line.text = "exit" THEN Nobody ELSE @]
             /\ ready' = ready \ {k} /\ chatServer' \in {"up", "dead"}
             /\ down' \in [Chatters -> Seq(Record)] /\ unread' \in [Chatters -> BOOLEAN]
             /\ UNCHANGED <<knocking, chatter, lines, heard, since>>
      BY <1>2, PassIs
    <2>2. up' \in [Chatters -> Seq(Line)]
      <3>1. Tail(up[c]) \in Seq(Line)
        BY <2>1, QueueTypes DEF ChatTypeOK
      <3>. QED
        BY <2>1, <3>1 DEF ChatTypeOK
    <2>3. log' \in Seq(Record) /\ since' \in [Chatters -> 0..Len(log')]
      <3>1. log \in Seq(Record) /\ since \in [Chatters -> 0..Len(log)]
        BY DEF ChatTypeOK
      <3>2. log' \in Seq(Record) /\ Len(log') = Len(log) + 1 /\ Len(log) \in Nat
        BY <2>1, <3>1, QueueTypes
      <3>. QED
        BY <2>1, <3>1, <3>2
    <2>4. nsFDs' \in Seq(Chatters \cup {Nobody}) /\ Len(nsFDs') = Len(nsFDs)
      <3>1. nsFDs \in Seq(Chatters \cup {Nobody})
        BY DEF ChatTypeOK
      <3>. QED
        BY <2>1, <3>1
    <2>. QED
      BY <2>1, <2>2, <2>3, <2>4 DEF ChatTypeOK
  <1>3. CASE ChatForget
    <2>1. ready # {}
      BY <1>3 DEF ChatForget
    <2>2. PICK k \in ready : k = Min(ready)
      BY <2>1, TurnIs
    <2>3. PICK c \in Chatters : c = nsFDs[k]
      BY <2>1, <2>2, TurnIs
    <2>4. /\ up' = [up EXCEPT ![c] = IF @ = <<>> THEN @ ELSE Tail(@)]
          /\ nsFDs' = [nsFDs EXCEPT ![k] = Nobody]
          /\ ready' = ready \ {k}
      BY <1>3, <2>2, <2>3 DEF ChatForget
    <2>5. up' \in [Chatters -> Seq(Line)]
      <3>1. up[c] # <<>> => Tail(up[c]) \in Seq(Line)
        BY QueueTypes DEF ChatTypeOK
      <3>. QED
        BY <2>4, <3>1 DEF ChatTypeOK
    <2>6. nsFDs' \in Seq(Chatters \cup {Nobody}) /\ Len(nsFDs') = Len(nsFDs)
      <3>1. nsFDs \in Seq(Chatters \cup {Nobody}) /\ k \in 1..Len(nsFDs)
        BY DEF ChatTypeOK
      <3>. QED
        BY <2>4, <3>1
    <2>. QED
      BY <1>3, <2>4, <2>5, <2>6 DEF ChatForget, ChatTypeOK
  <1>4. ASSUME NEW c \in Chatters, ChatConnect(c) PROVE ChatTypeOK'
    <2>1. Append(knocking, c) \in Seq(Chatters)
      BY QueueTypes DEF ChatTypeOK
    <2>. QED
      BY <1>4, <2>1 DEF ChatConnect, ChatTypeOK
  <1>5. ASSUME NEW c \in Chatters, NEW text \in Texts, ChatSay(c, text) PROVE ChatTypeOK'
    <2>1. lines'[c] \in Nat /\ lines' \in [Chatters -> Nat]
      BY <1>5 DEF ChatSay, ChatTypeOK
    <2>2. [by |-> c, n |-> lines'[c], text |-> text] \in Line
      BY <1>5, <2>1 DEF Line
    <2>3. Append(up[c], [by |-> c, n |-> lines'[c], text |-> text]) \in Seq(Line)
      BY <2>2, QueueTypes DEF ChatTypeOK
    <2>. QED
      BY <1>5, <2>1, <2>3 DEF ChatSay, ChatTypeOK
  <1>6. ASSUME NEW c \in Chatters, ChatHear(c) PROVE ChatTypeOK'
    <2>1. down[c] \in Seq(Record) /\ heard[c] \in Seq(Record) /\ down[c] # <<>>
      BY <1>6 DEF ChatHear, ChatTypeOK
    <2>2. Tail(down[c]) \in Seq(Record) /\ Append(heard[c], Head(down[c])) \in Seq(Record)
      BY <2>1, QueueTypes
    <2>. QED
      BY <1>6, <2>2 DEF ChatHear, ChatTypeOK
  <1>7. ASSUME NEW c \in Chatters, ChatQuit(c) PROVE ChatTypeOK'
    BY <1>7 DEF ChatQuit, ChatTypeOK
  <1>. QED
    BY <1>1, <1>2, <1>3, <1>4, <1>5, <1>6, <1>7 DEF ChatNext, ChatServer, ChatClient

\* A slot that is given up, or kept, is the only one that changes.
LEMMA SlotGivenUp ==
  ASSUME ChatTypeOK, NEW k \in 1..Len(nsFDs), NEW x \in {Nobody, nsFDs[k]},
         nsFDs' = [nsFDs EXCEPT ![k] = x]
  PROVE  /\ Len(nsFDs') = Len(nsFDs)
         /\ \A j \in 1..Len(nsFDs) : nsFDs'[j] = nsFDs[j] \/ nsFDs'[j] = Nobody
         /\ \A j \in 1..Len(nsFDs) : j # k => nsFDs'[j] = nsFDs[j]
         /\ \A c \in Chatters : Served(c)' => Served(c)
  <1>1. nsFDs \in Seq(Chatters \cup {Nobody})
    BY DEF ChatTypeOK
  <1>2. Len(nsFDs') = Len(nsFDs)
    BY <1>1
  <1>3. \A j \in 1..Len(nsFDs) : /\ nsFDs'[j] = nsFDs[j] \/ nsFDs'[j] = Nobody
                                 /\ j # k => nsFDs'[j] = nsFDs[j]
    BY <1>1
  <1>4. \A c \in Chatters : Served(c)' => Served(c)
    BY <1>2, <1>3, ChatAssumption DEF Served
  <1>. QED
    BY <1>2, <1>3, <1>4

LEMMA OnceAfterGivingUp ==
  ASSUME ChatTypeOK, OnceConnected, NEW k \in 1..Len(nsFDs), NEW x \in {Nobody, nsFDs[k]},
         nsFDs' = [nsFDs EXCEPT ![k] = x], ready' = ready \ {k}, UNCHANGED <<knocking, chatter>>
  PROVE  OnceConnected'
  <1>1. /\ Len(nsFDs') = Len(nsFDs)
        /\ \A j \in 1..Len(nsFDs) : nsFDs'[j] = nsFDs[j] \/ nsFDs'[j] = Nobody
        /\ \A j \in 1..Len(nsFDs) : j # k => nsFDs'[j] = nsFDs[j]
        /\ \A c \in Chatters : Served(c)' => Served(c)
    BY SlotGivenUp
  <1>2. \A m, j \in 1..Len(nsFDs') : nsFDs'[m] = nsFDs'[j] /\ nsFDs'[m] # Nobody => m = j
    BY <1>1 DEF OnceConnected
  <1>3. \A j \in ready' : nsFDs'[j] # Nobody
    BY <1>1 DEF OnceConnected, ChatTypeOK
  <1>4. \A c \in Chatters : Knocks(c)' = Knocks(c)
    BY DEF Knocks
  <1>. QED
    BY <1>1, <1>2, <1>3, <1>4 DEF OnceConnected

LEMMA OnceStep ==
  ASSUME ChatTypeOK, OnceConnected, OwnLines, ChatNext
  PROVE  OnceConnected'
  <1>1. CASE ChatPoll
    <2>1. \A k \in ready' : k \in 1..Len(nsFDs) /\ nsFDs[k] # Nobody
      BY <1>1 DEF ChatPoll, Readable
    <2>2. CASE knocking = <<>>
      BY <1>1, <2>1, <2>2 DEF ChatPoll, OnceConnected, Served, Knocks
    <2>3. CASE knocking # <<>>
      <3>1. PICK c \in Chatters : c = Head(knocking)
        BY <2>3, AcceptedIs
      <3>2. /\ ~Served(c) /\ chatter[c] # "home"
            /\ \A j \in 1..Len(Tail(knocking)) :
                  /\ j + 1 \in 1..Len(knocking) /\ Tail(knocking)[j] = knocking[j + 1]
                  /\ Tail(knocking)[j] # c
        BY <2>3, <3>1, AcceptedIs
      <3>3. nsFDs' = Append(nsFDs, c) /\ knocking' = Tail(knocking) /\ chatter' = chatter
        BY <1>1, <2>3, <3>1 DEF ChatPoll
      <3>4. /\ \A j \in 1..Len(nsFDs) : j \in 1..Len(nsFDs') /\ nsFDs'[j] = nsFDs[j]
            /\ nsFDs'[Len(nsFDs) + 1] = c
            /\ \A j \in 1..Len(nsFDs') : j \in 1..Len(nsFDs) \/ j = Len(nsFDs) + 1
        <4>1. nsFDs \in Seq(Chatters \cup {Nobody}) /\ c \in Chatters \cup {Nobody}
          BY DEF ChatTypeOK
        <4>. QED
          BY <3>3, <4>1, AppendItem
      <3>5. \A d \in Chatters : Served(d)' => Served(d) \/ d = c
        BY <3>4 DEF Served
      <3>6. \A m, j \in 1..Len(nsFDs') : nsFDs'[m] = nsFDs'[j] /\ nsFDs'[m] # Nobody => m = j
        BY <3>2, <3>4 DEF OnceConnected, Served
      <3>7. \A m, j \in 1..Len(knocking') : knocking'[m] = knocking'[j] => m = j
        <4> SUFFICES ASSUME NEW m \in 1..Len(knocking'), NEW j \in 1..Len(knocking'),
                            knocking'[m] = knocking'[j]
                     PROVE  m = j
          OBVIOUS
        <4>1. m + 1 = j + 1
          BY <3>2, <3>3 DEF OnceConnected
        <4>. QED
          BY <4>1
      <3>8. \A d \in Chatters : Knocks(d)' => Knocks(d) /\ d # c
        BY <3>2, <3>3 DEF Knocks
      <3>9. \A k \in ready' : nsFDs'[k] # Nobody
        BY <2>1, <3>4
      <3>. QED
        BY <3>2, <3>3, <3>5, <3>6, <3>7, <3>8, <3>9 DEF OnceConnected
    <2>. QED
      BY <2>2, <2>3
  <1>2. CASE ChatPass
    <2>1. PICK k \in ready, c \in Chatters, line \in Line :
             /\ k \in 1..Len(nsFDs) /\ nsFDs[k] = c
             /\ nsFDs' = [nsFDs EXCEPT ![k] = IF line.text = "exit" THEN Nobody ELSE @]
             /\ ready' = ready \ {k}
             /\ UNCHANGED <<knocking, chatter>>
      BY <1>2, PassIs
    <2>2. PICK x \in {Nobody, nsFDs[k]} : nsFDs' = [nsFDs EXCEPT ![k] = x]
      BY <2>1
    <2>. QED
      BY <2>1, <2>2, OnceAfterGivingUp
  <1>3. CASE ChatForget
    <2>1. ready # {}
      BY <1>3 DEF ChatForget
    <2>2. PICK k \in 1..Len(nsFDs) : k = Min(ready)
      BY <2>1, TurnIs
    <2>3. /\ nsFDs' = [nsFDs EXCEPT ![k] = Nobody] /\ ready' = ready \ {k}
          /\ UNCHANGED <<knocking, chatter>>
      BY <1>3, <2>2 DEF ChatForget
    <2>. QED
      BY <2>3, OnceAfterGivingUp
  <1>4. ASSUME NEW c \in Chatters, ChatConnect(c) PROVE OnceConnected'
    <2>1. knocking' = Append(knocking, c) /\ knocking \in Seq(Chatters)
      BY <1>4 DEF ChatConnect, ChatTypeOK
    <2>2. /\ \A n \in 1..Len(knocking) : n \in 1..Len(knocking') /\ knocking'[n] = knocking[n]
          /\ knocking'[Len(knocking) + 1] = c
          /\ \A n \in 1..Len(knocking') : n \in 1..Len(knocking) \/ n = Len(knocking) + 1
      BY <2>1, AppendItem
    <2>3. /\ chatter[c] = "home" /\ ~Served(c) /\ \A n \in 1..Len(knocking) : knocking[n] # c
      BY <1>4 DEF ChatConnect, OnceConnected, Knocks
    <2>4. /\ chatter'[c] = "on" /\ UNCHANGED <<nsFDs, ready>>
          /\ \A d \in Chatters : d # c => chatter'[d] = chatter[d]
      BY <1>4 DEF ChatConnect, ChatTypeOK
    <2>5. \A d : Served(d)' <=> Served(d)
      BY <2>4 DEF Served
    <2>6. \A d \in Chatters : Knocks(d)' => Knocks(d) \/ d = c
      BY <2>2 DEF Knocks
    <2>7. \A n, j \in 1..Len(knocking') : knocking'[n] = knocking'[j] => n = j
      BY <2>2, <2>3 DEF OnceConnected
    <2>8. \A d \in Chatters : chatter'[d] = "home" => ~Served(d)
      BY <2>3, <2>4 DEF OnceConnected
    <2>. QED
      BY <2>3, <2>4, <2>5, <2>6, <2>7, <2>8 DEF OnceConnected
  <1>5. ASSUME NEW c \in Chatters,
               ChatHear(c) \/ ChatQuit(c) \/ \E text \in Texts : ChatSay(c, text)
        PROVE  OnceConnected'
    <2>1. UNCHANGED <<nsFDs, ready, knocking>> /\ \A d \in Chatters : chatter'[d] = "home" => chatter[d] = "home"
      BY <1>5 DEF ChatHear, ChatQuit, ChatSay, ChatTypeOK
    <2>2. \A d : Served(d)' <=> Served(d)
      BY <2>1 DEF Served
    <2>3. \A d : Knocks(d)' <=> Knocks(d)
      BY <2>1 DEF Knocks
    <2>. QED
      BY <2>1, <2>2, <2>3 DEF OnceConnected
  <1>. QED
    BY <1>1, <1>2, <1>3, <1>4, <1>5 DEF ChatNext, ChatServer, ChatClient

\* Who is served after a poll.
LEMMA PollIs ==
  ASSUME ChatTypeOK, OnceConnected, ChatPoll, NEW d \in Chatters
  PROVE  /\ Knocks(d)' => Knocks(d)
         /\ \/ (Served(d)' <=> Served(d)) /\ since'[d] = since[d]
            \/ Served(d)' /\ since'[d] = Len(log) /\ Knocks(d) /\ chatter[d] # "home"
         /\ UNCHANGED <<chatServer, chatter, up, down, heard, log>>
  <1>1. CASE knocking = <<>>
    BY <1>1 DEF ChatPoll, Served, Knocks
  <1>2. CASE knocking # <<>>
    <2>1. PICK c \in Chatters : c = Head(knocking)
      BY <1>2, AcceptedIs
    <2>2. /\ chatter[c] # "home" /\ Knocks(c)
          /\ \A j \in 1..Len(Tail(knocking)) :
                j + 1 \in 1..Len(knocking) /\ Tail(knocking)[j] = knocking[j + 1]
      BY <1>2, <2>1, AcceptedIs
    <2>3. /\ nsFDs' = Append(nsFDs, c) /\ knocking' = Tail(knocking)
          /\ since' = [since EXCEPT ![c] = Len(log)]
          /\ UNCHANGED <<chatServer, chatter, up, down, heard, log>>
      BY <1>2, <2>1 DEF ChatPoll
    <2>4. /\ \A j \in 1..Len(nsFDs) : j \in 1..Len(nsFDs') /\ nsFDs'[j] = nsFDs[j]
          /\ nsFDs'[Len(nsFDs) + 1] = c /\ Len(nsFDs) + 1 \in 1..Len(nsFDs')
          /\ \A j \in 1..Len(nsFDs') : j \in 1..Len(nsFDs) \/ j = Len(nsFDs) + 1
      <3>1. nsFDs \in Seq(Chatters \cup {Nobody}) /\ c \in Chatters \cup {Nobody}
        BY DEF ChatTypeOK
      <3>. QED
        BY <2>3, <3>1, AppendItem
    <2>5. Knocks(d)' => Knocks(d)
      BY <2>2, <2>3 DEF Knocks
    <2>6. /\ since'[c] = Len(log)
          /\ d # c => since'[d] = since[d]
      BY <2>3 DEF ChatTypeOK
    <2>7. Served(c)'
      BY <2>4 DEF Served
    <2>8. d # c => (Served(d)' <=> Served(d))
      BY <2>4 DEF Served
    <2>. QED
      BY <2>2, <2>3, <2>5, <2>6, <2>7, <2>8
  <1>. QED
    BY <1>1, <1>2

\* What a client has got in all, when it takes the next record over.
LEMMA HearIs ==
  ASSUME ChatTypeOK, NEW c \in Chatters, ChatHear(c), NEW d \in Chatters
  PROVE  Got(d)' = Got(d)
  <1>1. /\ down[c] \in Seq(Record) /\ heard[c] \in Seq(Record) /\ down[c] # <<>>
        /\ heard' = [heard EXCEPT ![c] = Append(@, Head(down[c]))]
        /\ down' = [down EXCEPT ![c] = Tail(@)]
        /\ heard \in [Chatters -> Seq(Record)] /\ down \in [Chatters -> Seq(Record)]
    BY DEF ChatHear, ChatTypeOK
  <1>2. CASE d = c
    <2>1. heard'[c] = Append(heard[c], Head(down[c])) /\ down'[c] = Tail(down[c])
      BY <1>1
    <2>. QED
      BY <1>1, <1>2, <2>1, MovedOver DEF Got
  <1>3. CASE d # c
    BY <1>1, <1>3 DEF Got
  <1>. QED
    BY <1>2, <1>3

\* The lines of a queue are the sender's own, whatever is taken or added.
LEMMA StillOwn ==
  ASSUME NEW c, NEW q \in Seq(Line), \A k \in 1..Len(q) : q[k].by = c
  PROVE  /\ q # <<>> => \A k \in 1..Len(Tail(q)) : Tail(q)[k].by = c
         /\ \A l \in Line : l.by = c =>
               \A k \in 1..Len(Append(q, l)) : Append(q, l)[k].by = c
  <1>1. q # <<>> => \A k \in 1..Len(Tail(q)) : Tail(q)[k].by = c
    BY TailItem
  <1>2. \A l \in Line : l.by = c =>
           \A k \in 1..Len(Append(q, l)) : Append(q, l)[k].by = c
    BY AppendItem
  <1>. QED
    BY <1>1, <1>2

LEMMA OwnStep ==
  ASSUME ChatTypeOK, OnceConnected, OwnLines, ChatNext
  PROVE  OwnLines'
  <1> USE DEF OwnLines
  <1>0. \A c \in Chatters : up[c] \in Seq(Line) /\ \A k \in 1..Len(up[c]) : up[c][k].by = c
    BY DEF ChatTypeOK
  <1>1. CASE ChatPoll
    <2>1. \A d \in Chatters : Knocks(d)' => Knocks(d)
      BY <1>1, PollIs
    <2>2. UNCHANGED <<chatter, up, down, heard>>
      BY <1>1 DEF ChatPoll
    <2>. QED
      BY <2>1, <2>2 DEF Got
  <1>2. CASE ChatPass
    <2>1. PICK k \in ready, c \in Chatters, line \in Line :
             /\ up[c] # <<>> /\ up' = [up EXCEPT ![c] = Tail(@)]
             /\ UNCHANGED <<knocking, chatter, heard>>
             /\ \A d \in Chatters :
                   \/ down'[d] = down[d]
                   \/ Served(d)
      BY <1>2, PassIs
    <2>2. \A d \in Chatters : \A n \in 1..Len(up'[d]) : up'[d][n].by = d
      <3>1. \A n \in 1..Len(Tail(up[c])) : Tail(up[c])[n].by = c
        BY <1>0, <2>1, StillOwn
      <3>2. up'[c] = Tail(up[c]) /\ \A d \in Chatters : d # c => up'[d] = up[d]
        BY <2>1 DEF ChatTypeOK
      <3>. QED
        BY <1>0, <3>1, <3>2
    <2>3. ASSUME NEW d \in Chatters, chatter'[d] = "home" \/ Knocks(d)' PROVE Got(d)' = <<>>
      <3>1. chatter[d] = "home" \/ Knocks(d)
        BY <2>1, <2>3 DEF Knocks
      <3>2. Got(d) = <<>> /\ ~Served(d)
        BY <3>1 DEF OnceConnected
      <3>. QED
        BY <2>1, <3>2 DEF Got
    <2>. QED
      BY <2>2, <2>3
  <1>3. CASE ChatForget
    <2>1. ready # {}
      BY <1>3 DEF ChatForget
    <2>2. PICK k \in ready : k = Min(ready)
      BY <2>1, TurnIs
    <2>3. PICK c \in Chatters : c = nsFDs[k]
      BY <2>1, <2>2, TurnIs
    <2>4. /\ up' = [up EXCEPT ![c] = IF @ = <<>> THEN @ ELSE Tail(@)]
          /\ UNCHANGED <<knocking, chatter, down, heard>>
      BY <1>3, <2>2, <2>3 DEF ChatForget
    <2>5. up'[c] = (IF up[c] = <<>> THEN up[c] ELSE Tail(up[c])) /\ \A d \in Chatters : d # c => up'[d] = up[d]
      BY <2>4 DEF ChatTypeOK
    <2>6. up[c] # <<>> => \A n \in 1..Len(Tail(up[c])) : Tail(up[c])[n].by = c
      BY <1>0, StillOwn
    <2>7. \A d \in Chatters : \A n \in 1..Len(up'[d]) : up'[d][n].by = d
      <3>1. CASE up[c] = <<>>
        <4>1. \A d \in Chatters : up'[d] = up[d]
          BY <2>5, <3>1
        <4>. QED
          BY <1>0, <4>1
      <3>2. CASE up[c] # <<>>
        <4>1. up'[c] = Tail(up[c])
          BY <2>5, <3>2
        <4>. QED
          BY <1>0, <2>5, <2>6, <3>2, <4>1
      <3>. QED
        BY <3>1, <3>2
    <2>. QED
      BY <2>4, <2>7 DEF Got, Knocks
  <1>4. ASSUME NEW c \in Chatters, ChatConnect(c) PROVE OwnLines'
    <2>1. /\ knocking' = Append(knocking, c) /\ knocking \in Seq(Chatters)
          /\ chatter[c] = "home" /\ UNCHANGED <<up, down, heard>>
          /\ \A d \in Chatters : d # c => chatter'[d] = chatter[d]
      BY <1>4 DEF ChatConnect, ChatTypeOK
    <2>2. \A d \in Chatters : Knocks(d)' => Knocks(d) \/ d = c
      <3>1. /\ \A n \in 1..Len(knocking) : n \in 1..Len(knocking') /\ knocking'[n] = knocking[n]
            /\ knocking'[Len(knocking) + 1] = c
            /\ \A n \in 1..Len(knocking') : n \in 1..Len(knocking) \/ n = Len(knocking) + 1
        BY <2>1, AppendItem
      <3>. QED
        BY <3>1 DEF Knocks
    <2>. QED
      BY <2>1, <2>2 DEF Got
  <1>5. ASSUME NEW c \in Chatters, NEW text \in Texts, ChatSay(c, text) PROVE OwnLines'
    <2>0. lines'[c] \in Nat
      BY <1>5 DEF ChatSay, ChatTypeOK
    <2>9. [by |-> c, n |-> lines'[c], text |-> text] \in Line
      BY <2>0 DEF Line
    <2>1. PICK l \in Line : l = [by |-> c, n |-> lines'[c], text |-> text] /\ l.by = c
      BY <2>9
    <2>2. /\ up'[c] = Append(up[c], l) /\ \A d \in Chatters : d # c => up'[d] = up[d]
          /\ UNCHANGED <<knocking, down, heard>>
          /\ \A d \in Chatters : chatter'[d] = "home" => chatter[d] = "home"
      BY <1>5, <2>1 DEF ChatSay, ChatTypeOK
    <2>3. \A n \in 1..Len(Append(up[c], l)) : Append(up[c], l)[n].by = c
      BY <1>0, <2>1, StillOwn
    <2>4. \A d \in Chatters : \A n \in 1..Len(up'[d]) : up'[d][n].by = d
      BY <1>0, <2>2, <2>3
    <2>. QED
      BY <2>2, <2>4 DEF Got, Knocks
  <1>6. ASSUME NEW c \in Chatters, ChatHear(c) PROVE OwnLines'
    <2>1. \A d \in Chatters : Got(d)' = Got(d)
      BY <1>6, HearIs
    <2>2. UNCHANGED <<knocking, chatter, up>>
      BY <1>6 DEF ChatHear
    <2>. QED
      BY <2>1, <2>2 DEF Knocks
  <1>7. ASSUME NEW c \in Chatters, ChatQuit(c) PROVE OwnLines'
    <2>1. /\ UNCHANGED <<knocking, up, down, heard>>
          /\ \A d \in Chatters : chatter'[d] = "home" => chatter[d] = "home"
      BY <1>7 DEF ChatQuit, ChatTypeOK
    <2>. QED
      BY <2>1 DEF Got, Knocks
  <1>. QED
    BY <1>1, <1>2, <1>3, <1>4, <1>5, <1>6, <1>7 DEF ChatNext, ChatServer, ChatClient

\* A client that was accepted at this moment is to hear what is said from now on.
LEMMA JustAccepted ==
  ASSUME ChatTypeOK', NEW c \in Chatters, Got(c)' = <<>>, since'[c] = Len(log')
  PROVE  Follows(c)'
  <1>1. OfOthers(c)' = {}
    <2>1. Len(log') \in Nat
      BY DEF ChatTypeOK
    <2>. QED
      BY <2>1 DEF OfOthers
  <1>2. Cardinality(OfOthers(c)') = 0
    BY <1>1, FS_EmptySet
  <1>3. Len(Got(c)') = 0
    OBVIOUS
  <1>. QED
    BY <1>1, <1>2, <1>3 DEF Follows

LEMMA FollowsStep ==
  ASSUME ChatTypeOK, ChatTypeOK', OnceConnected, OnceConnected', OwnLines, OwnLines',
         OneConversation, ChatNext, NEW d \in Chatters
  PROVE  Follows(d)'
  <1>0. /\ Follows(d)
        /\ heard[d] \in Seq(Record) /\ down[d] \in Seq(Record) /\ Got(d) \in Seq(Record)
    <2>1. heard[d] \in Seq(Record) /\ down[d] \in Seq(Record)
      BY DEF ChatTypeOK
    <2>. QED
      BY <2>1, FollowsIs, Joined DEF Got
  <1>1. CASE ChatPoll
    <2>1. UNCHANGED <<chatServer, chatter, up, down, heard, log>> /\ Got(d)' = Got(d)
      BY <1>1 DEF ChatPoll, Got
    <2>2. CASE (Served(d)' <=> Served(d)) /\ since'[d] = since[d]
      <3>1. OfOthers(d)' = OfOthers(d)
        BY <2>1, <2>2 DEF OfOthers
      <3>2. \A j : Nth(d, j)' = Nth(d, j)
        BY <3>1 DEF Nth
      <3>. QED
        BY <1>0, <2>1, <2>2, <3>1, <3>2 DEF Follows
    <2>3. CASE Served(d)' /\ since'[d] = Len(log) /\ Knocks(d)
      <3>1. Got(d)' = <<>>
        BY <2>1, <2>3 DEF OwnLines
      <3>. QED
        BY <2>1, <2>3, <3>1, JustAccepted
    <2>. QED
      BY <1>1, <2>2, <2>3, PollIs
  <1>2. CASE ChatPass
    <2>1. PICK k \in ready, c \in Chatters, line \in Line :
             /\ k \in 1..Len(nsFDs) /\ nsFDs[k] = c /\ up[c] # <<>> /\ line.by = c
             /\ up' = [up EXCEPT ![c] = Tail(@)]
             /\ log' = Append(log, [from |-> k, line |-> line])
             /\ [from |-> k, line |-> line] \in Record
             /\ nsFDs' = [nsFDs EXCEPT ![k] = IF line.text = "exit" THEN Nobody ELSE @]
             /\ ready' = ready \ {k} /\ chatServer = "up" /\ chatServer' \in {"up", "dead"}
             /\ down' \in [Chatters -> Seq(Record)] /\ unread' \in [Chatters -> BOOLEAN]
             /\ UNCHANGED <<knocking, chatter, lines, heard, since>>
             /\ \A e \in Chatters :
                   \/ /\ down'[e] = down[e]
                      /\ chatter[e] # "gone" /\ Served(e) /\ e # c => chatServer' # "up"
                   \/ /\ down'[e] = Append(down[e], [from |-> k, line |-> line])
                      /\ Served(e) /\ e # c
      BY <1>2, PassIs, Zenon
    <2>2. PICK r \in Record : r = [from |-> k, line |-> line] /\ r.line.by = c
      BY <2>1
    <2>3. Served(d)' => Served(d)
      <3>1. PICK x \in {Nobody, nsFDs[k]} : nsFDs' = [nsFDs EXCEPT ![k] = x]
        BY <2>1
      <3>. QED
        BY <2>1, <3>1, SlotGivenUp
    <2>4. CASE d = c
      <3>1. Got(d)' = Got(d)
        BY <2>1, <2>4 DEF Got
      <3>. QED
        BY <1>0, <2>1, <2>2, <2>3, <2>4, <3>1, OwnLinePassed
    <2>5. CASE d # c
      <3>1. \/ Got(d)' = Got(d) /\ (chatter[d] = "on" /\ Served(d) => chatServer' # "up")
            \/ Got(d)' = Append(Got(d), r) /\ Served(d)
        <4>1. CASE down'[d] = down[d] /\ (chatter[d] # "gone" /\ Served(d) /\ d # c => chatServer' # "up")
          BY <2>1, <2>5, <4>1 DEF Got
        <4>2. CASE down'[d] = Append(down[d], r) /\ Served(d)
          <5>0. heard[d] \in Seq(Record) /\ down[d] \in Seq(Record) /\ r \in Record
            BY <1>0
          <5>1. \A s, t \in Seq(Record) : s \o Append(t, r) = Append(s \o t, r)
            BY ONLY <5>0, SentLast
          <5>2. heard[d] \o Append(down[d], r) = Append(heard[d] \o down[d], r)
            BY <5>0, <5>1, Zenon
          <5>. QED
            BY <2>1, <2>2, <4>2, <5>2 DEF Got
        <4>. QED
          BY <2>1, <2>2, <4>1, <4>2
      <3>. QED
        BY <1>0, <2>1, <2>2, <2>3, <2>5, <3>1, OtherLinePassed
    <2>. QED
      BY <2>4, <2>5
  <1>3. CASE ChatForget
    <2>1. ready # {}
      BY <1>3 DEF ChatForget
    <2>2. PICK k \in 1..Len(nsFDs) : k = Min(ready)
      BY <2>1, TurnIs
    <2>3. /\ nsFDs' = [nsFDs EXCEPT ![k] = Nobody]
          /\ UNCHANGED <<chatServer, chatter, down, heard, log, since>>
      BY <1>3, <2>2 DEF ChatForget
    <2>4. Served(d)' => Served(d)
      BY <2>3, SlotGivenUp
    <2>5. Got(d)' = Got(d)
      BY <2>3 DEF Got
    <2>. QED
      BY <1>0, <2>3, <2>4, <2>5, FollowsStill
  <1>4. ASSUME NEW c \in Chatters, ChatConnect(c) PROVE Follows(d)'
    <2>1. /\ UNCHANGED <<chatServer, nsFDs, down, heard, log, since>>
          /\ chatter[c] = "home" /\ d # c => chatter'[d] = chatter[d]
      BY <1>4 DEF ChatConnect, ChatTypeOK
    <2>2. Got(d)' = Got(d) /\ (Served(d)' <=> Served(d))
      BY <2>1 DEF Got, Served
    <2>3. CASE d = c
      <3>1. Got(d)' = <<>> /\ ~Served(d)'
        BY <1>4, <2>2, <2>3 DEF ChatConnect, OwnLines, OnceConnected
      <3>. QED
        BY <3>1, NothingYet
    <2>4. CASE d # c
      BY <1>0, <1>4, <2>1, <2>2, <2>4, FollowsStill DEF ChatConnect
    <2>. QED
      BY <2>3, <2>4
  <1>5. ASSUME NEW c \in Chatters,
               ChatHear(c) \/ ChatQuit(c) \/ \E text \in Texts : ChatSay(c, text)
        PROVE  Follows(d)'
    <2>1. /\ UNCHANGED <<chatServer, nsFDs, log, since>>
          /\ chatter'[d] = "on" => chatter[d] = "on"
      BY <1>5 DEF ChatHear, ChatQuit, ChatSay, ChatTypeOK
    <2>2. Served(d)' <=> Served(d)
      BY <2>1 DEF Served
    <2>3. Got(d)' = Got(d)
      <3>1. CASE ChatHear(c)
        BY <3>1, HearIs
      <3>2. CASE ~ChatHear(c)
        BY <1>5, <3>2 DEF ChatQuit, ChatSay, Got
      <3>. QED
        BY <3>1, <3>2
    <2>. QED
      BY <1>0, <2>1, <2>2, <2>3, FollowsStill
  <1>. QED
    BY <1>1, <1>2, <1>3, <1>4, <1>5 DEF ChatNext, ChatServer, ChatClient

\* The whole of what the chat server's proof carries along: types, that a client
\* is in one place only, whose lines are on their way, and the conversation.
THEOREM ChatInvariant == ChatSpec => []ChatInv
  <1>1. ChatInit => ChatInv
    <2> SUFFICES ASSUME ChatInit PROVE ChatInv
      OBVIOUS
    <2>1. ChatTypeOK
      <3>1. <<>> \in Seq(Chatters) /\ <<>> \in Seq(Chatters \cup {Nobody}) /\ <<>> \in Seq(Line) /\ <<>> \in Seq(Record)
        BY QueueTypes
      <3>2. Len(log) = 0
        BY DEF ChatInit
      <3>. QED
        BY <3>1, <3>2 DEF ChatInit, ChatTypeOK
    <2>2. \A c \in Chatters : ~Served(c) /\ ~Knocks(c)
      BY DEF ChatInit, Served, Knocks
    <2>3. OnceConnected
      BY <2>2 DEF ChatInit, OnceConnected
    <2>4. \A c \in Chatters : Got(c) = <<>>
      BY DEF ChatInit, Got
    <2>5. OwnLines
      BY <2>4 DEF ChatInit, OwnLines
    <2>6. OneConversation
      BY DEF ChatInit, OneConversation
    <2>. QED
      BY <2>1, <2>3, <2>5, <2>6 DEF ChatInv
  <1>2. ChatInv /\ [ChatNext]_chatVars => ChatInv'
    <2> SUFFICES ASSUME ChatInv, [ChatNext]_chatVars PROVE ChatInv'
      OBVIOUS
    <2>1. ChatTypeOK /\ OnceConnected /\ OwnLines /\ OneConversation
      BY DEF ChatInv
    <2>2. CASE ChatNext
      <3>1. ChatTypeOK' /\ OnceConnected' /\ OwnLines'
        BY <2>1, <2>2, ChatTypeStep, OnceStep, OwnStep
      <3>2. \A d \in Chatters : Follows(d)'
        BY <2>1, <2>2, <3>1, FollowsStep
      <3>. QED
        BY <3>1, <3>2, FollowsIsNext DEF ChatInv
    <2>3. CASE UNCHANGED chatVars
      <3>1. ChatTypeOK' /\ OnceConnected' /\ OwnLines'
        BY <2>1, <2>3 DEF chatVars, ChatTypeOK, OnceConnected, OwnLines, Served, Knocks, Got
      <3>2. OneConversation'
        <4> SUFFICES ASSUME NEW d \in Chatters PROVE Follows(d)'
          BY FollowsIsNext
        <4>1. Follows(d)
          BY <2>1, FollowsIs
        <4>2. Got(d)' = Got(d) /\ (Served(d)' <=> Served(d)) /\ UNCHANGED <<log, since, chatter, chatServer>>
          BY <2>3 DEF chatVars, Served, Got
        <4>. QED
          BY <4>1, <4>2, FollowsStill
      <3>. QED
        BY <3>1, <3>2 DEF ChatInv
    <2>. QED
      BY <2>2, <2>3
  <1>. QED
    BY <1>1, <1>2, PTL DEF ChatSpec

\* All clients of the chat server hear one conversation: who is served has got
\* exactly the lines of the others since it was accepted, in the order the
\* server read them, and who is not, a beginning of them; for any number of
\* clients and of lines (sendToAllClients, server.c 107-124).
THEOREM OneConversationAlways == ChatSpec => []OneConversation
  <1>1. ChatInv => OneConversation
    BY DEF ChatInv
  <1>. QED
    BY <1>1, ChatInvariant, PTL

-----------------------------------------------------------------------------
(* The popen server: what a client has got, and what may follow *)

LEMMA NothingTold ==
  ASSUME NEW first \in Nat
  PROVE  Story(<<>>, first, 0)
  BY DEF Story

\* While only texts have come, the next text or "toEcho" may follow.
LEMMA NewsFollows ==
  ASSUME NEW got \in Seq(Output), NEW first \in Nat, Story(got, first, Len(got))
  PROVE  /\ Story(Append(got, News(first + Len(got) + 1)), first, Len(got) + 1)
         /\ Story(Append(got, ToEcho), first, Len(got))
  <1>1. News(first + Len(got) + 1) \in Output /\ ToEcho \in Output
    BY DEF Output, News, ToEcho
  <1>2. ASSUME NEW r \in Output
        PROVE  /\ Len(Append(got, r)) = Len(got) + 1 /\ Append(got, r)[Len(got) + 1] = r
               /\ \A k \in 1..Len(got) : Append(got, r)[k] = got[k]
               /\ ((Len(got) + 1) + 2)..(Len(got) + 1) = {} /\ (Len(got) + 2)..(Len(got) + 1) = {}
    BY AppendItem, QueueTypes
  <1>3. ASSUME NEW r \in Output, r = News(first + Len(got) + 1)
        PROVE  Story(Append(got, r), first, Len(got) + 1)
    <2>1. \A k \in 1..(Len(got) + 1) : Append(got, r)[k] = News(first + k)
      <3> TAKE k \in 1..(Len(got) + 1)
      <3>1. CASE k \in 1..Len(got)
        BY <1>2, <3>1 DEF Story
      <3>2. CASE k = Len(got) + 1
        <4>1. first + k = first + Len(got) + 1
          BY <3>2
        <4>. QED
          BY <1>2, <1>3, <3>2, <4>1
      <3>. QED
        BY <3>1, <3>2
    <2>. QED
      BY <1>2, <2>1 DEF Story
  <1>4. ASSUME NEW r \in Output, r = ToEcho
        PROVE  Story(Append(got, r), first, Len(got))
    BY <1>2, <1>4 DEF Story
  <1>. QED
    BY <1>1, <1>3, <1>4

\* After "toEcho", the answer to the first word that has not been answered.
LEMMA EchoFollows ==
  ASSUME NEW got \in Seq(Output), NEW first \in Nat, NEW n \in Nat, n < Len(got),
         Story(got, first, n), NEW m \in Nat, Len(got) = n + m
  PROVE  Story(Append(got, Echoed(m)), first, n)
  <1>1. PICK r \in Output : r = Echoed(m)
    BY DEF Output, Echoed
  <1>2. /\ Len(Append(got, r)) = Len(got) + 1 /\ Append(got, r)[Len(got) + 1] = r
        /\ \A k \in 1..Len(got) : Append(got, r)[k] = got[k]
    BY AppendItem, QueueTypes
  <1>3. \A k \in 1..n : Append(got, r)[k] = News(first + k)
    BY <1>2 DEF Story
  <1>4. Append(got, r)[n + 1] = ToEcho
    BY <1>2 DEF Story
  <1>5. ASSUME NEW k \in (n + 2)..(Len(got) + 1)
        PROVE  Append(got, r)[k] = Echoed(k - (n + 1))
    <2>1. CASE k \in (n + 2)..Len(got)
      BY <1>2, <2>1 DEF Story
    <2>2. CASE k = Len(got) + 1
      <3>1. k - (n + 1) = m
        BY <2>2
      <3>. QED
        BY <1>1, <1>2, <2>2, <3>1
    <2>3. k \in (n + 2)..Len(got) \/ k = Len(got) + 1
      <3>1. Len(got) \in Nat
        OBVIOUS
      <3>. QED
        BY <3>1
    <2>. QED
      BY <2>1, <2>2, <2>3
  <1>. QED
    BY <1>1, <1>2, <1>3, <1>4, <1>5 DEF Story

\* What has been delivered to a client, as a sequence.
LEMMA DeliveredType ==
  ASSUME PopenTypeOK, NEW c \in Audience
  PROVE  /\ printed[c] \in Seq(Output) /\ toMember[c] \in Seq(Output)
         /\ Delivered(c) \in Seq(Output) /\ Len(Delivered(c)) \in Nat
  <1>1. printed[c] \in Seq(Output) /\ toMember[c] \in Seq(Output)
    BY DEF PopenTypeOK
  <1>2. \A s, t \in Seq(Output) : s \o t \in Seq(Output)
    BY Joined
  <1>3. Delivered(c) \in Seq(Output)
    BY <1>1, <1>2 DEF Delivered
  <1>. QED
    BY <1>1, <1>3

\* A write of the server.
LEMMA PostIs ==
  ASSUME PopenTypeOK, NEW c \in Audience, NEW r \in Output, NEW after, Post(c, r, after),
         UNCHANGED <<member, printed>>
  PROVE  /\ toMember' \in [Audience -> Seq(Output)] /\ wasted' \in [Audience -> BOOLEAN]
         /\ popen' = after \/ popen' = "dead"
         /\ \A d \in Audience : d # c => Delivered(d)' = Delivered(d)
         /\ IF member[c] = "gone" THEN Delivered(c)' = Delivered(c)
            ELSE Delivered(c)' = Append(Delivered(c), r) /\ popen' = after
  <1>1. /\ toMember \in [Audience -> Seq(Output)] /\ wasted \in [Audience -> BOOLEAN]
        /\ Append(toMember[c], r) \in Seq(Output)
    BY QueueTypes DEF PopenTypeOK
  <1>2. CASE member[c] = "gone"
    <2>1. toMember' = toMember /\ (popen' = after \/ popen' = "dead") /\ wasted' \in [Audience -> BOOLEAN]
      BY <1>1, <1>2 DEF Post
    <2>. QED
      BY <1>1, <1>2, <2>1 DEF Delivered
  <1>3. CASE member[c] # "gone"
    <2>1. /\ toMember' = [toMember EXCEPT ![c] = Append(@, r)] /\ popen' = after /\ wasted' = wasted
      BY <1>3 DEF Post
    <2>2. toMember'[c] = Append(toMember[c], r) /\ \A d \in Audience : d # c => toMember'[d] = toMember[d]
      BY <1>1, <2>1
    <2>3. Delivered(c)' = Append(Delivered(c), r)
      <3>1. \A s, t \in Seq(Output) : s \o Append(t, r) = Append(s \o t, r)
        BY SentLast
      <3>2. printed[c] \in Seq(Output) /\ toMember[c] \in Seq(Output)
        BY DeliveredType
      <3>3. printed[c] \o Append(toMember[c], r) = Append(printed[c] \o toMember[c], r)
        BY <3>1, <3>2, Zenon
      <3>. QED
        BY <2>2, <3>3 DEF Delivered
    <2>4. toMember' \in [Audience -> Seq(Output)]
      BY <1>1, <2>1
    <2>. QED
      BY <1>1, <1>3, <2>1, <2>2, <2>3, <2>4 DEF Delivered
  <1>. QED
    BY <1>2, <1>3

-----------------------------------------------------------------------------
(* The popen server: its steps *)

LEMMA NewsIsOutput ==
  /\ ToEcho \in Output /\ \A n \in Nat : News(n) \in Output /\ Echoed(n) \in Output
  BY DEF Output, News, Echoed, ToEcho

\* The client that is handed over is the first that was not.
LEMMA HandlerIs ==
  ASSUME PopenTypeOK, MaskedWhileSending, sigHandler
  PROVE  \E c \in Audience :
            /\ startClient + 1 \in 1..Len(clientFDs) /\ c = clientFDs[startClient + 1]
            /\ startClient' = startClient + 1 /\ left_at' = [left_at EXCEPT ![c] = said]
            /\ Post(c, ToEcho, popen) /\ popen \notin {"send", "accept", "dead"}
            /\ UNCHANGED <<overlaid, readable, listenerSet, masked, queued, clientFDs, i, said,
                           raised, clientVars, toEcho, childOver, entered>>
            /\ usr1' = FALSE
  <1>1. startClient + 1 \in 1..Len(clientFDs)
    BY DEF sigHandler, PopenTypeOK
  <1>2. PICK c \in Audience : c = clientFDs[startClient + 1]
    BY <1>1, ItemType DEF PopenTypeOK
  <1>. QED
    BY <1>1, <1>2 DEF sigHandler, MaskedWhileSending

\* Reading takes over what is on its way, and changes nothing of the whole.
LEMMA TakesIs ==
  ASSUME PopenTypeOK, NEW c \in Audience, NEW n \in 1..Len(toMember[c]), Takes(c, n)
  PROVE  /\ printed' \in [Audience -> Seq(Output)] /\ toMember' \in [Audience -> Seq(Output)]
         /\ \A d \in Audience : Delivered(d)' = Delivered(d)
  <1>1. /\ printed \in [Audience -> Seq(Output)] /\ toMember \in [Audience -> Seq(Output)]
    BY DEF PopenTypeOK
  <1>2. PICK p \in Seq(Output), t \in Seq(Output) : p = printed[c] /\ t = toMember[c]
    BY <1>1
  <1>3. PICK a, b : a = p \o SubSeq(t, 1, n) /\ b = SubSeq(t, n + 1, Len(t))
    OBVIOUS
  <1>4. a \o b = p \o t /\ a \in Seq(Output) /\ b \in Seq(Output)
    <2>1. \A x, y \in Seq(Output) : \A z \in 1..Len(y) :
             /\ (x \o SubSeq(y, 1, z)) \o SubSeq(y, z + 1, Len(y)) = x \o y
             /\ x \o SubSeq(y, 1, z) \in Seq(Output) /\ SubSeq(y, z + 1, Len(y)) \in Seq(Output)
             /\ Len(x \o SubSeq(y, 1, z)) = Len(x) + z /\ Len(x \o y) = Len(x) + Len(y)
             /\ Len(x) \in Nat
      BY SplitJoins, Zenon
    <2>2. n \in 1..Len(t)
      BY <1>2
    <2>. QED
      BY <1>3, <2>1, <2>2, Zenon
  <1>5. printed' = [printed EXCEPT ![c] = a] /\ toMember' = [toMember EXCEPT ![c] = b]
    BY <1>2, <1>3 DEF Takes
  <1>6. ASSUME NEW d \in Audience PROVE Delivered(d)' = Delivered(d)
    <2>1. CASE d = c
      BY <1>1, <1>2, <1>4, <1>5, <2>1 DEF Delivered
    <2>2. CASE d # c
      BY <1>1, <1>5, <2>2 DEF Delivered
    <2>. QED
      BY <2>1, <2>2
  <1>. QED
    BY <1>1, <1>4, <1>5, <1>6

LEMMA ReadsAre ==
  ASSUME PopenTypeOK, NEW c \in Audience, MemberListens(c) \/ MemberReads(c)
  PROVE  /\ printed' \in [Audience -> Seq(Output)] /\ toMember' \in [Audience -> Seq(Output)]
         /\ \A d \in Audience : Delivered(d)' = Delivered(d)
         /\ UNCHANGED <<overlaid, popen, readable, listenerSet, usr1, masked, queued, clientFDs,
                        startClient, i, said, raised, saidTo, toEcho, childOver, wasted, entered,
                        left_at>>
  <1>1. PICK n \in 1..Len(toMember[c]) : Takes(c, n)
    <2>1. toMember[c] # <<>> => 1 \in 1..Len(toMember[c])
      BY QueueTypes DEF PopenTypeOK
    <2>. QED
      BY <2>1 DEF MemberListens, MemberReads
  <1>. QED
    BY <1>1, TakesIs DEF Takes

\* The words of a line are numbered from the first that is free.
LEMMA TypesIs ==
  ASSUME PopenTypeOK, NEW c \in Audience, NEW line \in EchoLines, MemberTypes(c, line)
  PROVE  /\ toEcho' \in [Audience -> Seq(TypedWord)] /\ saidTo' \in [Audience -> Nat]
         /\ \A d \in Audience : d # c => toEcho'[d] = toEcho[d] /\ saidTo'[d] = saidTo[d]
         /\ Len(line) \in Nat /\ saidTo'[c] = saidTo[c] + Len(line)
         /\ Len(toEcho'[c]) = Len(toEcho[c]) + Len(line)
         /\ \A k \in 1..Len(toEcho[c]) : toEcho'[c][k] = toEcho[c][k]
         /\ \A k \in 1..Len(line) : toEcho'[c][Len(toEcho[c]) + k].n = saidTo[c] + k
  <1>1. /\ toEcho \in [Audience -> Seq(TypedWord)] /\ saidTo \in [Audience -> Nat]
        /\ line \in Seq({"word", "exit"}) /\ Len(line) \in Nat
    BY PopenAssumption DEF PopenTypeOK
  <1>2. PICK added : added = [k \in 1..Len(line) |-> [n |-> saidTo[c] + k, text |-> line[k]]]
    OBVIOUS
  <1>3. /\ added \in Seq(TypedWord) /\ Len(added) = Len(line)
        /\ \A k \in 1..Len(line) : added[k].n = saidTo[c] + k
    <2>1. ASSUME NEW k \in 1..Len(line)
          PROVE  [n |-> saidTo[c] + k, text |-> line[k]] \in TypedWord
      <3>1. line[k] \in {"word", "exit"} /\ saidTo[c] + k \in Nat
        BY <1>1, ItemType
      <3>. QED
        BY <3>1 DEF TypedWord
    <2>. QED
      BY <1>1, <1>2, <2>1
  <1>4. toEcho' = [toEcho EXCEPT ![c] = @ \o added]
    BY <1>2 DEF MemberTypes
  <1>5. /\ toEcho[c] \o added \in Seq(TypedWord)
        /\ Len(toEcho[c] \o added) = Len(toEcho[c]) + Len(added)
        /\ \A k \in 1..Len(toEcho[c]) : (toEcho[c] \o added)[k] = toEcho[c][k]
        /\ \A k \in 1..Len(added) : (toEcho[c] \o added)[Len(toEcho[c]) + k] = added[k]
    <2>1. PICK s \in Seq(TypedWord) : s = toEcho[c]
      BY <1>1
    <2>2. /\ s \o added \in Seq(TypedWord) /\ Len(s \o added) = Len(s) + Len(added)
          /\ \A k \in 1..Len(s) : (s \o added)[k] = s[k]
          /\ \A k \in 1..Len(added) : (s \o added)[Len(s) + k] = added[k]
      <3>1. \A x, y \in Seq(TypedWord) :
               /\ x \o y \in Seq(TypedWord) /\ Len(x \o y) = Len(x) + Len(y)
               /\ \A k \in 1..Len(x) : (x \o y)[k] = x[k]
               /\ \A k \in 1..Len(y) : (x \o y)[Len(x) + k] = y[k]
        BY Joined
      <3>. QED
        BY <1>3, <3>1, Zenon
    <2>. QED
      BY <2>1, <2>2
  <1>6. toEcho'[c] = toEcho[c] \o added
    BY <1>1, <1>4
  <1>7. saidTo' = [saidTo EXCEPT ![c] = @ + Len(line)]
    BY DEF MemberTypes
  <1>. QED
    BY <1>1, <1>3, <1>4, <1>5, <1>6, <1>7

LEMMA PopenTypeStep ==
  ASSUME PopenTypeOK, MaskedWhileSending, PopenNext
  PROVE  PopenTypeOK'
  <1> USE DEF PopenTypeOK
  <1>0. Len(clientFDs) \in Nat /\ startClient \in Nat
    OBVIOUS
  <1>1. CASE PopenTurns
    BY <1>1 DEF PopenTurns, clientVars
  <1>13. CASE PopenExits
    BY <1>13 DEF PopenExits, clientVars
  <1>14. CASE P4Signals
    BY <1>14 DEF P4Signals, clientVars
  <1>12. CASE PopenPoll
    <2>1. readable' \subseteq Writers /\ listenerSet' \in BOOLEAN
      BY <1>12 DEF PopenPoll
    <2>. QED
      BY <1>12, <2>1 DEF PopenPoll, clientVars
  <1>2. CASE sigHandlerIdle
    BY <1>2 DEF sigHandlerIdle, clientVars
  <1>3. CASE PopenReads
    <2>1. readable' \subseteq Writers /\ said' \in Nat /\ i' \in Nat
      BY <1>0, <1>3 DEF PopenReads
    <2>. QED
      BY <1>3, <2>1 DEF PopenReads, clientVars
  <1>4. CASE PopenSends
    <2>1. CASE i <= Len(clientFDs)
      <3>1. i \in 1..Len(clientFDs) /\ clientFDs[i] \in Audience
        <4>1. i \in 1..Len(clientFDs)
          BY <1>4, <2>1 DEF PopenSends, MaskedWhileSending
        <4>. QED
          BY <4>1, ItemType
      <3>2. Post(clientFDs[i], News(said), "send") /\ News(said) \in Output
        BY <1>4, <2>1, NewsIsOutput DEF PopenSends
      <3>3. /\ toMember' \in [Audience -> Seq(Output)] /\ wasted' \in [Audience -> BOOLEAN]
            /\ popen' \in {"send", "dead"}
        <4>1. UNCHANGED <<member, printed>>
          BY <1>4 DEF PopenSends, clientVars
        <4>. HIDE DEF PopenTypeOK
        <4>. QED
          BY <3>1, <3>2, <4>1, PostIs
      <3>4. i' \in Nat /\ masked' = masked
        BY <1>4, <2>1, <3>1 DEF PopenSends
      <3>5. UNCHANGED <<overlaid, readable, listenerSet, usr1, queued, clientFDs, startClient,
                        said, raised, clientVars, toEcho, childOver, entered, left_at>>
        BY <1>4 DEF PopenSends
      <3>. QED
        BY <3>3, <3>4, <3>5 DEF clientVars
    <2>2. CASE ~(i <= Len(clientFDs))
      BY <1>4, <2>2 DEF PopenSends, clientVars
    <2>. QED
      BY <2>1, <2>2
  <1>5. CASE PopenAccepts
    <2>1. /\ Head(queued) \in Audience /\ Tail(queued) \in Seq(Audience)
          /\ Append(clientFDs, Head(queued)) \in Seq(Audience)
          /\ Len(Append(clientFDs, Head(queued))) = Len(clientFDs) + 1
      BY <1>5, QueueTypes DEF PopenAccepts
    <2>2. /\ clientFDs' \in Seq(Audience) /\ Len(clientFDs') = Len(clientFDs) + 1
          /\ queued' \in Seq(Audience) /\ entered' \in [Audience -> Nat]
          /\ popen' = "poll" /\ masked' = FALSE
          /\ UNCHANGED <<overlaid, readable, listenerSet, usr1, startClient, i, said, raised,
                   clientVars, toMember, toEcho, childOver, wasted, left_at>>
      BY <1>5, <2>1 DEF PopenAccepts
    <2>3. startClient' \in 0..Len(clientFDs')
      BY <1>0, <2>2
    <2>. QED
      BY <2>2, <2>3 DEF clientVars
  <1>6. CASE sigHandler
    <2>1. PICK c \in Audience :
             /\ startClient + 1 \in 1..Len(clientFDs)
             /\ startClient' = startClient + 1 /\ left_at' = [left_at EXCEPT ![c] = said]
             /\ Post(c, ToEcho, popen)
             /\ UNCHANGED <<overlaid, readable, listenerSet, masked, queued, clientFDs, i, said,
                            raised, clientVars, toEcho, childOver, entered>>
             /\ usr1' = FALSE
      BY <1>6, HandlerIs
    <2>2. /\ toMember' \in [Audience -> Seq(Output)] /\ wasted' \in [Audience -> BOOLEAN]
          /\ popen' \in {popen, "dead"}
      <3>. HIDE DEF PopenTypeOK
      <3>. QED
        BY <2>1, PostIs, NewsIsOutput DEF clientVars
    <2>3. startClient' \in 0..Len(clientFDs') /\ left_at' \in [Audience -> Nat]
      BY <1>0, <2>1
    <2>. QED
      BY <2>1, <2>2, <2>3 DEF clientVars
  <1>7. ASSUME NEW c \in Audience, EchoAnswers(c) PROVE PopenTypeOK'
    <2>1. toEcho[c] # <<>> /\ toEcho[c] \in Seq(TypedWord)
      BY <1>7 DEF EchoAnswers
    <2>2. Tail(toEcho[c]) \in Seq(TypedWord) /\ Head(toEcho[c]).n \in Nat
      <3>1. Tail(toEcho[c]) \in Seq(TypedWord) /\ Head(toEcho[c]) \in TypedWord
        BY <2>1, QueueTypes
      <3>. QED
        BY <3>1 DEF TypedWord
    <2>3. Append(toMember[c], Echoed(Head(toEcho[c]).n)) \in Seq(Output)
      BY <2>2, NewsIsOutput, QueueTypes
    <2>4. toMember' \in [Audience -> Seq(Output)] /\ childOver' \subseteq Audience
      BY <1>7, <2>3 DEF EchoAnswers
    <2>. QED
      BY <1>7, <2>2, <2>4 DEF EchoAnswers, clientVars
  <1>8. ASSUME NEW c \in Audience, MemberConnects(c) PROVE PopenTypeOK'
    <2>1. Append(queued, c) \in Seq(Audience)
      BY QueueTypes
    <2>. QED
      BY <1>8, <2>1 DEF MemberConnects
  <1>9. ASSUME NEW c \in Audience, MemberListens(c) \/ MemberReads(c) PROVE PopenTypeOK'
    <2>1. /\ printed' \in [Audience -> Seq(Output)] /\ toMember' \in [Audience -> Seq(Output)]
          /\ UNCHANGED <<overlaid, popen, readable, listenerSet, usr1, masked, queued, clientFDs,
                         startClient, i, said, raised, saidTo, toEcho, childOver, wasted, entered,
                         left_at>>
      BY <1>9, ReadsAre
    <2>2. member' \in [Audience -> {"home", "listening", "echoing", "waiting", "gone"}]
      BY <1>9 DEF MemberListens, MemberReads
    <2>. QED
      BY <2>1, <2>2
  <1>10. ASSUME NEW c \in Audience, MemberGoes(c) \/ MemberMeetsEnd(c) PROVE PopenTypeOK'
    BY <1>10 DEF MemberGoes, MemberMeetsEnd
  <1>11. ASSUME NEW c \in Audience, NEW line \in EchoLines, MemberTypes(c, line) PROVE PopenTypeOK'
    <2>1. /\ toEcho' \in [Audience -> Seq(TypedWord)] /\ saidTo' \in [Audience -> Nat]
      BY <1>11, TypesIs
    <2>2. member' \in [Audience -> {"home", "listening", "echoing", "waiting", "gone"}]
      BY <1>11 DEF MemberTypes
    <2>. QED
      BY <1>11, <2>1, <2>2 DEF MemberTypes
  <1>. QED
    BY <1>1, <1>2, <1>3, <1>4, <1>5, <1>6, <1>7, <1>8, <1>9, <1>10, <1>11, <1>12, <1>13, <1>14
       DEF PopenNext, PopenMain, PopenClient

LEMMA MaskedStep ==
  ASSUME PopenTypeOK, MaskedWhileSending, PopenNext
  PROVE  MaskedWhileSending'
  <1> USE DEF MaskedWhileSending, PopenTypeOK
  <1>1. CASE PopenPoll \/ PopenTurns \/ PopenExits \/ P4Signals \/ sigHandlerIdle \/ PopenAccepts
    BY <1>1 DEF PopenPoll, PopenTurns, PopenExits, P4Signals, sigHandlerIdle, PopenAccepts
  <1>2. CASE PopenReads
    BY <1>2 DEF PopenReads
  <1>3. CASE PopenSends
    <2>1. CASE i <= Len(clientFDs)
      <3>1. popen' \in {"send", "dead"} /\ masked' = masked /\ i' = i + 1 /\ startClient' = startClient
        BY <1>3, <2>1 DEF PopenSends, Post
      <3>. QED
        BY <1>3, <3>1 DEF PopenSends
    <2>2. CASE ~(i <= Len(clientFDs))
      BY <1>3, <2>2 DEF PopenSends
    <2>. QED
      BY <2>1, <2>2
  <1>4. CASE sigHandler
    <2>1. popen' \in {popen, "dead"} /\ popen \notin {"send", "accept"} /\ masked' = masked
      BY <1>4 DEF sigHandler, Post
    <2>. QED
      BY <2>1
  <1>5. ASSUME NEW c \in Audience, PopenClient(c) \/ EchoAnswers(c) PROVE MaskedWhileSending'
    <2>1. UNCHANGED <<popen, masked, startClient, i>>
      BY <1>5 DEF PopenClient, MemberConnects, MemberListens, MemberReads, Takes, MemberMeetsEnd,
         MemberGoes, MemberTypes, EchoAnswers
    <2>. QED
      BY <2>1
  <1>. QED
    BY <1>1, <1>2, <1>3, <1>4, <1>5 DEF PopenNext, PopenMain

\* What a child does with the first word on its way: it ends, or it answers.
LEMMA EchoIs ==
  ASSUME PopenTypeOK, NEW c \in Audience, EchoAnswers(c)
  PROVE  /\ \A d \in Audience : d # c => Delivered(d)' = Delivered(d)
         /\ \/ Delivered(c)' = Delivered(c) /\ (member[c] = "gone" \/ c \in childOver')
            \/ member[c] # "gone" /\ Delivered(c)' = Append(Delivered(c), Echoed(Head(toEcho[c]).n))
         /\ toEcho[c] # <<>> /\ toEcho[c] \in Seq(TypedWord)
         /\ toEcho' = [toEcho EXCEPT ![c] = Tail(@)]
         /\ HandedOver(c) /\ Accepted(c)
         /\ c \notin childOver /\ \A d \in Audience : d # c => (d \in childOver' <=> d \in childOver)
  <1>1. /\ toEcho[c] # <<>> /\ toEcho[c] \in Seq(TypedWord)
        /\ toEcho' = [toEcho EXCEPT ![c] = Tail(@)] /\ HandedOver(c) /\ printed' = printed
        /\ c \notin childOver
        /\ childOver' = childOver \cup {d \in {c} : Head(toEcho[c]).text = "exit"}
    BY DEF EchoAnswers, PopenTypeOK, clientVars
  <1>2. Accepted(c)
    <2>1. startClient \in 0..Len(clientFDs) /\ Len(clientFDs) \in Nat
      BY DEF PopenTypeOK
    <2>2. \A k \in 1..startClient : k \in 1..Len(clientFDs)
      BY <2>1
    <2>. QED
      BY <1>1, <2>2 DEF HandedOver, Accepted
  <1>3. CASE toMember' = toMember /\ (member[c] = "gone" \/ Head(toEcho[c]).text = "exit")
    BY <1>1, <1>2, <1>3 DEF Delivered
  <1>4. CASE /\ toMember' = [toMember EXCEPT ![c] = Append(@, Echoed(Head(toEcho[c]).n))]
             /\ member[c] # "gone"
    <2>1. /\ toMember'[c] = Append(toMember[c], Echoed(Head(toEcho[c]).n))
          /\ \A d \in Audience : d # c => toMember'[d] = toMember[d]
      BY <1>4 DEF PopenTypeOK
    <2>2. Head(toEcho[c]) \in TypedWord
      BY <1>1, QueueTypes
    <2>3. Echoed(Head(toEcho[c]).n) \in Output
      BY <2>2, NewsIsOutput DEF TypedWord
    <2>4. PICK r \in Output : r = Echoed(Head(toEcho[c]).n)
      BY <2>3
    <2>5. \A s, t \in Seq(Output) : s \o Append(t, r) = Append(s \o t, r)
      BY SentLast
    <2>6. printed[c] \in Seq(Output) /\ toMember[c] \in Seq(Output)
      BY DeliveredType
    <2>7. printed[c] \o Append(toMember[c], r) = Append(printed[c] \o toMember[c], r)
      BY <2>5, <2>6, Zenon
    <2>. QED
      BY <1>1, <1>2, <1>4, <2>1, <2>4, <2>7 DEF Delivered
  <1>5. \/ toMember' = toMember /\ (member[c] = "gone" \/ Head(toEcho[c]).text = "exit")
        \/ /\ toMember' = [toMember EXCEPT ![c] = Append(@, Echoed(Head(toEcho[c]).n))]
           /\ member[c] # "gone"
    BY DEF EchoAnswers
  <1>. QED
    BY <1>3, <1>4, <1>5

LEMMA TypedStep ==
  ASSUME PopenTypeOK, WordsInOrder, PopenNext
  PROVE  WordsInOrder'
  <1>0. \A d \in Audience : saidTo[d] \in Nat /\ Len(toEcho[d]) \in Nat
    BY DEF PopenTypeOK
  <1>1. CASE PopenMain \/ P4Signals \/ sigHandler \/ sigHandlerIdle
    <2>1. UNCHANGED <<toEcho, saidTo, member>>
      BY <1>1 DEF PopenMain, PopenPoll, PopenReads, PopenSends, PopenTurns, PopenAccepts,
         PopenExits, P4Signals, sigHandler, sigHandlerIdle, clientVars
    <2>. QED
      BY <2>1 DEF WordsInOrder
  <1>2. ASSUME NEW c \in Audience, EchoAnswers(c) PROVE WordsInOrder'
    <2>1. /\ toEcho[c] # <<>> /\ toEcho[c] \in Seq(TypedWord)
          /\ toEcho' = [toEcho EXCEPT ![c] = Tail(@)] /\ UNCHANGED <<saidTo, member>>
      BY <1>2, EchoIs DEF EchoAnswers, clientVars
    <2>2. /\ toEcho'[c] = Tail(toEcho[c]) /\ \A d \in Audience : d # c => toEcho'[d] = toEcho[d]
      BY <2>1 DEF PopenTypeOK
    <2>3. /\ Len(Tail(toEcho[c])) = Len(toEcho[c]) - 1
          /\ \A k \in 1..Len(Tail(toEcho[c])) :
                k + 1 \in 1..Len(toEcho[c]) /\ Tail(toEcho[c])[k] = toEcho[c][k + 1]
      BY <2>1, TailItem, QueueTypes
    <2>4. ASSUME NEW k \in 1..Len(toEcho'[c])
          PROVE  toEcho'[c][k].n = (saidTo[c] - Len(toEcho'[c])) + k
      <3>1. toEcho'[c][k].n = (saidTo[c] - Len(toEcho[c])) + (k + 1)
        BY <2>2, <2>3 DEF WordsInOrder
      <3>. QED
        BY <1>0, <2>2, <2>3, <3>1
    <2>5. Len(toEcho'[c]) <= saidTo[c]
      BY <1>0, <2>2, <2>3 DEF WordsInOrder
    <2>. QED
      BY <2>1, <2>2, <2>4, <2>5 DEF WordsInOrder
  <1>3. ASSUME NEW c \in Audience,
               MemberConnects(c) \/ MemberListens(c) \/ MemberReads(c) \/ MemberMeetsEnd(c)
               \/ MemberGoes(c)
        PROVE  WordsInOrder'
    <2>1. /\ UNCHANGED <<toEcho, saidTo>>
          /\ \A d \in Audience : member'[d] \in {"home", "listening"}
                                    => member[d] \in {"home", "listening"}
      BY <1>3 DEF MemberConnects, MemberListens, MemberReads, Takes, MemberMeetsEnd, MemberGoes,
         PopenTypeOK
    <2>. QED
      BY <2>1 DEF WordsInOrder
  <1>4. ASSUME NEW c \in Audience, NEW line \in EchoLines, MemberTypes(c, line)
        PROVE  WordsInOrder'
    <2>1. /\ \A d \in Audience : d # c => toEcho'[d] = toEcho[d] /\ saidTo'[d] = saidTo[d]
          /\ Len(line) \in Nat /\ saidTo'[c] = saidTo[c] + Len(line)
          /\ Len(toEcho'[c]) = Len(toEcho[c]) + Len(line)
          /\ \A k \in 1..Len(toEcho[c]) : toEcho'[c][k] = toEcho[c][k]
          /\ \A k \in 1..Len(line) : toEcho'[c][Len(toEcho[c]) + k].n = saidTo[c] + k
      BY <1>4, TypesIs
    <2>2. /\ member'[c] \notin {"home", "listening"}
          /\ \A d \in Audience : d # c => member'[d] = member[d]
      BY <1>4 DEF MemberTypes, PopenTypeOK
    <2>3. ASSUME NEW k \in 1..Len(toEcho'[c])
          PROVE  toEcho'[c][k].n = (saidTo'[c] - Len(toEcho'[c])) + k
      <3>1. CASE k \in 1..Len(toEcho[c])
        <4>1. toEcho'[c][k].n = (saidTo[c] - Len(toEcho[c])) + k
          BY <2>1, <3>1 DEF WordsInOrder
        <4>. QED
          BY <1>0, <2>1, <4>1
      <3>2. CASE k \notin 1..Len(toEcho[c])
        <4>1. PICK l \in 1..Len(line) : k = Len(toEcho[c]) + l
          <5>1. k - Len(toEcho[c]) \in 1..Len(line) /\ k = Len(toEcho[c]) + (k - Len(toEcho[c]))
            BY <1>0, <2>1, <3>2
          <5>. QED
            BY <5>1
        <4>2. toEcho'[c][k].n = saidTo[c] + l
          BY <2>1, <4>1
        <4>. QED
          BY <1>0, <2>1, <4>1, <4>2
      <3>. QED
        BY <3>1, <3>2
    <2>4. Len(toEcho'[c]) <= saidTo'[c]
      BY <1>0, <2>1 DEF WordsInOrder
    <2>. QED
      BY <2>1, <2>2, <2>3, <2>4 DEF WordsInOrder
  <1>. QED
    BY <1>1, <1>2, <1>3, <1>4 DEF PopenNext, PopenClient

\* One more client is accepted: the first that is queued.
LEMMA AcceptsIs ==
  ASSUME PopenTypeOK, OneEntry, PopenAccepts
  PROVE  \E c \in Audience :
            /\ clientFDs' = Append(clientFDs, c) /\ queued' = Tail(queued)
            /\ entered' = [entered EXCEPT ![c] = said]
            /\ IsQueued(c) /\ ~Accepted(c) /\ Delivered(c) = <<>> /\ member[c] # "home"
            /\ \A d \in Audience : IsQueued(d)' => IsQueued(d) /\ d # c
            /\ \A k \in 1..Len(clientFDs) : k \in 1..Len(clientFDs') /\ clientFDs'[k] = clientFDs[k]
            /\ clientFDs'[Len(clientFDs) + 1] = c /\ Len(clientFDs) + 1 \in 1..Len(clientFDs')
            /\ \A k \in 1..Len(clientFDs') : k \in 1..Len(clientFDs) \/ k = Len(clientFDs) + 1
            /\ \A j, k \in 1..Len(queued') : queued'[j] = queued'[k] => j = k
  <1>1. queued \in Seq(Audience) /\ queued # <<>>
    BY DEF PopenAccepts, PopenTypeOK
  <1>2. Head(queued) \in Audience /\ Head(queued) = queued[1] /\ 1 \in 1..Len(queued)
    BY <1>1, QueueTypes
  <1>3. PICK c \in Audience : c = Head(queued)
    BY <1>2
  <1>4. clientFDs' = Append(clientFDs, c) /\ queued' = Tail(queued) /\ entered' = [entered EXCEPT ![c] = said]
    BY <1>3 DEF PopenAccepts
  <1>5. IsQueued(c) /\ ~Accepted(c) /\ Delivered(c) = <<>> /\ member[c] # "home"
    BY <1>2, <1>3 DEF IsQueued, OneEntry
  <1>6. \A k \in 1..Len(queued') : k + 1 \in 1..Len(queued) /\ queued'[k] = queued[k + 1]
    BY <1>1, <1>4, TailItem
  <1>7. \A d \in Audience : IsQueued(d)' => IsQueued(d) /\ d # c
    BY <1>2, <1>3, <1>6 DEF IsQueued, OneEntry
  <1>8. \A j, k \in 1..Len(queued') : queued'[j] = queued'[k] => j = k
    <2> SUFFICES ASSUME NEW j \in 1..Len(queued'), NEW k \in 1..Len(queued'), queued'[j] = queued'[k]
                 PROVE  j = k
      OBVIOUS
    <2>1. j + 1 = k + 1
      BY <1>6 DEF OneEntry
    <2>. QED
      BY <2>1
  <1>9. /\ \A k \in 1..Len(clientFDs) : k \in 1..Len(clientFDs') /\ clientFDs'[k] = clientFDs[k]
        /\ clientFDs'[Len(clientFDs) + 1] = c /\ Len(clientFDs) + 1 \in 1..Len(clientFDs')
        /\ \A k \in 1..Len(clientFDs') : k \in 1..Len(clientFDs) \/ k = Len(clientFDs) + 1
    <2>1. clientFDs \in Seq(Audience)
      BY DEF PopenTypeOK
    <2>. QED
      BY <1>4, <2>1, AppendItem
  <1>. QED
    BY <1>4, <1>5, <1>7, <1>8, <1>9

\* Which write a text still to be sent is: to the client at i, which has not
\* been handed over.
LEMMA SendIs ==
  ASSUME PopenTypeOK, MaskedWhileSending, PopenSends, i <= Len(clientFDs)
  PROVE  \E c \in Audience :
            /\ i \in 1..Len(clientFDs) /\ c = clientFDs[i] /\ startClient < i
            /\ Post(c, News(said), "send") /\ i' = i + 1
            /\ UNCHANGED <<masked, overlaid, readable, listenerSet, usr1, queued, clientFDs,
                           startClient, said, raised, clientVars, toEcho, childOver, entered,
                           left_at>>
  <1>1. i \in 1..Len(clientFDs) /\ startClient < i
    BY DEF PopenSends, MaskedWhileSending, PopenTypeOK
  <1>2. PICK c \in Audience : c = clientFDs[i]
    BY <1>1, ItemType DEF PopenTypeOK
  <1>. QED
    BY <1>1, <1>2 DEF PopenSends

LEMMA OneEntryStep ==
  ASSUME PopenTypeOK, OneEntry, MaskedWhileSending, PopenNext
  PROVE  OneEntry'
  <1>1. ASSUME UNCHANGED <<clientFDs, queued>>,
               \A d \in Audience : member'[d] = "home" => member[d] = "home",
               \A d \in Audience : ~Accepted(d) => Delivered(d)' = Delivered(d)
        PROVE  OneEntry'
    <2>1. \A d : (Accepted(d)' <=> Accepted(d)) /\ (IsQueued(d)' <=> IsQueued(d))
      BY <1>1 DEF Accepted, IsQueued
    <2>. QED
      BY <1>1, <2>1 DEF OneEntry
  <1>2. CASE PopenPoll \/ PopenReads \/ PopenTurns \/ PopenExits \/ P4Signals \/ sigHandlerIdle
    <2>1. UNCHANGED <<clientFDs, queued, member, printed, toMember>>
      BY <1>2 DEF PopenPoll, PopenReads, PopenTurns, PopenExits, P4Signals, sigHandlerIdle, clientVars
    <2>. QED
      BY <1>1, <2>1 DEF Delivered
  <1>3. CASE PopenSends
    <2>1. CASE i <= Len(clientFDs)
      <3>1. PICK c \in Audience :
               /\ i \in 1..Len(clientFDs) /\ c = clientFDs[i]
               /\ Post(c, News(said), "send")
               /\ UNCHANGED <<queued, clientFDs, member, printed>>
        BY <1>3, <2>1, SendIs DEF clientVars
      <3>2. News(said) \in Output
        BY NewsIsOutput DEF PopenTypeOK
      <3>3. \A d \in Audience : d # c => Delivered(d)' = Delivered(d)
        BY <3>1, <3>2, PostIs
      <3>4. Accepted(c)
        BY <3>1 DEF Accepted
      <3>. QED
        BY <1>1, <3>1, <3>3, <3>4
    <2>2. CASE ~(i <= Len(clientFDs))
      <3>1. UNCHANGED <<clientFDs, queued, member, printed, toMember>>
        BY <1>3, <2>2 DEF PopenSends, clientVars
      <3>. QED
        BY <1>1, <3>1 DEF Delivered
    <2>. QED
      BY <2>1, <2>2
  <1>4. CASE PopenAccepts
    <2>1. PICK c \in Audience :
            /\ IsQueued(c) /\ ~Accepted(c) /\ member[c] # "home"
            /\ \A d \in Audience : IsQueued(d)' => IsQueued(d) /\ d # c
            /\ \A k \in 1..Len(clientFDs) : k \in 1..Len(clientFDs') /\ clientFDs'[k] = clientFDs[k]
            /\ clientFDs'[Len(clientFDs) + 1] = c /\ Len(clientFDs) + 1 \in 1..Len(clientFDs')
            /\ \A k \in 1..Len(clientFDs') : k \in 1..Len(clientFDs) \/ k = Len(clientFDs) + 1
            /\ \A j, k \in 1..Len(queued') : queued'[j] = queued'[k] => j = k
      BY <1>4, AcceptsIs
    <2>2. UNCHANGED <<member, printed, toMember>>
      BY <1>4 DEF PopenAccepts, clientVars
    <2>3. \A d \in Audience : Accepted(d)' <=> Accepted(d) \/ d = c
      BY <2>1 DEF Accepted
    <2>4. \A j, k \in 1..Len(clientFDs') : clientFDs'[j] = clientFDs'[k] => j = k
      BY <2>1 DEF OneEntry, Accepted
    <2>5. \A d \in Audience : Delivered(d)' = Delivered(d)
      BY <2>2 DEF Delivered
    <2>. QED
      BY <2>1, <2>2, <2>3, <2>4, <2>5 DEF OneEntry
  <1>5. CASE sigHandler
    <2>1. PICK c \in Audience :
             /\ startClient + 1 \in 1..Len(clientFDs) /\ c = clientFDs[startClient + 1]
             /\ Post(c, ToEcho, popen) /\ UNCHANGED <<queued, clientFDs, member, printed>>
      BY <1>5, HandlerIs DEF clientVars
    <2>2. \A d \in Audience : d # c => Delivered(d)' = Delivered(d)
      BY <2>1, PostIs, NewsIsOutput
    <2>3. Accepted(c)
      BY <2>1 DEF Accepted
    <2>. QED
      BY <1>1, <2>1, <2>2, <2>3
  <1>6. ASSUME NEW c \in Audience, EchoAnswers(c) PROVE OneEntry'
    <2>1. UNCHANGED <<queued, clientFDs, member>>
      BY <1>6 DEF EchoAnswers, clientVars
    <2>2. Accepted(c) /\ \A d \in Audience : d # c => Delivered(d)' = Delivered(d)
      BY <1>6, EchoIs
    <2>. QED
      BY <1>1, <2>1, <2>2
  <1>7. ASSUME NEW c \in Audience, MemberConnects(c) PROVE OneEntry'
    <2>1. /\ queued' = Append(queued, c) /\ queued \in Seq(Audience)
          /\ member[c] = "home" /\ member'[c] = "listening"
          /\ \A d \in Audience : d # c => member'[d] = member[d]
          /\ UNCHANGED <<clientFDs, printed, toMember>>
      BY <1>7 DEF MemberConnects, PopenTypeOK
    <2>2. /\ \A k \in 1..Len(queued) : k \in 1..Len(queued') /\ queued'[k] = queued[k]
          /\ queued'[Len(queued) + 1] = c
          /\ \A k \in 1..Len(queued') : k \in 1..Len(queued) \/ k = Len(queued) + 1
      BY <2>1, AppendItem
    <2>3. ~Accepted(c) /\ ~IsQueued(c)
      BY <2>1 DEF OneEntry
    <2>4. \A d \in Audience : IsQueued(d)' => IsQueued(d) \/ d = c
      BY <2>2 DEF IsQueued
    <2>5. \A j, k \in 1..Len(queued') : queued'[j] = queued'[k] => j = k
      BY <2>2, <2>3 DEF OneEntry, IsQueued
    <2>6. \A d \in Audience : (Accepted(d)' <=> Accepted(d)) /\ Delivered(d)' = Delivered(d)
      BY <2>1 DEF Accepted, Delivered
    <2>. QED
      BY <2>1, <2>3, <2>4, <2>5, <2>6 DEF OneEntry
  <1>8. ASSUME NEW c \in Audience, MemberListens(c) \/ MemberReads(c) PROVE OneEntry'
    <2>1. \A d \in Audience : member'[d] = "home" => member[d] = "home"
      BY <1>8 DEF MemberListens, MemberReads, PopenTypeOK
    <2>2. UNCHANGED <<queued, clientFDs>> /\ \A d \in Audience : Delivered(d)' = Delivered(d)
      BY <1>8, ReadsAre
    <2>. QED
      BY <1>1, <2>1, <2>2
  <1>9. ASSUME NEW c \in Audience,
               MemberGoes(c) \/ MemberMeetsEnd(c) \/ \E line \in EchoLines : MemberTypes(c, line)
        PROVE  OneEntry'
    <2>1. /\ UNCHANGED <<queued, clientFDs, printed, toMember>>
          /\ \A d \in Audience : member'[d] = "home" => member[d] = "home"
      BY <1>9 DEF MemberGoes, MemberMeetsEnd, MemberTypes, PopenTypeOK
    <2>. QED
      BY <1>1, <2>1 DEF Delivered
  <1>. QED
    BY <1>2, <1>3, <1>4, <1>5, <1>6, <1>7, <1>8, <1>9 DEF PopenNext, PopenMain, PopenClient

\* The words a client types, and who was handed over.
LEMMA TypedTypes ==
  ASSUME PopenTypeOK, NEW c \in Audience
  PROVE  /\ saidTo[c] \in Nat /\ toEcho[c] \in Seq(TypedWord) /\ Len(toEcho[c]) \in Nat
         /\ startClient \in Nat /\ Len(clientFDs) \in Nat
         /\ \A k \in 1..startClient : k \in 1..Len(clientFDs)
  <1>1. saidTo[c] \in Nat /\ toEcho[c] \in Seq(TypedWord) /\ Len(toEcho[c]) \in Nat
    BY DEF PopenTypeOK
  <1>2. startClient \in 0..Len(clientFDs) /\ Len(clientFDs) \in Nat
    BY DEF PopenTypeOK
  <1>. QED
    BY <1>1, <1>2

\* A step in which d gets nothing, in which what is owed to it grows with what
\* is said, and after which its child has heard as much as before.
LEMMA ToldStill ==
  ASSUME PopenTypeOK, NEW d \in Audience, NEW n \in 0..Len(Delivered(d)), Told(d, n),
         Delivered(d)' = Delivered(d), entered'[d] = entered[d], left_at'[d] = left_at[d],
         HandedOver(d)' <=> HandedOver(d), said <= said', said' \in Nat,
         member[d] = "gone" => member'[d] = "gone",
         HandedOver(d) \/ member'[d] \in {member[d], "listening", "gone"},
         ~HandedOver(d) /\ Accepted(d)' /\ popen' # "dead" =>
            Accepted(d) /\ popen # "dead" /\ said + Owed(d)' = said' + Owed(d),
         \/ member'[d] = "gone" \/ d \in childOver'
         \/ d \notin childOver /\ Heard(d)' = Heard(d)
  PROVE  Told(d, n)'
  <1>1. Story(Delivered(d), entered[d], n)'
    BY DEF Told, Story
  <1>2. said \in Nat /\ entered[d] \in Nat /\ left_at[d] \in Nat /\ n \in Nat
    BY DeliveredType DEF PopenTypeOK
  <1>3. (entered[d] + n <= Until(d))'
    BY <1>2 DEF Told, Until
  <1>4. ASSUME HandedOver(d)', member'[d] # "gone"
        PROVE  /\ entered'[d] + n = left_at'[d] /\ n < Len(Delivered(d)')
               /\ d \notin childOver' => Len(Delivered(d)') = n + 1 + Heard(d)'
    BY <1>4 DEF Told
  <1>5. ASSUME ~HandedOver(d)'
        PROVE  /\ n = Len(Delivered(d)') /\ member'[d] \in {"home", "listening", "gone"}
               /\ Accepted(d)' /\ member'[d] # "gone" /\ popen' # "dead"
                     => entered'[d] + n + Owed(d)' = said'
    <2>1. Owed(d) \in {0, 1} /\ Owed(d)' \in {0, 1}
      BY DEF Owed
    <2>. QED
      BY <1>2, <1>5, <2>1 DEF Told
  <1>. QED
    BY <1>1, <1>3, <1>4, <1>5 DEF Told

\* The same where nothing is said, accepted or typed.
LEMMA ToldIdle ==
  ASSUME PopenTypeOK, NEW d \in Audience, NEW n \in 0..Len(Delivered(d)), Told(d, n),
         Delivered(d)' = Delivered(d),
         UNCHANGED <<clientFDs, entered, said, saidTo, toEcho, childOver>>,
         left_at'[d] = left_at[d], HandedOver(d)' <=> HandedOver(d),
         member[d] = "gone" => member'[d] = "gone",
         HandedOver(d) \/ member'[d] \in {member[d], "listening", "gone"},
         popen' # "dead" => popen # "dead" /\ Owed(d)' = Owed(d)
  PROVE  Told(d, n)'
  <1>1. said \in Nat
    BY DEF PopenTypeOK
  <1>2. Heard(d)' = Heard(d)
    BY DEF Heard
  <1>3. Accepted(d)' <=> Accepted(d)
    BY DEF Accepted
  <1>. QED
    BY <1>1, <1>2, <1>3, ToldStill

\* The main loop of the server, and a signal at which nobody is handed over.
LEMMA MainToldStep ==
  ASSUME PopenTypeOK, PopenTypeOK', OneEntry, MaskedWhileSending,
         NEW d \in Audience, NEW n \in 0..Len(Delivered(d)), Told(d, n),
         PopenMain \/ P4Signals \/ sigHandlerIdle
  PROVE  \E m \in 0..Len(Delivered(d)') : Told(d, m)'
  <1>1. CASE PopenPoll \/ PopenTurns \/ PopenExits \/ P4Signals \/ sigHandlerIdle
    <2>1. /\ UNCHANGED <<clientFDs, startClient, i, member, printed, toMember, entered, said, saidTo,
                         toEcho, childOver, left_at>>
          /\ popen' # "dead" => popen # "dead" /\ (popen' = "send" <=> popen = "send")
      BY <1>1 DEF PopenPoll, PopenTurns, PopenExits, P4Signals, sigHandlerIdle, clientVars
    <2>2. Delivered(d)' = Delivered(d) /\ (HandedOver(d)' <=> HandedOver(d))
      BY <2>1 DEF Delivered, HandedOver
    <2>3. popen' # "dead" => popen # "dead" /\ Owed(d)' = Owed(d)
      BY <2>1 DEF Owed
    <2>. QED
      BY <2>1, <2>2, <2>3, ToldIdle
  <1>2. CASE PopenReads
    <2>1. /\ UNCHANGED <<clientFDs, startClient, member, printed, toMember, entered, saidTo,
                         toEcho, childOver, left_at>>
          /\ said' = said + 1 /\ said \in Nat /\ i' = startClient + 1
          /\ popen = "pass" /\ popen' = "send"
      BY <1>2 DEF PopenReads, clientVars, PopenTypeOK
    <2>2. /\ Delivered(d)' = Delivered(d) /\ (HandedOver(d)' <=> HandedOver(d))
          /\ Accepted(d)' <=> Accepted(d)
      BY <2>1 DEF Delivered, HandedOver, Accepted
    <2>3. ASSUME ~HandedOver(d), Accepted(d) PROVE Owed(d) = 0 /\ Owed(d)' = 1
      <3>1. PICK k \in 1..Len(clientFDs) : clientFDs[k] = d
        BY <2>3 DEF Accepted
      <3>2. ~(k \in 1..startClient) /\ startClient \in Nat
        BY <2>3, <3>1, TypedTypes DEF HandedOver
      <3>3. k \in (startClient + 1)..Len(clientFDs)
        BY <3>2
      <3>. QED
        BY <2>1, <3>1, <3>3 DEF Owed
    <2>4. Heard(d)' = Heard(d)
      BY <2>1 DEF Heard
    <2>5. ~HandedOver(d) /\ Accepted(d)' => said + Owed(d)' = said' + Owed(d)
      BY <2>1, <2>2, <2>3
    <2>6. said <= said' /\ said' \in Nat
      BY <2>1
    <2>. QED
      BY <2>1, <2>2, <2>4, <2>5, <2>6, ToldStill
  <1>3. CASE PopenSends /\ i <= Len(clientFDs)
    <2>1. PICK c \in Audience :
             /\ i \in 1..Len(clientFDs) /\ c = clientFDs[i] /\ startClient < i
             /\ Post(c, News(said), "send") /\ i' = i + 1
             /\ UNCHANGED <<clientFDs, startClient, said, member, printed, saidTo, toEcho,
                            childOver, entered, left_at>>
      BY <1>3, SendIs DEF clientVars
    <2>2. /\ News(said) \in Output /\ said \in Nat /\ popen = "send"
      BY <1>3, NewsIsOutput DEF PopenTypeOK, PopenSends
    <2>3. /\ popen' = "send" \/ popen' = "dead"
          /\ \A e \in Audience : e # c => Delivered(e)' = Delivered(e)
          /\ IF member[c] = "gone" THEN Delivered(c)' = Delivered(c)
             ELSE Delivered(c)' = Append(Delivered(c), News(said)) /\ popen' = "send"
      BY <2>1, <2>2, PostIs
    <2>4. /\ HandedOver(d)' <=> HandedOver(d)
          /\ Accepted(d)' <=> Accepted(d)
      BY <2>1 DEF HandedOver, Accepted
    <2>5. \A k \in 1..Len(clientFDs) : clientFDs[k] = c => k = i
      BY <2>1 DEF OneEntry
    <2>6. \A k : k \in i..Len(clientFDs) <=> k = i \/ k \in (i + 1)..Len(clientFDs)
      BY <2>1
    <2>7. CASE d # c
      <3>1. popen' # "dead" => popen # "dead" /\ Owed(d)' = Owed(d)
        <4> SUFFICES ASSUME popen' = "send" PROVE Owed(d)' = Owed(d)
          BY <2>2, <2>3
        <4>1. (\E k \in i..Len(clientFDs) : clientFDs[k] = d)
              <=> (\E k \in (i + 1)..Len(clientFDs) : clientFDs[k] = d)
          BY <2>1, <2>6, <2>7
        <4>. QED
          BY <2>1, <2>2, <4>1 DEF Owed
      <3>. QED
        BY <2>1, <2>3, <2>4, <2>7, <3>1, ToldIdle
    <2>8. CASE d = c
      <3>1. ~HandedOver(d) /\ Accepted(d)
        <4>1. \A k \in 1..startClient : k \in 1..Len(clientFDs) /\ k < i
          BY <2>1, TypedTypes
        <4>2. \A k \in 1..startClient : k # i
          BY <2>1, <4>1
        <4>. QED
          BY <2>1, <2>5, <2>8, <4>1, <4>2 DEF HandedOver, Accepted
      <3>2. Owed(d) = 1
        BY <2>1, <2>2, <2>6, <2>8 DEF Owed
      <3>3. CASE member[d] = "gone"
        <4>1. said + 0 <= said
          BY <2>2
        <4>2. Delivered(d)' = Delivered(d) /\ member'[d] = "gone"
          BY <2>1, <2>3, <2>8, <3>3
        <4>. QED
          BY <2>1, <2>2, <2>4, <3>1, <4>1, <4>2 DEF Told, Story, Until
      <3>4. CASE member[d] # "gone"
        <4>1. /\ n = Len(Delivered(d)) /\ entered[d] + n + 1 = said
              /\ Story(Delivered(d), entered[d], n)
          BY <2>2, <3>1, <3>2, <3>4 DEF Told
        <4>2. /\ Delivered(d)' = Append(Delivered(d), News(said)) /\ popen' = "send"
          BY <2>3, <2>8, <3>4
        <4>3. Delivered(d) \in Seq(Output) /\ entered[d] \in Nat /\ n \in Nat
          <5>1. Delivered(d) \in Seq(Output) /\ Len(Delivered(d)) \in Nat
            BY DeliveredType
          <5>2. entered[d] \in Nat
            BY DEF PopenTypeOK
          <5>. QED
            BY <5>1, <5>2
        <4>4. Len(Delivered(d)') = n + 1
          BY <2>2, <4>1, <4>2, <4>3, QueueTypes
        <4>5. Story(Delivered(d)', entered[d], n + 1)
          <5>1. Story(Append(Delivered(d), News(entered[d] + n + 1)), entered[d], n + 1)
            BY <4>1, <4>3, NewsFollows
          <5>. QED
            BY <4>1, <4>2, <5>1
        <4>6. Owed(d)' = 0
          <5>1. ~ \E k \in (i + 1)..Len(clientFDs) : clientFDs[k] = d
            BY <2>1, <2>5, <2>8
          <5>. QED
            BY <2>1, <5>1 DEF Owed
        <4>7. entered[d] + (n + 1) <= said /\ entered[d] + (n + 1) + 0 = said
          BY <2>2, <4>1, <4>3
        <4>8. member'[d] \in {"home", "listening", "gone"}
          BY <2>1, <3>1 DEF Told
        <4>9. Told(d, n + 1)'
          BY <2>1, <2>4, <3>1, <4>4, <4>5, <4>6, <4>7, <4>8 DEF Told, Until
        <4>. QED
          BY <4>3, <4>4, <4>9
      <3>. QED
        BY <3>3, <3>4
    <2>. QED
      BY <2>7, <2>8
  <1>4. CASE PopenSends /\ ~(i <= Len(clientFDs))
    <2>1. /\ popen = "send" /\ popen' = "pass"
          /\ UNCHANGED <<clientFDs, startClient, i, member, printed, toMember, entered, said, saidTo,
                         toEcho, childOver, left_at>>
      BY <1>4 DEF PopenSends, clientVars
    <2>2. Delivered(d)' = Delivered(d) /\ (HandedOver(d)' <=> HandedOver(d))
      BY <2>1 DEF Delivered, HandedOver
    <2>3. Owed(d)' = Owed(d)
      <3>1. i..Len(clientFDs) = {}
        <4>1. i \in Nat /\ Len(clientFDs) \in Nat
          BY DEF PopenTypeOK
        <4>. QED
          BY <1>4, <4>1
      <3>. QED
        BY <2>1, <3>1 DEF Owed
    <2>. QED
      BY <2>1, <2>2, <2>3, ToldIdle
  <1>5. CASE PopenAccepts
    <2>1. PICK c \in Audience :
            /\ entered' = [entered EXCEPT ![c] = said]
            /\ ~Accepted(c) /\ Delivered(c) = <<>>
            /\ \A k \in 1..Len(clientFDs) : k \in 1..Len(clientFDs') /\ clientFDs'[k] = clientFDs[k]
            /\ clientFDs'[Len(clientFDs) + 1] = c
            /\ \A k \in 1..Len(clientFDs') : k \in 1..Len(clientFDs) \/ k = Len(clientFDs) + 1
      BY <1>5, AcceptsIs
    <2>2. /\ popen = "accept" /\ popen' = "poll"
          /\ UNCHANGED <<startClient, i, member, printed, toMember, said, saidTo, toEcho,
                         childOver, left_at>>
      BY <1>5 DEF PopenAccepts, clientVars
    <2>3. Delivered(d)' = Delivered(d) /\ Owed(d) = 0 /\ Owed(d)' = 0
      BY <2>2 DEF Delivered, Owed
    <2>4. HandedOver(d)' <=> HandedOver(d)
      <3>1. \A k \in 1..startClient : k \in 1..Len(clientFDs)
        BY DEF PopenTypeOK
      <3>. QED
        BY <2>1, <2>2, <3>1 DEF HandedOver
    <2>5. CASE d = c
      <3>1. ~HandedOver(d)
        <4>1. \A k \in 1..startClient : k \in 1..Len(clientFDs)
          BY DEF PopenTypeOK
        <4>. QED
          BY <2>1, <2>5, <4>1 DEF HandedOver, Accepted
      <3>2. entered'[d] = said /\ said \in Nat
        BY <2>1, <2>5 DEF PopenTypeOK
      <3>3. Delivered(d)' = <<>> /\ Len(Delivered(d)') = 0
        BY <2>1, <2>3, <2>5
      <3>5. member'[d] \in {"home", "listening", "gone"}
        BY <2>2, <3>1 DEF Told
      <3>4. Told(d, 0)'
        BY <2>2, <2>3, <2>4, <3>1, <3>2, <3>3, <3>5, NothingTold DEF Told, Until
      <3>. QED
        BY <3>3, <3>4
    <2>6. CASE d # c
      <3>1. entered'[d] = entered[d]
        BY <2>1, <2>6 DEF PopenTypeOK
      <3>2. Accepted(d)' => Accepted(d)
        BY <2>1, <2>6 DEF Accepted
      <3>3. said \in Nat
        BY DEF PopenTypeOK
      <3>4. Heard(d)' = Heard(d)
        BY <2>2 DEF Heard
      <3>. QED
        BY <2>2, <2>3, <2>4, <3>1, <3>2, <3>3, <3>4, ToldStill
    <2>. QED
      BY <2>5, <2>6
  <1>. QED
    BY <1>1, <1>2, <1>3, <1>4, <1>5 DEF PopenMain

\* The hand-over: with nothing owed, since SIGUSR1 is masked while a text is sent.
LEMMA HandedToldStep ==
  ASSUME PopenTypeOK, OneEntry, MaskedWhileSending, WordsInOrder,
         NEW d \in Audience, NEW n \in 0..Len(Delivered(d)), Told(d, n), sigHandler
  PROVE  \E m \in 0..Len(Delivered(d)') : Told(d, m)'
  <1>1. PICK c \in Audience :
           /\ startClient + 1 \in 1..Len(clientFDs) /\ c = clientFDs[startClient + 1]
           /\ startClient' = startClient + 1 /\ left_at' = [left_at EXCEPT ![c] = said]
           /\ Post(c, ToEcho, popen) /\ popen \notin {"send", "accept", "dead"}
           /\ UNCHANGED <<clientFDs, i, said, member, printed, saidTo, toEcho, childOver, entered>>
    BY HandlerIs DEF clientVars
  <1>2. /\ popen' = popen \/ popen' = "dead"
        /\ \A e \in Audience : e # c => Delivered(e)' = Delivered(e)
        /\ IF member[c] = "gone" THEN Delivered(c)' = Delivered(c)
           ELSE Delivered(c)' = Append(Delivered(c), ToEcho) /\ popen' = popen
    BY <1>1, PostIs, NewsIsOutput
  <1>3. startClient \in Nat /\ \A k \in 1..startClient : k \in 1..Len(clientFDs)
    BY TypedTypes
  <1>4. \A k \in 1..(startClient + 1) : k \in 1..startClient \/ k = startClient + 1
    BY <1>3
  <1>5. CASE d # c
    <2>1. HandedOver(d)' <=> HandedOver(d)
      <3>1. \A k \in 1..startClient : k \in 1..(startClient + 1)
        BY <1>3
      <3>. QED
        BY <1>1, <1>4, <1>5, <3>1 DEF HandedOver
    <2>2. left_at'[d] = left_at[d] /\ Delivered(d)' = Delivered(d)
      BY <1>1, <1>2, <1>5 DEF PopenTypeOK
    <2>3. popen' # "dead" => popen # "dead" /\ Owed(d)' = Owed(d)
      BY <1>1, <1>2 DEF Owed
    <2>. QED
      BY <1>1, <2>1, <2>2, <2>3, ToldIdle
  <1>6. CASE d = c
    <2>1. ~HandedOver(d) /\ Accepted(d)
      <3>1. ~(startClient + 1 \in 1..startClient)
        BY <1>3
      <3>. QED
        BY <1>1, <1>3, <1>6, <3>1 DEF HandedOver, Accepted, OneEntry
    <2>2. HandedOver(d)'
      <3>1. startClient + 1 \in 1..(startClient + 1)
        BY <1>3
      <3>. QED
        BY <1>1, <1>6, <3>1 DEF HandedOver
    <2>3. left_at'[d] = said /\ Owed(d) = 0
      BY <1>1, <1>6 DEF PopenTypeOK, Owed
    <2>4. /\ n = Len(Delivered(d)) /\ entered[d] + n <= said /\ Story(Delivered(d), entered[d], n)
          /\ member[d] # "gone" => entered[d] + n + 0 = said
      BY <1>1, <2>1, <2>3 DEF Told, Until
    <2>5. Delivered(d) \in Seq(Output) /\ entered[d] \in Nat /\ n \in Nat /\ said \in Nat
      <3>1. Delivered(d) \in Seq(Output) /\ Len(Delivered(d)) \in Nat
        BY DeliveredType
      <3>2. entered[d] \in Nat /\ said \in Nat
        BY DEF PopenTypeOK
      <3>. QED
        BY <3>1, <3>2
    <2>6. CASE member[d] = "gone"
      <3>1. Delivered(d)' = Delivered(d)
        BY <1>2, <1>6, <2>6
      <3>. QED
        BY <1>1, <2>2, <2>3, <2>4, <2>6, <3>1 DEF Told, Until
    <2>7. CASE member[d] # "gone"
      <3>1. Delivered(d)' = Append(Delivered(d), ToEcho)
        BY <1>2, <1>6, <2>7
      <3>2. Len(Delivered(d)') = n + 1
        BY <2>4, <2>5, <3>1, QueueTypes, NewsIsOutput
      <3>3. Story(Delivered(d)', entered[d], n)
        BY <2>4, <2>5, <3>1, NewsFollows
      <3>4. n \in 0..(n + 1) /\ n < n + 1 /\ entered[d] + n = said
        BY <2>4, <2>5, <2>7
      <3>6. Heard(d)' = 0 /\ n + 1 + 0 = n + 1
        <4>1. saidTo[d] = 0 /\ Len(toEcho[d]) = 0
          <5>1. member[d] \in {"home", "listening"}
            BY <2>1, <2>7 DEF Told
          <5>. QED
            BY <5>1, TypedTypes DEF WordsInOrder
        <4>. QED
          BY <1>1, <2>5, <4>1 DEF Heard
      <3>5. Told(d, n)'
        BY <1>1, <2>2, <2>3, <2>4, <3>2, <3>3, <3>4, <3>6 DEF Told, Until
      <3>. QED
        BY <3>2, <3>4, <3>5
    <2>. QED
      BY <2>6, <2>7
  <1>. QED
    BY <1>5, <1>6

\* An answer comes after "toEcho", and after the answers to all earlier words.
LEMMA EchoToldStep ==
  ASSUME PopenTypeOK, WordsInOrder, NEW c \in Audience, EchoAnswers(c),
         NEW d \in Audience, NEW n \in 0..Len(Delivered(d)), Told(d, n)
  PROVE  \E m \in 0..Len(Delivered(d)') : Told(d, m)'
  <1>1. /\ UNCHANGED <<popen, clientFDs, startClient, i, said, member, printed, saidTo, entered, left_at>>
    BY DEF EchoAnswers, clientVars
  <1>2. /\ HandedOver(d)' <=> HandedOver(d)
        /\ Accepted(d)' <=> Accepted(d)
        /\ Owed(d)' = Owed(d)
    BY <1>1 DEF HandedOver, Accepted, Owed
  <1>3. said \in Nat
    BY DEF PopenTypeOK
  <1>4. CASE d # c
    <2>1. /\ toEcho'[d] = toEcho[d] /\ Delivered(d)' = Delivered(d)
          /\ d \in childOver' <=> d \in childOver
      BY <1>4, EchoIs DEF PopenTypeOK
    <2>2. Heard(d)' = Heard(d)
      BY <1>1, <2>1 DEF Heard
    <2>. QED
      BY <1>1, <1>2, <1>3, <2>1, <2>2, ToldStill
  <1>5. CASE d = c
    <2>1. /\ toEcho[d] # <<>> /\ toEcho[d] \in Seq(TypedWord) /\ HandedOver(d)
          /\ toEcho'[d] = Tail(toEcho[d]) /\ d \notin childOver
          /\ \/ Delivered(d)' = Delivered(d) /\ (member[d] = "gone" \/ d \in childOver')
             \/ member[d] # "gone" /\ Delivered(d)' = Append(Delivered(d), Echoed(Head(toEcho[d]).n))
      BY <1>5, EchoIs DEF PopenTypeOK
    <2>2. CASE Delivered(d)' = Delivered(d) /\ (member[d] = "gone" \/ d \in childOver')
      BY <1>1, <1>2, <1>3, <2>1, <2>2, ToldStill
    <2>3. CASE member[d] # "gone" /\ Delivered(d)' = Append(Delivered(d), Echoed(Head(toEcho[d]).n))
      <3>1. PICK h \in Nat :
               /\ h = Heard(d) /\ Heard(d)' = h + 1 /\ Head(toEcho[d]).n = h + 1
        <4>1. PICK s \in Seq(TypedWord), x \in Nat, l \in Nat :
                 s = toEcho[d] /\ x = saidTo[d] /\ l = Len(s) /\ s # <<>>
          BY <2>1, TypedTypes
        <4>2. /\ Head(s) = s[1] /\ 1 \in 1..Len(s) /\ Len(Tail(s)) = l - 1
          BY <4>1, QueueTypes
        <4>3. l <= x /\ \A k \in 1..Len(s) : s[k].n = (x - l) + k
          BY <4>1 DEF WordsInOrder
        <4>4. Head(s).n = (x - l) + 1 /\ x - l \in Nat /\ x - (l - 1) = (x - l) + 1
          <5>1. s[1].n = (x - l) + 1
            BY <4>2, <4>3
          <5>2. x - l \in Nat /\ x - (l - 1) = (x - l) + 1
            BY <4>3
          <5>. QED
            BY <4>2, <5>1, <5>2
        <4>5. Heard(d) = x - l /\ Heard(d)' = x - (l - 1)
          BY <1>1, <2>1, <4>1, <4>2 DEF Heard
        <4>. QED
          BY <4>1, <4>4, <4>5
      <3>2. /\ Story(Delivered(d), entered[d], n) /\ entered[d] + n = left_at[d]
            /\ n < Len(Delivered(d)) /\ entered[d] + n <= left_at[d]
            /\ Len(Delivered(d)) = n + 1 + h
        <4>1. /\ Story(Delivered(d), entered[d], n) /\ entered[d] + n <= Until(d)
              /\ entered[d] + n = left_at[d] /\ n < Len(Delivered(d))
              /\ Len(Delivered(d)) = n + 1 + Heard(d)
          BY <2>1, <2>3 DEF Told
        <4>2. Until(d) = left_at[d]
          BY <2>1 DEF Until
        <4>3. Len(Delivered(d)) = n + 1 + h
          BY <3>1, <4>1
        <4>. QED
          BY <4>1, <4>2, <4>3
      <3>3. Delivered(d) \in Seq(Output) /\ entered[d] \in Nat /\ n \in Nat /\ Len(Delivered(d)) \in Nat
        <4>1. Delivered(d) \in Seq(Output) /\ Len(Delivered(d)) \in Nat
          BY DeliveredType
        <4>2. entered[d] \in Nat
          BY DEF PopenTypeOK
        <4>. QED
          BY <4>1, <4>2
      <3>4. Story(Append(Delivered(d), Echoed(h + 1)), entered[d], n)
        <4>1. h + 1 \in Nat /\ Len(Delivered(d)) = n + (h + 1)
          BY <3>1, <3>2, <3>3
        <4>. QED
          BY <3>2, <3>3, <4>1, EchoFollows
      <3>5. /\ Delivered(d)' = Append(Delivered(d), Echoed(h + 1))
            /\ Len(Delivered(d)') = Len(Delivered(d)) + 1
        <4>1. PICK r \in Output : r = Echoed(h + 1)
          BY <3>1, NewsIsOutput
        <4>2. Len(Append(Delivered(d), r)) = Len(Delivered(d)) + 1
          BY <3>3, QueueTypes
        <4>3. Delivered(d)' = Append(Delivered(d), Echoed(h + 1))
          BY <2>3, <3>1, Zenon
        <4>. QED
          BY <4>1, <4>2, <4>3
      <3>6. n \in 0..Len(Delivered(d)') /\ n < Len(Delivered(d)') /\ Len(Delivered(d)') = n + 1 + (h + 1)
        <4>1. PICK l \in Nat : l = Len(Delivered(d)) /\ l = n + 1 + h /\ Len(Delivered(d)') = l + 1
          BY <3>2, <3>3, <3>5
        <4>2. n \in Nat /\ h \in Nat /\ l \in Nat /\ l = n + 1 + h
          BY <3>1, <3>3, <4>1
        <4>3. \A x, y, z \in Nat : z = x + 1 + y =>
                 x \in 0..(z + 1) /\ x < z + 1 /\ z + 1 = x + 1 + (y + 1)
          OBVIOUS
        <4>4. n \in 0..(l + 1) /\ n < l + 1 /\ l + 1 = n + 1 + (h + 1)
          BY <4>2, <4>3
        <4>. QED
          BY <4>1, <4>4
      <3>7. Told(d, n)'
        <4>1. Story(Delivered(d)', entered'[d], n)
          BY <1>1, <3>4, <3>5
        <4>2. entered'[d] + n <= Until(d)'
          BY <1>1, <1>2, <2>1, <3>2 DEF Until
        <4>3. HandedOver(d)' /\ entered'[d] + n = left_at'[d]
          BY <1>1, <1>2, <2>1, <3>2
        <4>. QED
          BY <3>1, <3>6, <4>1, <4>2, <4>3 DEF Told
      <3>. QED
        BY <3>6, <3>7
    <2>. QED
      BY <2>1, <2>2, <2>3
  <1>. QED
    BY <1>4, <1>5

\* While only texts have come there is no "toEcho" to be read.
LEMMA NotHandedOver ==
  ASSUME PopenTypeOK, NEW c \in Audience, NEW n \in 0..Len(Delivered(c)), Told(c, n),
         ~HandedOver(c), PopenClient(c)
  PROVE  member'[c] \in {"listening", "gone"} /\ UNCHANGED <<toEcho, saidTo>>
  <1>1. member[c] \in {"home", "listening", "gone"} /\ Story(Delivered(c), entered[c], Len(Delivered(c)))
    BY DEF Told
  <1>2. ASSUME MemberListens(c) PROVE Head(toMember[c]) # ToEcho
    <2>1. PICK p \in Seq(Output), t \in Seq(Output) : p = printed[c] /\ t = toMember[c] /\ t # <<>>
      BY <1>2 DEF MemberListens, PopenTypeOK
    <2>2. /\ Head(t) = t[1] /\ 1 \in 1..Len(t) /\ Len(p) \in Nat /\ Len(t) \in Nat
          /\ Len(p \o t) = Len(p) + Len(t) /\ (p \o t)[Len(p) + 1] = t[1]
      <3>1. Head(t) = t[1] /\ 1 \in 1..Len(t) /\ Len(p) \in Nat /\ Len(t) \in Nat
        BY <2>1, QueueTypes
      <3>2. Len(p \o t) = Len(p) + Len(t) /\ \A k \in 1..Len(t) : (p \o t)[Len(p) + k] = t[k]
        BY Joined
      <3>. QED
        BY <3>1, <3>2
    <2>3. Len(p) + 1 \in 1..Len(p \o t)
      BY <2>2
    <2>4. Delivered(c) = p \o t
      BY <2>1 DEF Delivered
    <2>5. \A k \in 1..Len(p \o t) : (p \o t)[k] = News(entered[c] + k)
      BY <1>1, <2>4 DEF Story
    <2>6. t[1] = News(entered[c] + (Len(p) + 1))
      BY <2>2, <2>3, <2>5
    <2>7. \A x : News(x) # ToEcho
      BY DEF News, ToEcho
    <2>. QED
      BY <2>1, <2>2, <2>6, <2>7
  <1>3. CASE MemberListens(c)
    BY <1>2, <1>3 DEF MemberListens, Takes
  <1>4. CASE MemberConnects(c) \/ MemberGoes(c)
    BY <1>4 DEF MemberConnects, MemberGoes, PopenTypeOK
  <1>5. ~MemberReads(c) /\ ~MemberMeetsEnd(c) /\ ~ \E line \in EchoLines : MemberTypes(c, line)
    BY <1>1 DEF MemberReads, MemberMeetsEnd, MemberTypes
  <1>. QED
    BY <1>3, <1>4, <1>5 DEF PopenClient

LEMMA ClientToldStep ==
  ASSUME PopenTypeOK, NEW c \in Audience, PopenClient(c),
         NEW d \in Audience, NEW n \in 0..Len(Delivered(d)), Told(d, n)
  PROVE  \E m \in 0..Len(Delivered(d)') : Told(d, m)'
  <1>1. /\ UNCHANGED <<popen, clientFDs, startClient, i, said, entered, left_at, childOver>>
        /\ member[d] = "gone" => member'[d] = "gone"
        /\ d # c => member'[d] = member[d]
    BY DEF PopenClient, MemberConnects, MemberListens, MemberReads, Takes, MemberMeetsEnd,
       MemberGoes, MemberTypes, PopenTypeOK
  <1>2. /\ HandedOver(d)' <=> HandedOver(d)
        /\ Accepted(d)' <=> Accepted(d)
        /\ Owed(d)' = Owed(d)
    BY <1>1 DEF HandedOver, Accepted, Owed
  <1>3. Delivered(d)' = Delivered(d)
    <2>1. CASE MemberListens(c) \/ MemberReads(c)
      BY <2>1, ReadsAre
    <2>2. CASE ~(MemberListens(c) \/ MemberReads(c))
      BY <2>2 DEF PopenClient, MemberConnects, MemberMeetsEnd, MemberGoes, MemberTypes, Delivered
    <2>. QED
      BY <2>1, <2>2
  <1>4. Heard(d)' = Heard(d)
    <2>1. CASE \E line \in EchoLines : MemberTypes(c, line)
      <3>1. PICK line \in EchoLines : MemberTypes(c, line)
        BY <2>1
      <3>2. /\ \A e \in Audience : e # c => toEcho'[e] = toEcho[e] /\ saidTo'[e] = saidTo[e]
            /\ Len(line) \in Nat /\ saidTo'[c] = saidTo[c] + Len(line)
            /\ Len(toEcho'[c]) = Len(toEcho[c]) + Len(line)
        BY <3>1, TypesIs
      <3>3. PICK x \in Nat, l \in Nat, w \in Nat :
               x = saidTo[d] /\ l = Len(toEcho[d]) /\ w = Len(line)
        BY <3>2, TypedTypes
      <3>4. \/ saidTo'[d] = x /\ Len(toEcho'[d]) = l
            \/ saidTo'[d] = x + w /\ Len(toEcho'[d]) = l + w
        BY <3>2, <3>3
      <3>5. (x + w) - (l + w) = x - l
        OBVIOUS
      <3>. QED
        BY <3>3, <3>4, <3>5 DEF Heard
    <2>2. CASE ~ \E line \in EchoLines : MemberTypes(c, line)
      <3>1. UNCHANGED <<toEcho, saidTo>>
        BY <2>2 DEF PopenClient, MemberConnects, MemberListens, MemberReads, Takes, MemberMeetsEnd,
           MemberGoes
      <3>. QED
        BY <3>1 DEF Heard
    <2>. QED
      BY <2>1, <2>2
  <1>5. HandedOver(d) \/ member'[d] \in {member[d], "listening", "gone"}
    BY <1>1, NotHandedOver
  <1>6. said \in Nat
    BY DEF PopenTypeOK
  <1>. QED
    BY <1>1, <1>2, <1>3, <1>4, <1>5, <1>6, ToldStill

\* The whole of what the popen server's proof carries along: types, that a
\* client is in one place only, the mask, the words typed, and what each client
\* has been told and is still owed.
THEOREM PopenInvariant == PopenSpec => []PopenInv
  <1>1. PopenInit => PopenInv
    <2> SUFFICES ASSUME PopenInit PROVE PopenInv
      OBVIOUS
    <2>1. PopenTypeOK
      <3>1. <<>> \in Seq(Audience) /\ <<>> \in Seq(Output) /\ <<>> \in Seq(TypedWord) /\ Len(clientFDs) = 0
        BY QueueTypes DEF PopenInit
      <3>2. startClient \in 0..Len(clientFDs)
        BY <3>1 DEF PopenInit
      <3>3. /\ toMember \in [Audience -> Seq(Output)] /\ printed \in [Audience -> Seq(Output)]
            /\ toEcho \in [Audience -> Seq(TypedWord)]
        BY <3>1 DEF PopenInit
      <3>. QED
        BY <3>1, <3>2, <3>3 DEF PopenInit, PopenTypeOK
    <2>2. /\ \A c \in Audience : Delivered(c) = <<>> /\ toEcho[c] = <<>>
          /\ \A c \in Audience : ~Accepted(c) /\ ~IsQueued(c) /\ ~HandedOver(c)
      BY DEF PopenInit, Delivered, Accepted, IsQueued, HandedOver
    <2>3. OneEntry /\ MaskedWhileSending /\ WordsInOrder
      BY <2>2 DEF PopenInit, OneEntry, MaskedWhileSending, WordsInOrder
    <2>4. ASSUME NEW c \in Audience PROVE 0 \in 0..Len(Delivered(c)) /\ Told(c, 0)
      <3>1. /\ Delivered(c) = <<>> /\ Len(Delivered(c)) = 0 /\ entered[c] = 0 /\ said = 0
            /\ member[c] = "home"
        BY <2>2 DEF PopenInit
      <3>2. Story(Delivered(c), entered[c], 0)
        BY <3>1, NothingTold
      <3>. QED
        BY <2>2, <3>1, <3>2 DEF Told, Until
    <2>. QED
      BY <2>1, <2>3, <2>4 DEF PopenInv, AllTold
  <1>2. PopenInv /\ [PopenNext]_popenVars => PopenInv'
    <2> SUFFICES ASSUME PopenInv, [PopenNext]_popenVars PROVE PopenInv'
      OBVIOUS
    <2>1. PopenTypeOK /\ OneEntry /\ MaskedWhileSending /\ WordsInOrder /\ AllTold
      BY DEF PopenInv
    <2>2. CASE PopenNext
      <3>1. PopenTypeOK' /\ OneEntry' /\ MaskedWhileSending' /\ WordsInOrder'
        BY <2>1, <2>2, PopenTypeStep, OneEntryStep, MaskedStep, TypedStep
      <3>2. ASSUME NEW d \in Audience PROVE \E m \in 0..Len(Delivered(d)') : Told(d, m)'
        <4>1. PICK n \in 0..Len(Delivered(d)) : Told(d, n)
          BY <2>1 DEF AllTold
        <4>2. CASE PopenMain \/ P4Signals \/ sigHandlerIdle
          BY <2>1, <3>1, <4>1, <4>2, MainToldStep
        <4>3. CASE sigHandler
          BY <2>1, <4>1, <4>3, HandedToldStep
        <4>4. ASSUME NEW c \in Audience, PopenClient(c) PROVE \E m \in 0..Len(Delivered(d)') : Told(d, m)'
          BY <2>1, <4>1, <4>4, ClientToldStep
        <4>5. ASSUME NEW c \in Audience, EchoAnswers(c) PROVE \E m \in 0..Len(Delivered(d)') : Told(d, m)'
          BY <2>1, <4>1, <4>5, EchoToldStep
        <4>. QED
          BY <2>2, <4>2, <4>3, <4>4, <4>5 DEF PopenNext
      <3>. QED
        BY <3>1, <3>2 DEF PopenInv, AllTold
    <2>3. CASE UNCHANGED popenVars
      <3>1. UNCHANGED <<overlaid, popen, readable, listenerSet, usr1, masked, queued, clientFDs,
               startClient, i, said, raised, member, saidTo, printed, toMember, toEcho,
               childOver, wasted, entered, left_at>>
        BY <2>3 DEF popenVars, clientVars
      <3>2. PopenTypeOK'
        BY <2>1, <3>1 DEF PopenTypeOK
      <3>3. OneEntry' /\ MaskedWhileSending' /\ WordsInOrder'
        BY <2>1, <3>1 DEF OneEntry, MaskedWhileSending, WordsInOrder, Accepted, IsQueued, Delivered
      <3>4. \A d \in Audience : Delivered(d)' = Delivered(d)
        BY <3>1 DEF Delivered
      <3>5. AllTold'
        BY <2>1, <3>1, <3>4 DEF AllTold, Told, Until, Owed, Heard, Accepted, HandedOver
      <3>. QED
        BY <3>2, <3>3, <3>5 DEF PopenInv
    <2>. QED
      BY <2>2, <2>3
  <1>. QED
    BY <1>1, <1>2, PTL DEF PopenSpec

\* A client of the popen server gets the texts from its acceptance to its
\* hand-over, each once and in order, none missing, then "toEcho", then the
\* answers to its first words, one for each and in order; for any number of
\* clients, texts, signals, words and lines, and wherever SIGUSR1 arrives
\* (sigHandler and the masks in main of q3/server.c, echo.c and q3/client.c).
THEOREM NewsThenEchoesAlways == PopenSpec => []NewsThenEchoes
  <1>1. PopenInv => NewsThenEchoes
    BY DEF PopenInv, AllTold, NewsThenEchoes, Told
  <1>. QED
    BY <1>1, PopenInvariant, PTL

-----------------------------------------------------------------------------
(* inetd: the units of answers *)

LEMMA SizeIs ==
  ASSUME NEW word
  PROVE  /\ Size(word) \in Nat /\ 1 <= Size(word) /\ Size(word) <= 2 * ReadSize
         /\ word = "long" => ReadSize < Size(word)
         /\ word # "long" => Size(word) = 1
         /\ ReadSize \in Nat /\ 1 < ReadSize
  BY InetdAssumption DEF Size

LEMMA LongsAre ==
  ASSUME NEW line, NEW n \in Nat
  PROVE  /\ Longs(line, 0) = 0 /\ Longs(line, n) \in Nat /\ Longs(line, n) <= n
         /\ Longs(line, n + 1) = Longs(line, n) + (IF line[n + 1] = "long" THEN 1 ELSE 0)
         /\ \A m \in 0..n : Longs(line, m) <= Longs(line, n) /\ Longs(line, m) \in Nat
  <1> DEFINE T(m) == {k \in 1..m : line[k] = "long"}
  <1>1. ASSUME NEW m \in Nat
        PROVE  IsFiniteSet(T(m)) /\ Cardinality(T(m)) \in Nat /\ Cardinality(T(m)) <= m
    <2>1. IsFiniteSet(1..m) /\ Cardinality(1..m) = m
      BY FS_Interval
    <2>2. T(m) \subseteq 1..m
      OBVIOUS
    <2> HIDE DEF T
    <2>. QED
      BY <2>1, <2>2, FS_Subset, FS_CardinalityType
  <1>2. Longs(line, 0) = 0
    <2>1. T(0) = {}
      OBVIOUS
    <2>. QED
      BY <2>1, FS_EmptySet DEF Longs
  <1>3. Longs(line, n + 1) = Longs(line, n) + (IF line[n + 1] = "long" THEN 1 ELSE 0)
    <2>1. \A k : k \in 1..(n + 1) <=> (k \in 1..n \/ k = n + 1)
      OBVIOUS
    <2>2. n + 1 \notin T(n)
      OBVIOUS
    <2>3. CASE line[n + 1] = "long"
      <3>1. T(n + 1) = T(n) \cup {n + 1}
        BY <2>1, <2>3
      <3>2. Cardinality(T(n) \cup {n + 1}) = Cardinality(T(n)) + 1
        <4>1. IsFiniteSet(T(n))
          BY <1>1
        <4> HIDE DEF T
        <4>. QED
          BY <2>2, <4>1, FS_AddElement
      <3>. QED
        BY <2>3, <3>1, <3>2 DEF Longs
    <2>4. CASE line[n + 1] # "long"
      <3>1. T(n + 1) = T(n)
        BY <2>1, <2>4
      <3>2. Cardinality(T(n)) \in Nat
        BY <1>1
      <3>. QED
        BY <2>4, <3>1, <3>2 DEF Longs
    <2>. QED
      BY <2>3, <2>4
  <1>4. ASSUME NEW m \in 0..n PROVE Longs(line, m) <= Longs(line, n) /\ Longs(line, m) \in Nat
    <2>1. m \in Nat /\ T(m) \subseteq T(n) /\ IsFiniteSet(T(n))
      BY <1>1
    <2>2. Cardinality(T(m)) \in Nat
      BY <1>1, <2>1
    <2> HIDE DEF T
    <2>3. Cardinality(T(m)) <= Cardinality(T(n))
      BY <2>1, FS_Subset
    <2>. QED
      BY <2>2, <2>3 DEF Longs, T
  <1>5. Longs(line, n) \in Nat /\ Longs(line, n) <= n
    BY <1>1 DEF Longs
  <1>. QED
    BY <1>2, <1>3, <1>4, <1>5

LEMMA Distributes ==
  ASSUME NEW a \in Nat, NEW b \in Nat, NEW c \in Nat, b <= c
  PROVE  a * (b + 1) = a * b + a /\ a * b \in Nat /\ a * b <= a * c
  <1>1. PICK e \in Nat : c = b + e
    <2>1. c - b \in Nat /\ c = b + (c - b)
      OBVIOUS
    <2>. QED
      BY <2>1
  <1>2. a * c = a * b + a * e /\ a * b \in Nat /\ a * e \in Nat
    BY <1>1
  <1>. QED
    BY <1>2

\* The units of the answers to the first words grow by each answer.
LEMMA UnitsAre ==
  ASSUME NEW line, NEW n \in Nat
  PROVE  /\ Units(line, 0) = 0 /\ Units(line, n) \in Nat
         /\ Units(line, n + 1) = Units(line, n) + Size(line[n + 1])
         /\ \A m \in 0..n : Units(line, m) \in Nat /\ Units(line, m) + (n - m) <= Units(line, n)
  <1>1. LongAnswer - 1 \in Nat /\ LongAnswer \in Nat
    BY InetdAssumption
  <1>2. PICK a \in Nat : a = LongAnswer - 1
    BY <1>1
  <1>3. PICK x \in Nat : x = Longs(line, n)
    BY LongsAre
  <1>4. Units(line, 0) = 0
    BY <1>2, LongsAre DEF Units
  <1>5. Units(line, n) = n + a * x /\ Units(line, n) \in Nat
    BY <1>2, <1>3, Distributes DEF Units
  <1>6. Units(line, n + 1) = Units(line, n) + Size(line[n + 1])
    <2>1. Longs(line, n + 1) = x + (IF line[n + 1] = "long" THEN 1 ELSE 0)
      BY <1>3, LongsAre
    <2>2. a * (x + 1) = a * x + a /\ a * x \in Nat
      BY Distributes
    <2>3. CASE line[n + 1] = "long"
      <3>1. Units(line, n + 1) = (n + 1) + a * (x + 1) /\ Size(line[n + 1]) = a + 1
        BY <1>1, <1>2, <2>1, <2>3 DEF Units, Size
      <3>. QED
        BY <1>5, <2>2, <3>1
    <2>4. CASE line[n + 1] # "long"
      <3>1. Units(line, n + 1) = (n + 1) + a * x /\ Size(line[n + 1]) = 1
        BY <1>2, <2>1, <2>4 DEF Units, Size
      <3>. QED
        BY <1>5, <2>2, <3>1
    <2>. QED
      BY <2>3, <2>4
  <1>7. ASSUME NEW m \in 0..n
        PROVE  Units(line, m) \in Nat /\ Units(line, m) + (n - m) <= Units(line, n)
    <2>1. PICK y \in Nat : y = Longs(line, m) /\ y <= x
      BY <1>3, LongsAre
    <2>2. Units(line, m) = m + a * y /\ a * y \in Nat /\ a * x \in Nat /\ a * y <= a * x
      BY <1>2, <2>1, Distributes DEF Units
    <2>. QED
      BY <1>5, <2>2
  <1>. QED
    BY <1>4, <1>5, <1>6, <1>7

\* What was counted stays, as words are added.
LEMMA SameWords ==
  ASSUME NEW line, NEW more, NEW n \in Nat, \A k \in 1..n : more[k] = line[k]
  PROVE  /\ \A m \in 0..n : Longs(more, m) = Longs(line, m)
         /\ \A m \in 0..n : Units(more, m) = Units(line, m) /\ Cost(more, m) = Cost(line, m)
  <1>1. ASSUME NEW m \in 0..n PROVE Longs(more, m) = Longs(line, m)
    <2>1. {k \in 1..m : more[k] = "long"} = {k \in 1..m : line[k] = "long"}
      OBVIOUS
    <2>. QED
      BY <2>1 DEF Longs
  <1>. QED
    BY <1>1 DEF Units, Cost

LEMMA AnswerType ==
  ASSUME NEW service \in TcpServices, NEW n \in Nat, NEW word
  PROVE  Answer(service, n, word) \in Seq(Unit)
  <1>1. PICK size \in Nat : size = Size(word)
    BY SizeIs
  <1>2. \A part \in 1..size : [service |-> service, word |-> n, part |-> part] \in Unit
    BY DEF Unit
  <1>. QED
    BY <1>1, <1>2 DEF Answer

\* One answer more.
LEMMA AnswerFollows ==
  ASSUME NEW c \in Callers, NEW n \in Nat, NEW units \in Seq(Unit), dialled[c] \in TcpServices,
         AnswersTo(c, n, units)
  PROVE  /\ Answer(dialled[c], n + 1, typed[c][n + 1]) \in Seq(Unit)
         /\ AnswersTo(c, n + 1, units \o Answer(dialled[c], n + 1, typed[c][n + 1]))
  <1>1. PICK size \in Nat : size = Size(typed[c][n + 1]) /\ 1 <= size
    BY SizeIs
  <1>2. PICK answer : answer = Answer(dialled[c], n + 1, typed[c][n + 1])
    OBVIOUS
  <1>3. /\ answer \in Seq(Unit) /\ Len(answer) = size
        /\ \A part \in 1..size : answer[part] = [service |-> dialled[c], word |-> n + 1, part |-> part]
    <2>1. \A part \in 1..size : [service |-> dialled[c], word |-> n + 1, part |-> part] \in Unit
      BY DEF Unit
    <2>2. answer = [part \in 1..size |-> [service |-> dialled[c], word |-> n + 1, part |-> part]]
      BY <1>1, <1>2 DEF Answer
    <2>3. answer \in [1..size -> Unit]
      BY <2>1, <2>2
    <2>. QED
      BY <2>2, <2>3
  <1>4. /\ Len(units \o answer) = Len(units) + size
        /\ \A k \in 1..Len(units) : (units \o answer)[k] = units[k]
        /\ \A k \in 1..size : (units \o answer)[Len(units) + k] = answer[k]
    <2>1. /\ Len(units \o answer) = Len(units) + Len(answer)
          /\ \A k \in 1..Len(units) : (units \o answer)[k] = units[k]
          /\ \A k \in 1..Len(answer) : (units \o answer)[Len(units) + k] = answer[k]
      <3>1. answer \in Seq(Unit)
        BY <1>3
      <3>. QED
        BY <3>1, Joined
    <2>. QED
      BY <1>3, <2>1
  <1>5. /\ Len(units) = Units(typed[c], n) /\ Units(typed[c], n) \in Nat
        /\ Units(typed[c], n + 1) = Units(typed[c], n) + size
    BY <1>1, UnitsAre DEF AnswersTo
  <1>6. ASSUME NEW k \in 1..(n + 1), NEW part \in 1..Size(typed[c][k])
        PROVE  (units \o answer)[Units(typed[c], k - 1) + part]
                  = [service |-> dialled[c], word |-> k, part |-> part]
    <2>1. CASE k = n + 1
      <3>1. k - 1 = n /\ part \in 1..size
        BY <1>1, <2>1
      <3>. QED
        BY <1>3, <1>4, <1>5, <2>1, <3>1
    <2>2. CASE k # n + 1
      <3>1. k \in 1..n /\ k \in Nat /\ k - 1 \in Nat /\ (k - 1) + 1 = k
        BY <2>2
      <3>2. Units(typed[c], k) = Units(typed[c], k - 1) + Size(typed[c][k]) /\ Units(typed[c], k - 1) \in Nat
        <4>1. Units(typed[c], (k - 1) + 1) = Units(typed[c], k - 1) + Size(typed[c][(k - 1) + 1])
          BY <3>1, UnitsAre
        <4>. QED
          BY <3>1, <4>1, UnitsAre
      <3>3. Units(typed[c], k) + (n - k) <= Units(typed[c], n) /\ k \in 0..n
        BY <3>1, UnitsAre
      <3>4. Units(typed[c], k - 1) + part \in 1..Len(units)
        <4>1. PICK b \in Nat, e \in Nat : b = Units(typed[c], k - 1) /\ e = Size(typed[c][k])
          BY <3>2, SizeIs
        <4>2. b + e + (n - k) <= Len(units) /\ Len(units) \in Nat /\ part \in 1..e /\ 0 <= n - k
          BY <1>5, <3>1, <3>2, <3>3, <4>1
        <4>5. b + e <= Len(units)
          <5>1. k \in Nat /\ k <= n /\ n \in Nat
            BY <3>1
          <5>2. n - k \in Nat
            BY ONLY <5>1
          <5>3. PICK g \in Nat, l \in Nat : g = n - k /\ l = Len(units)
            BY ONLY <5>2, <4>2
          <5>4. b + e + g <= l
            BY <4>2, <5>3
          <5>5. b + e <= l
            BY ONLY <4>1, <5>3, <5>4
          <5>. QED
            BY <5>3, <5>5
        <4>6. part \in Nat /\ 1 <= part /\ part <= e
          BY <4>1, <4>2
        <4>3. b + part \in 1..Len(units)
          BY ONLY <4>1, <4>2, <4>5, <4>6
        <4>. QED
          BY <4>1, <4>3
      <3>. QED
        BY <1>4, <3>1, <3>4 DEF AnswersTo
    <2>. QED
      BY <2>1, <2>2
  <1>. QED
    BY <1>2, <1>3, <1>4, <1>5, <1>6 DEF AnswersTo

-----------------------------------------------------------------------------
(* inetd: its steps *)

\* The connection that is accepted, by either form of the server.
LEMMA AcceptIs ==
  ASSUME InetdTypeOK, RightService, NEW t \in TcpServices, AcceptTcp(t) \/ AcceptForThread(t)
  PROVE  \E c \in Callers, state \in {"up", "thread"} :
            /\ ringing[t] # <<>> /\ ringing[t] \in Seq(Callers) /\ Rings(c, t)
            /\ revents' = revents \ {t} /\ ringing' = [ringing EXCEPT ![t] = Tail(@)]
            /\ child' = [child EXCEPT ![c] = [runs |-> t, state |-> state]]
            /\ UNCHANGED <<wordsRead, broken, words, stream, callerVars>>
  <1>1. t \in revents
    BY DEF AcceptTcp, AcceptForThread
  <1>2. ringing[t] # <<>> /\ ringing[t] \in Seq(Callers)
    BY <1>1 DEF RightService, InetdTypeOK
  <1>3. PICK c \in Callers : c = Head(ringing[t]) /\ Rings(c, t)
    BY <1>2, QueueTypes DEF Rings
  <1>4. CASE AcceptTcp(t)
    BY <1>2, <1>3, <1>4 DEF AcceptTcp
  <1>5. CASE AcceptForThread(t)
    BY <1>2, <1>3, <1>5 DEF AcceptForThread
  <1>. QED
    BY <1>4, <1>5

\* What a service does with the next word.
LEMMA AnswersIs ==
  ASSUME InetdTypeOK, RightService, WordsOnTheirWay, NEW c \in Callers, ServiceAnswers(c)
  PROVE  /\ words[c] # <<>> /\ words[c] \in Seq({"short", "long", "exit"})
         /\ words' = [words EXCEPT ![c] = Tail(@)]
         /\ wordsRead' = [wordsRead EXCEPT ![c] = @ + 1]
         /\ child' = child \/ child' = [child EXCEPT ![c].state = "ended"]
         /\ child[c].state = "up"
         /\ broken' \in [Callers -> BOOLEAN]
         /\ stream' = [stream EXCEPT ![c] =
                          IF caller[c] = "gone" THEN @
                          ELSE @ \o Answer(dialled[c], wordsRead[c] + 1, typed[c][wordsRead[c] + 1])]
         /\ dialled[c] \in TcpServices
         /\ UNCHANGED <<revents, ringing, callerVars>>
  <1>1. /\ words[c] # <<>> /\ words[c] \in Seq({"short", "long", "exit"}) /\ child[c].state = "up"
        /\ words' = [words EXCEPT ![c] = Tail(@)]
        /\ wordsRead' = [wordsRead EXCEPT ![c] = @ + 1]
        /\ UNCHANGED <<revents, ringing, callerVars>>
    BY DEF ServiceAnswers, InetdTypeOK
  <1>2. child[c].runs = dialled[c] /\ dialled[c] \in TcpServices
    BY <1>1 DEF RightService
  <1>3. wordsRead[c] \in Nat /\ wordsRead'[c] = wordsRead[c] + 1
    BY <1>1 DEF InetdTypeOK
  <1>4. Head(words[c]) = typed[c][wordsRead[c] + 1]
    <2>1. Head(words[c]) = words[c][1] /\ 1 \in 1..Len(words[c])
      BY <1>1, QueueTypes
    <2>. QED
      BY <2>1 DEF WordsOnTheirWay
  <1>5. caller[c] # "gone" => Head(words[c]) # "exit"
    <2>1. typed[c] \in Seq({"short", "long", "exit"}) /\ 1 \in 1..Len(words[c])
      BY <1>1, QueueTypes DEF InetdTypeOK
    <2>2. wordsRead[c] + 1 \in 1..Len(typed[c])
      <3>1. wordsRead[c] + Len(words[c]) = Len(typed[c]) /\ Len(words[c]) \in Nat /\ Len(typed[c]) \in Nat
        BY <1>1, <2>1, QueueTypes DEF WordsOnTheirWay
      <3>2. 1 <= Len(words[c])
        BY <2>1
      <3>. QED
        BY <1>3, <3>1, <3>2
    <2>. QED
      BY <1>4, <2>2 DEF WordsOnTheirWay
  <1>6. stream \in [Callers -> Seq(Unit)] /\ child \in [Callers -> [runs : TcpServices \cup {NoService},
                              state : {"none", "thread", "up", "spinning", "ended"}]]
    BY DEF InetdTypeOK
  <1>7. PICK answer : answer = Answer(child[c].runs, wordsRead'[c], Head(words[c]))
    OBVIOUS
  <1>8. \/ /\ caller[c] = "gone" /\ stream' = stream /\ broken' \in [Callers -> BOOLEAN]
           /\ child' = child \/ child' = [child EXCEPT ![c].state = "ended"]
        \/ /\ caller[c] # "gone" /\ stream' = [stream EXCEPT ![c] = @ \o answer]
           /\ broken' = broken /\ child' = child
    <2>1. broken \in [Callers -> BOOLEAN]
      BY DEF InetdTypeOK
    <2>. QED
      BY <1>5, <1>7, <2>1 DEF ServiceAnswers
  <1>9. stream' = [stream EXCEPT ![c] =
                          IF caller[c] = "gone" THEN @
                          ELSE @ \o Answer(dialled[c], wordsRead[c] + 1, typed[c][wordsRead[c] + 1])]
    BY <1>2, <1>3, <1>4, <1>6, <1>7, <1>8
  <1>10. broken \in [Callers -> BOOLEAN]
    BY DEF InetdTypeOK
  <1>. QED
    BY <1>1, <1>2, <1>8, <1>9, <1>10

\* What one read takes over.
LEMMA ReadIs ==
  ASSUME InetdTypeOK, NEW c \in Callers, Reads128(c)
  PROVE  /\ heardUnits' \in [Callers -> Seq(Unit)] /\ stream' \in [Callers -> Seq(Unit)]
         /\ Sent(c)' = Sent(c)
         /\ \A d \in Callers : d # c => heardUnits'[d] = heardUnits[d] /\ stream'[d] = stream[d]
         /\ \/ Len(heardUnits'[c]) = Len(heardUnits[c]) + ReadSize
            \/ Len(heardUnits'[c]) = Len(Sent(c)) /\ Len(heardUnits[c]) < Len(heardUnits'[c])
         /\ Len(heardUnits[c]) < Len(heardUnits'[c])
         /\ Len(heardUnits'[c]) \in Nat /\ Len(heardUnits[c]) \in Nat
         /\ caller[c] = "reading" /\ caller' = [caller EXCEPT ![c] = "prompt"]
         /\ UNCHANGED <<revents, ringing, childVars, words, dialled, typed>>
  <1>1. PICK n \in Nat : n = IF Len(stream[c]) < ReadSize THEN Len(stream[c]) ELSE ReadSize
    BY InetdAssumption DEF InetdTypeOK
  <1>2. /\ stream[c] \in Seq(Unit) /\ heardUnits[c] \in Seq(Unit)
        /\ stream \in [Callers -> Seq(Unit)] /\ heardUnits \in [Callers -> Seq(Unit)]
    BY DEF InetdTypeOK
  <1>3. /\ heardUnits' = [heardUnits EXCEPT ![c] = @ \o SubSeq(stream[c], 1, n)]
        /\ stream' = [stream EXCEPT ![c] = SubSeq(@, n + 1, Len(@))]
        /\ caller[c] = "reading" /\ caller' = [caller EXCEPT ![c] = "prompt"] /\ n > 0
        /\ UNCHANGED <<revents, ringing, childVars, words, dialled, typed>>
    BY <1>1 DEF Reads128
  <1>4. /\ n \in 1..Len(stream[c]) /\ Len(stream[c]) \in Nat
        /\ n = ReadSize \/ n = Len(stream[c])
    BY <1>1, <1>2, <1>3, InetdAssumption
  <1>5. PICK s \in Seq(Unit), h \in Seq(Unit) : s = stream[c] /\ h = heardUnits[c]
    BY <1>2
  <1>6. PICK a, b : a = SubSeq(s, 1, n) /\ b = SubSeq(s, n + 1, Len(s))
    OBVIOUS
  <1>7. /\ heardUnits'[c] = h \o a /\ stream'[c] = b
        /\ heardUnits' = [heardUnits EXCEPT ![c] = h \o a] /\ stream' = [stream EXCEPT ![c] = b]
    BY <1>2, <1>3, <1>5, <1>6
  <1>8. /\ (h \o a) \o b = h \o s /\ h \o a \in Seq(Unit) /\ b \in Seq(Unit)
        /\ Len(h \o a) = Len(h) + n /\ Len(h \o s) = Len(h) + Len(s)
        /\ Len(h) \in Nat
    <2>1. n \in 1..Len(s)
      BY <1>4, <1>5
    <2>. QED
      <3>1. \A x, y \in Seq(Unit) : \A z \in 1..Len(y) :
               /\ (x \o SubSeq(y, 1, z)) \o SubSeq(y, z + 1, Len(y)) = x \o y
               /\ x \o SubSeq(y, 1, z) \in Seq(Unit) /\ SubSeq(y, z + 1, Len(y)) \in Seq(Unit)
               /\ Len(x \o SubSeq(y, 1, z)) = Len(x) + z /\ Len(x \o y) = Len(x) + Len(y)
               /\ Len(x) \in Nat
        BY SplitJoins, Zenon
      <3>. QED
        BY <1>6, <2>1, <3>1, Zenon
  <1>9. Sent(c)' = Sent(c) /\ Len(Sent(c)) = Len(h) + Len(s)
    BY <1>5, <1>7, <1>8 DEF Sent
  <1>10. heardUnits' \in [Callers -> Seq(Unit)] /\ stream' \in [Callers -> Seq(Unit)]
    BY <1>2, <1>7, <1>8
  <1>11. \A d \in Callers : d # c => heardUnits'[d] = heardUnits[d] /\ stream'[d] = stream[d]
    BY <1>2, <1>3
  <1>12. \/ Len(heardUnits'[c]) = Len(heardUnits[c]) + ReadSize
         \/ Len(heardUnits'[c]) = Len(Sent(c)) /\ Len(heardUnits[c]) < Len(heardUnits'[c])
    <2>1. Len(heardUnits'[c]) = Len(h) + n /\ Len(heardUnits[c]) = Len(h) /\ Len(s) = Len(stream[c])
      BY <1>5, <1>7, <1>8
    <2>. QED
      <3>1. Len(s) \in Nat /\ n > 0 /\ n \in Nat /\ (n = ReadSize \/ n = Len(s))
        BY <1>3, <1>4, <2>1
      <3>. QED
        <4>1. CASE n = ReadSize
          BY <2>1, <4>1
        <4>2. CASE n = Len(s)
          <5>1. Len(heardUnits'[c]) = Len(Sent(c))
            BY <1>9, <2>1, <4>2
          <5>2. Len(heardUnits[c]) < Len(heardUnits'[c])
            BY <1>8, <2>1, <3>1
          <5>. QED
            BY <5>1, <5>2
        <4>. QED
          BY <3>1, <4>1, <4>2
  <1>13. Len(heardUnits[c]) < Len(heardUnits'[c]) /\ Len(heardUnits'[c]) \in Nat /\ Len(heardUnits[c]) \in Nat
    BY <1>3, <1>5, <1>7, <1>8
  <1>. QED
    BY <1>3, <1>9, <1>10, <1>11, <1>12, <1>13

LEMMA InetdTypeStep ==
  ASSUME InetdTypeOK, RightService, WordsOnTheirWay, InetdNext
  PROVE  InetdTypeOK'
  <1> DEFINE Child == [runs : TcpServices \cup {NoService},
                       state : {"none", "thread", "up", "spinning", "ended"}]
             Text == {"short", "long", "exit"}
  <1>0. multi' = multi /\ multi \in BOOLEAN
    BY DEF InetdNext, InetdTypeOK
  <1>1. ASSUME InetdPoll \/ \E t \in UdpServices : WriteUdp(t) PROVE InetdTypeOK'
    <2>1. revents' \subseteq TcpServices \cup UdpServices
      BY <1>1 DEF InetdPoll, WriteUdp, InetdTypeOK
    <2>. QED
      BY <1>0, <1>1, <2>1 DEF InetdPoll, WriteUdp, InetdTypeOK, childVars, callerVars
  <1>2. ASSUME NEW t \in TcpServices, AcceptTcp(t) \/ AcceptForThread(t) PROVE InetdTypeOK'
    <2>1. PICK c \in Callers, state \in {"up", "thread"} :
             /\ ringing[t] # <<>> /\ ringing[t] \in Seq(Callers)
             /\ revents' = revents \ {t} /\ ringing' = [ringing EXCEPT ![t] = Tail(@)]
             /\ child' = [child EXCEPT ![c] = [runs |-> t, state |-> state]]
             /\ UNCHANGED <<wordsRead, broken, words, stream, callerVars>>
      BY <1>2, AcceptIs
    <2>2. Tail(ringing[t]) \in Seq(Callers)
      BY <2>1, QueueTypes
    <2>3. ringing' \in [TcpServices -> Seq(Callers)]
      BY <2>1, <2>2 DEF InetdTypeOK
    <2>4. child' \in [Callers -> Child]
      <3>1. [runs |-> t, state |-> state] \in Child
        OBVIOUS
      <3>. QED
        BY <2>1, <3>1 DEF InetdTypeOK
    <2>. QED
      BY <1>0, <2>1, <2>3, <2>4 DEF InetdTypeOK, callerVars
  <1>3. ASSUME NEW c \in Callers, handleFunc(c) \/ ServiceMeetsEnd(c) PROVE InetdTypeOK'
    <2>1. child' \in [Callers -> Child]
      <3>1. child[c] \in Child /\ child \in [Callers -> Child]
        BY DEF InetdTypeOK
      <3>2. PICK state \in {"up", "ended", "spinning"} : child' = [child EXCEPT ![c].state = state]
        BY <1>3 DEF handleFunc, ServiceMeetsEnd
      <3>3. [child[c] EXCEPT !.state = state] \in Child
        BY <3>1
      <3> HIDE DEF Child
      <3>. QED
        BY <3>1, <3>2, <3>3
    <2>. QED
      BY <1>0, <1>3, <2>1 DEF handleFunc, ServiceMeetsEnd, InetdTypeOK, callerVars
  <1>4. ASSUME NEW c \in Callers, ServiceAnswers(c) PROVE InetdTypeOK'
    <2>1. /\ words[c] # <<>> /\ words[c] \in Seq(Text)
          /\ words' = [words EXCEPT ![c] = Tail(@)]
          /\ wordsRead' = [wordsRead EXCEPT ![c] = @ + 1]
          /\ child' = child \/ child' = [child EXCEPT ![c].state = "ended"]
          /\ broken' \in [Callers -> BOOLEAN]
          /\ stream' = [stream EXCEPT ![c] =
                          IF caller[c] = "gone" THEN @
                          ELSE @ \o Answer(dialled[c], wordsRead[c] + 1, typed[c][wordsRead[c] + 1])]
          /\ dialled[c] \in TcpServices
          /\ UNCHANGED <<revents, ringing, callerVars>>
      BY <1>4, AnswersIs
    <2>2. child' \in [Callers -> Child]
      <3>1. child[c] \in Child /\ child \in [Callers -> Child]
        BY DEF InetdTypeOK
      <3>2. [child[c] EXCEPT !.state = "ended"] \in Child
        BY <3>1
      <3> HIDE DEF Child
      <3>. QED
        BY <2>1, <3>1, <3>2
    <2>3. words' \in [Callers -> Seq(Text)] /\ wordsRead' \in [Callers -> Nat]
      <3>1. Tail(words[c]) \in Seq(Text)
        BY <2>1, QueueTypes
      <3>. QED
        BY <2>1, <3>1 DEF InetdTypeOK
    <2>4. stream' \in [Callers -> Seq(Unit)]
      <3>1. PICK answer \in Seq(Unit) : answer = Answer(dialled[c], wordsRead[c] + 1, typed[c][wordsRead[c] + 1])
        <4>1. wordsRead[c] + 1 \in Nat
          BY DEF InetdTypeOK
        <4>2. Answer(dialled[c], wordsRead[c] + 1, typed[c][wordsRead[c] + 1]) \in Seq(Unit)
          BY <2>1, <4>1, AnswerType
        <4>. QED
          BY <4>2
      <3>2. stream[c] \o answer \in Seq(Unit) /\ stream \in [Callers -> Seq(Unit)]
        BY Joined DEF InetdTypeOK
      <3>3. stream' = [stream EXCEPT ![c] = IF caller[c] = "gone" THEN stream[c] ELSE stream[c] \o answer]
        BY <2>1, <3>1, <3>2
      <3>. QED
        BY <3>2, <3>3
    <2> HIDE DEF Child
    <2>. QED
      BY <1>0, <2>1, <2>2, <2>3, <2>4 DEF InetdTypeOK, callerVars, Child
  <1>5. ASSUME NEW c \in Callers, NEW t \in TcpServices \cup UdpServices, Dials(c, t) PROVE InetdTypeOK'
    <2>1. ringing' \in [TcpServices -> Seq(Callers)]
      <3>1. t \in TcpServices => Append(ringing[t], c) \in Seq(Callers)
        BY QueueTypes DEF InetdTypeOK
      <3>. QED
        BY <1>5, <3>1 DEF Dials, InetdTypeOK
    <2>2. /\ caller' \in [Callers -> {"home", "prompt", "reading", "udp", "gone"}]
          /\ dialled' \in [Callers -> TcpServices \cup UdpServices \cup {NoService}]
      BY <1>5 DEF Dials, InetdTypeOK
    <2>. QED
      BY <1>0, <1>5, <2>1, <2>2 DEF Dials, InetdTypeOK, childVars
  <1>6. ASSUME NEW c \in Callers, NEW word \in Text, TypesWord(c, word) PROVE InetdTypeOK'
    <2>1. Append(words[c], word) \in Seq(Text) /\ Append(typed[c], word) \in Seq(Text)
      BY QueueTypes DEF InetdTypeOK
    <2>2. /\ words' \in [Callers -> Seq(Text)] /\ typed' \in [Callers -> Seq(Text)]
          /\ caller' \in [Callers -> {"home", "prompt", "reading", "udp", "gone"}]
      BY <1>6, <2>1 DEF TypesWord, InetdTypeOK
    <2>. QED
      BY <1>0, <1>6, <2>2 DEF TypesWord, InetdTypeOK, childVars
  <1>7. ASSUME NEW c \in Callers, Reads128(c) PROVE InetdTypeOK'
    <2>1. /\ heardUnits' \in [Callers -> Seq(Unit)] /\ stream' \in [Callers -> Seq(Unit)]
          /\ caller' = [caller EXCEPT ![c] = "prompt"]
          /\ UNCHANGED <<revents, ringing, childVars, words, dialled, typed>>
      BY <1>7, ReadIs
    <2>. QED
      BY <1>0, <2>1 DEF InetdTypeOK, childVars
  <1>8. ASSUME NEW c \in Callers, Drops(c) PROVE InetdTypeOK'
    BY <1>0, <1>8 DEF Drops, InetdTypeOK, childVars
  <1>. QED
    BY <1>1, <1>2, <1>3, <1>4, <1>5, <1>6, <1>7, <1>8 DEF InetdNext, InetdServer, InetdCaller

LEMMA RightStep ==
  ASSUME InetdTypeOK, RightService, WordsOnTheirWay, InetdNext
  PROVE  RightService'
  <1>1. ASSUME InetdPoll \/ \E t \in UdpServices : WriteUdp(t) PROVE RightService'
    <2>1. ringing' = ringing /\ child' = child /\ caller' = caller /\ dialled' = dialled
      BY <1>1 DEF InetdPoll, WriteUdp, childVars, callerVars
    <2>2. \A s \in revents' \cap TcpServices : ringing[s] # <<>>
      BY <1>1, InetdAssumption DEF InetdPoll, WriteUdp, RightService
    <2>. QED
      BY <2>1, <2>2 DEF RightService, Rings
  <1>2. ASSUME NEW t \in TcpServices, AcceptTcp(t) \/ AcceptForThread(t) PROVE RightService'
    <2>1. PICK c \in Callers, state \in {"up", "thread"} :
             /\ ringing[t] # <<>> /\ ringing[t] \in Seq(Callers) /\ Rings(c, t)
             /\ revents' = revents \ {t} /\ ringing' = [ringing EXCEPT ![t] = Tail(@)]
             /\ child' = [child EXCEPT ![c] = [runs |-> t, state |-> state]]
             /\ UNCHANGED <<wordsRead, broken, words, stream, callerVars>>
      BY <1>2, AcceptIs
    <2>2. caller' = caller /\ dialled' = dialled
      BY <2>1 DEF callerVars
    <2>3. /\ ringing'[t] = Tail(ringing[t])
          /\ \A s \in TcpServices : s # t => ringing'[s] = ringing[s]
          /\ child'[c] = [runs |-> t, state |-> state]
          /\ \A d \in Callers : d # c => child'[d] = child[d]
      BY <2>1 DEF InetdTypeOK
    <2>4. \A s \in revents' \cap TcpServices : ringing'[s] # <<>>
      BY <2>1, <2>3 DEF RightService
    <2>5. ASSUME NEW d \in Callers, NEW s \in TcpServices, Rings(d, s)' PROVE Rings(d, s)
      <3>1. CASE s = t
        <4>1. PICK k \in 1..Len(Tail(ringing[t])) : Tail(ringing[t])[k] = d
          BY <2>3, <2>5, <3>1 DEF Rings
        <4>2. k + 1 \in 1..Len(ringing[t]) /\ ringing[t][k + 1] = d
          BY <2>1, <4>1, TailItem
        <4>. QED
          BY <3>1, <4>2 DEF Rings
      <3>2. CASE s # t
        BY <2>3, <2>5, <3>2 DEF Rings
      <3>. QED
        BY <3>1, <3>2
    <2>6. caller[c] # "home" /\ dialled[c] = t
      BY <2>1 DEF RightService
    <2>7. ASSUME NEW d \in Callers, child'[d].state # "none"
          PROVE  caller[d] # "home" /\ child'[d].runs = dialled[d] /\ dialled[d] \in TcpServices
      BY <2>3, <2>6, <2>7 DEF RightService
    <2>. QED
      BY <2>2, <2>4, <2>5, <2>7 DEF RightService
  <1>3. ASSUME NEW c \in Callers, UNCHANGED <<revents, ringing, caller, dialled>>,
               child' = child \/ (child[c].state # "none" /\ \E state : child' = [child EXCEPT ![c].state = state])
        PROVE  RightService'
    <2>1. \A d \in Callers : child'[d].runs = child[d].runs /\ (child'[d].state # "none" => child[d].state # "none")
      <3>1. CASE child' = child
        BY <3>1
      <3>2. ASSUME child[c].state # "none", NEW state, child' = [child EXCEPT ![c].state = state],
                   NEW d \in Callers
            PROVE  child'[d].runs = child[d].runs /\ (child'[d].state # "none" => child[d].state # "none")
        <4>1. child \in [Callers -> [runs : TcpServices \cup {NoService},
                                     state : {"none", "thread", "up", "spinning", "ended"}]]
          BY DEF InetdTypeOK
        <4>2. CASE d = c
          <5>1. child'[c] = [child[c] EXCEPT !.state = state]
            BY <3>2, <4>1
          <5>2. [child[c] EXCEPT !.state = state].runs = child[c].runs
            BY <4>1
          <5>. QED
            BY <3>2, <4>2, <5>1, <5>2
        <4>3. CASE d # c
          BY <3>2, <4>1, <4>3
        <4>. QED
          BY <4>2, <4>3
      <3>. QED
        BY <1>3, <3>1, <3>2
    <2>. QED
      BY <1>3, <2>1 DEF RightService, Rings
  <1>4. ASSUME NEW c \in Callers, handleFunc(c) \/ ServiceMeetsEnd(c) \/ ServiceAnswers(c) PROVE RightService'
    <2>1. UNCHANGED <<revents, ringing, caller, dialled>>
      BY <1>4 DEF handleFunc, ServiceMeetsEnd, ServiceAnswers, callerVars
    <2>2. child[c].state # "none"
      BY <1>4 DEF handleFunc, ServiceMeetsEnd, ServiceAnswers
    <2>3. child' = child \/ \E state : child' = [child EXCEPT ![c].state = state]
      BY <1>4, AnswersIs DEF handleFunc, ServiceMeetsEnd
    <2>. QED
      BY <1>3, <2>1, <2>2, <2>3
  <1>5. ASSUME NEW c \in Callers, NEW t \in TcpServices \cup UdpServices, Dials(c, t) PROVE RightService'
    <2>1. revents' = revents /\ child' = child /\ caller[c] = "home" /\ dialled' = [dialled EXCEPT ![c] = t]
      BY <1>5 DEF Dials, childVars
    <2>2. caller'[c] # "home" /\ dialled'[c] = t
          /\ \A d \in Callers : d # c => caller'[d] = caller[d] /\ dialled'[d] = dialled[d]
      BY <1>5 DEF Dials, InetdTypeOK
    <2>3. ringing' = ringing \/ (t \in TcpServices /\ ringing' = [ringing EXCEPT ![t] = Append(@, c)])
      BY <1>5 DEF Dials
    <2>4. ASSUME NEW s \in TcpServices
          PROVE  /\ ringing[s] # <<>> => ringing'[s] # <<>>
                 /\ \A d \in Callers : Rings(d, s)' => Rings(d, s) \/ (d = c /\ s = t)
      <3>1. CASE ringing'[s] = ringing[s]
        BY <3>1 DEF Rings
      <3>2. CASE t = s /\ ringing'[s] = Append(ringing[s], c)
        <4>1. ringing[s] \in Seq(Callers)
          BY DEF InetdTypeOK
        <4>2. Append(ringing[s], c) # <<>>
          BY <4>1
        <4>3. /\ \A k \in 1..Len(ringing[s]) : Append(ringing[s], c)[k] = ringing[s][k]
              /\ Append(ringing[s], c)[Len(ringing[s]) + 1] = c
              /\ \A k \in 1..Len(Append(ringing[s], c)) : k \in 1..Len(ringing[s]) \/ k = Len(ringing[s]) + 1
          BY <4>1, AppendItem
        <4>. QED
          BY <3>2, <4>2, <4>3 DEF Rings
      <3>. QED
        BY <2>3, <3>1, <3>2 DEF InetdTypeOK
    <2>5. child[c].state = "none" /\ \A s \in TcpServices : ~Rings(c, s)
      BY <2>1 DEF RightService
    <2>. QED
      BY <2>1, <2>2, <2>4, <2>5 DEF RightService
  <1>6. ASSUME NEW c \in Callers, Reads128(c) \/ Drops(c) \/ \E word \in {"short", "long", "exit"} : TypesWord(c, word)
        PROVE  RightService'
    <2>1. UNCHANGED <<revents, ringing, child, dialled>>
      BY <1>6 DEF Reads128, Drops, TypesWord, childVars
    <2>2. \A d \in Callers : caller[d] # "home" => caller'[d] # "home"
      BY <1>6 DEF Reads128, Drops, TypesWord, InetdTypeOK
    <2>. QED
      BY <2>1, <2>2 DEF RightService, Rings
  <1>. QED
    BY <1>1, <1>2, <1>4, <1>5, <1>6 DEF InetdNext, InetdServer, InetdCaller

LEMMA WordsStep ==
  ASSUME InetdTypeOK, RightService, WordsOnTheirWay, InetdNext
  PROVE  WordsOnTheirWay'
  <1> DEFINE W(d) ==
        /\ wordsRead[d] + Len(words[d]) = Len(typed[d])
        /\ \A k \in 1..Len(words[d]) : words[d][k] = typed[d][wordsRead[d] + k]
        /\ caller[d] # "gone" => \A k \in 1..Len(typed[d]) : typed[d][k] # "exit"
        /\ caller[d] = "home" => typed[d] = <<>>
        /\ caller[d] = "reading" => typed[d] # <<>>
  <1>0. (\A d \in Callers : W(d)) /\ (WordsOnTheirWay' <=> \A d \in Callers : W(d)')
    BY DEF WordsOnTheirWay
  <1>1. ASSUME NEW d \in Callers, wordsRead'[d] = wordsRead[d], words'[d] = words[d],
               typed'[d] = typed[d], caller'[d] = caller[d] \/ (caller[d] = "reading" /\ caller'[d] = "prompt")
                                     \/ caller'[d] = "gone"
        PROVE  W(d)'
    BY <1>0, <1>1
  <1>2. ASSUME UNCHANGED <<wordsRead, words, typed, caller>> PROVE WordsOnTheirWay'
    BY <1>0, <1>1, <1>2
  <1>3. ASSUME InetdPoll \/ \E t \in UdpServices : WriteUdp(t) PROVE WordsOnTheirWay'
    BY <1>2, <1>3 DEF InetdPoll, WriteUdp, childVars, callerVars
  <1>4. ASSUME NEW t \in TcpServices, AcceptTcp(t) \/ AcceptForThread(t) PROVE WordsOnTheirWay'
    BY <1>2, <1>4 DEF AcceptTcp, AcceptForThread, callerVars
  <1>5. ASSUME NEW c \in Callers, handleFunc(c) \/ ServiceMeetsEnd(c) PROVE WordsOnTheirWay'
    BY <1>2, <1>5 DEF handleFunc, ServiceMeetsEnd, callerVars
  <1>6. ASSUME NEW c \in Callers, ServiceAnswers(c) PROVE WordsOnTheirWay'
    <2>1. /\ words[c] # <<>> /\ words[c] \in Seq({"short", "long", "exit"})
          /\ words' = [words EXCEPT ![c] = Tail(@)]
          /\ wordsRead' = [wordsRead EXCEPT ![c] = @ + 1]
          /\ UNCHANGED callerVars
      BY <1>6, AnswersIs
    <2>2. /\ words'[c] = Tail(words[c]) /\ wordsRead'[c] = wordsRead[c] + 1 /\ wordsRead[c] \in Nat
          /\ \A d \in Callers : d # c => words'[d] = words[d] /\ wordsRead'[d] = wordsRead[d]
          /\ caller' = caller /\ typed' = typed
      BY <2>1 DEF InetdTypeOK, callerVars
    <2>3. Len(Tail(words[c])) = Len(words[c]) - 1 /\ Len(words[c]) \in Nat
      BY <2>1, QueueTypes
    <2>4. \A k \in 1..Len(Tail(words[c])) : Tail(words[c])[k] = typed[c][(wordsRead[c] + 1) + k]
      <3>1. ASSUME NEW k \in 1..Len(Tail(words[c])) PROVE Tail(words[c])[k] = typed[c][(wordsRead[c] + 1) + k]
        <4>1. k + 1 \in 1..Len(words[c]) /\ Tail(words[c])[k] = words[c][k + 1]
          BY <2>1, TailItem
        <4>2. words[c][k + 1] = typed[c][wordsRead[c] + (k + 1)]
          BY <1>0, <4>1
        <4>3. wordsRead[c] + (k + 1) = (wordsRead[c] + 1) + k
          BY <2>2, <2>3
        <4>. QED
          BY <4>1, <4>2, <4>3
      <3>. QED
        BY <3>1
    <2>5. wordsRead[c] + 1 + (Len(words[c]) - 1) = Len(typed[c])
      <3>1. PICK a \in Nat, l \in Nat : a = wordsRead[c] /\ l = Len(words[c])
        BY <2>2, <2>3
      <3>2. a + l = Len(typed[c])
        BY <1>0, <3>1
      <3>3. a + 1 + (l - 1) = a + l
        BY ONLY <3>1
      <3>. QED
        BY <3>1, <3>2, <3>3
    <2>6. W(c)'
      BY <1>0, <2>2, <2>3, <2>4, <2>5
    <2>7. ASSUME NEW d \in Callers, d # c PROVE W(d)'
      BY <1>1, <2>2, <2>7
    <2>. QED
      BY <1>0, <2>6, <2>7
  <1>7. ASSUME NEW c \in Callers, NEW t \in TcpServices \cup UdpServices, Dials(c, t) PROVE WordsOnTheirWay'
    <2>1. /\ UNCHANGED <<wordsRead, words, typed>> /\ caller[c] = "home"
          /\ caller'[c] \in {"prompt", "udp"} /\ \A d \in Callers : d # c => caller'[d] = caller[d]
      BY <1>7 DEF Dials, InetdTypeOK, childVars
    <2>2. W(c)'
      BY <1>0, <2>1
    <2>3. ASSUME NEW d \in Callers, d # c PROVE W(d)'
      BY <1>1, <2>1, <2>3
    <2>. QED
      BY <1>0, <2>2, <2>3
  <1>8. ASSUME NEW c \in Callers, NEW word \in {"short", "long", "exit"}, TypesWord(c, word) PROVE WordsOnTheirWay'
    <2>1. /\ words'[c] = Append(words[c], word) /\ typed'[c] = Append(typed[c], word)
          /\ \A d \in Callers : d # c => words'[d] = words[d] /\ typed'[d] = typed[d] /\ caller'[d] = caller[d]
          /\ wordsRead' = wordsRead /\ caller'[c] = (IF word = "exit" THEN "gone" ELSE "reading")
          /\ caller[c] = "prompt"
      BY <1>8 DEF TypesWord, InetdTypeOK, childVars
    <2>2. /\ words[c] \in Seq({"short", "long", "exit"}) /\ typed[c] \in Seq({"short", "long", "exit"})
          /\ wordsRead[c] \in Nat
      BY DEF InetdTypeOK
    <2>3. PICK w \in Seq({"short", "long", "exit"}), l \in Seq({"short", "long", "exit"}) :
             w = words[c] /\ l = typed[c]
      BY <2>2
    <2>4. /\ Len(w) \in Nat /\ Len(l) \in Nat /\ Len(Append(w, word)) = Len(w) + 1
          /\ Len(Append(l, word)) = Len(l) + 1 /\ Append(l, word) # <<>>
          /\ \A k \in 1..Len(l) : Append(l, word)[k] = l[k]
          /\ \A k \in 1..Len(w) : Append(w, word)[k] = w[k]
          /\ Append(l, word)[Len(l) + 1] = word /\ Append(w, word)[Len(w) + 1] = word
      OBVIOUS
    <2>5. wordsRead[c] + Len(w) = Len(l)
      BY <1>0, <2>3
    <2>6. ASSUME NEW k \in 1..(Len(w) + 1) PROVE Append(w, word)[k] = Append(l, word)[wordsRead[c] + k]
      <3>1. CASE k \in 1..Len(w)
        <4>1. wordsRead[c] + k \in 1..Len(l)
          BY <2>2, <2>4, <2>5, <3>1
        <4>2. w[k] = l[wordsRead[c] + k]
          BY <1>0, <2>3, <3>1
        <4>. QED
          BY <2>4, <3>1, <4>1, <4>2
      <3>2. CASE k = Len(w) + 1
        <4>1. wordsRead[c] + k = Len(l) + 1
          <5>1. PICK a \in Nat, b \in Nat : a = wordsRead[c] /\ b = Len(w)
            BY <2>2, <2>4
          <5>2. a + b = Len(l) /\ k = b + 1
            BY <2>5, <3>2, <5>1
          <5>3. a + k = (a + b) + 1
            BY <5>1, <5>2
          <5>. QED
            BY <5>1, <5>2, <5>3
        <4>. QED
          BY <2>4, <3>2, <4>1
      <3>3. k \in 1..Len(w) \/ k = Len(w) + 1
        <4>1. PICK b \in Nat : b = Len(w)
          BY <2>4
        <4>2. k \in 1..(b + 1)
          BY <4>1
        <4>3. k \in 1..b \/ k = b + 1
          BY ONLY b \in Nat, <4>2
        <4>. QED
          BY <4>1, <4>3
      <3>. QED
        BY <3>1, <3>2, <3>3
    <2>7. word # "exit" => \A k \in 1..(Len(l) + 1) : Append(l, word)[k] # "exit"
      <3>1. \A k \in 1..Len(l) : l[k] # "exit"
        BY <1>0, <2>1, <2>3
      <3>2. \A k \in 1..(Len(l) + 1) : k \in 1..Len(l) \/ k = Len(l) + 1
        BY <2>4
      <3>. QED
        BY <2>4, <3>1, <3>2
    <2>8. words'[c] = Append(w, word) /\ typed'[c] = Append(l, word) /\ wordsRead'[c] = wordsRead[c]
      BY <2>1, <2>3
    <2>9. wordsRead[c] + (Len(w) + 1) = Len(l) + 1
      BY <2>2, <2>4, <2>5
    <2>10. W(c)'
      BY <2>1, <2>4, <2>6, <2>7, <2>8, <2>9
    <2>11. ASSUME NEW d \in Callers, d # c PROVE W(d)'
      BY <1>1, <2>1, <2>11
    <2>. QED
      BY <1>0, <2>10, <2>11
  <1>9. ASSUME NEW c \in Callers, Reads128(c) \/ Drops(c) PROVE WordsOnTheirWay'
    <2>1. /\ UNCHANGED <<wordsRead, words, typed>>
          /\ \A d \in Callers : \/ caller'[d] = caller[d] \/ (caller[d] = "reading" /\ caller'[d] = "prompt")
                                \/ caller'[d] = "gone"
      BY <1>9 DEF Reads128, Drops, InetdTypeOK, childVars
    <2>. QED
      BY <1>0, <1>1, <2>1
  <1>. QED
    BY <1>3, <1>4, <1>5, <1>6, <1>7, <1>8, <1>9 DEF InetdNext, InetdServer, InetdCaller

-----------------------------------------------------------------------------
(* inetd: a caller reads fast enough *)

LEMMA CostsAre ==
  ASSUME NEW line, NEW n \in Nat
  PROVE  /\ Cost(line, 0) = 0 /\ Cost(line, n) \in Nat /\ n <= Cost(line, n)
         /\ Cost(line, n + 1) = Cost(line, n) + (IF line[n + 1] = "long" THEN 2 ELSE 1)
  BY LongsAre DEF Cost

\* What ReadEnough says of a caller that has read so often and so much.
HeardEnough(line, reads, got) ==
    /\ \A n \in 0..Len(line) : Cost(line, n) <= reads => got >= Units(line, n)
    /\ \A n \in 1..Len(line) :
          line[n] = "long" /\ Cost(line, n - 1) + 1 <= reads => got >= Units(line, n - 1) + ReadSize

\* One read more: it brings 128 bytes, or all there is of the answers to the
\* first words, and then more than was read before.
LEMMA OneRead ==
  ASSUME NEW line, Len(line) \in Nat, NEW r \in Nat, NEW h \in Nat, NEW g \in Nat,
         NEW answered \in 0..Len(line),
         HeardEnough(line, r, h), h < g,
         g = h + ReadSize \/ g = Units(line, answered)
  PROVE  HeardEnough(line, r + 1, g)
  <1>1. PICK size \in Nat : size = ReadSize
    BY InetdAssumption
  <1>2. \A n \in 0..Len(line) : n \in Nat /\ Units(line, n) \in Nat /\ Cost(line, n) \in Nat
    BY UnitsAre, CostsAre
  <1>3. \A n \in 0..Len(line) : g = Units(line, answered) /\ Units(line, n) < g => n + 1 <= answered
    <2> SUFFICES ASSUME NEW n \in 0..Len(line), Units(line, n) < Units(line, answered)
                 PROVE  n + 1 <= answered
      OBVIOUS
    <2>1. n \in Nat /\ answered \in Nat
      OBVIOUS
    <2>2. answered <= n => Units(line, answered) + (n - answered) <= Units(line, n)
      BY <2>1, UnitsAre
    <2>3. PICK a \in Nat, b \in Nat : a = Units(line, n) /\ b = Units(line, answered)
      BY <1>2
    <2>. QED
      BY <2>1, <2>2, <2>3
  <1>4. \A n \in 0..answered : Units(line, n) <= Units(line, answered)
    <2> SUFFICES ASSUME NEW n \in 0..answered PROVE Units(line, n) <= Units(line, answered)
      OBVIOUS
    <2>1. answered \in Nat
      OBVIOUS
    <2>2. Units(line, n) \in Nat /\ Units(line, n) + (answered - n) <= Units(line, answered)
      BY <2>1, UnitsAre
    <2>3. Units(line, answered) \in Nat
      BY <1>2
    <2>. QED
      BY <2>1, <2>2, <2>3
  <1>5. ASSUME NEW n \in 1..Len(line)
        PROVE  /\ n - 1 \in 0..Len(line) /\ n \in 0..Len(line)
               /\ Units(line, n) = Units(line, n - 1) + Size(line[n])
               /\ Cost(line, n) = Cost(line, n - 1) + (IF line[n] = "long" THEN 2 ELSE 1)
    <2>1. n - 1 \in Nat /\ (n - 1) + 1 = n
      OBVIOUS
    <2>2. Units(line, (n - 1) + 1) = Units(line, n - 1) + Size(line[(n - 1) + 1])
      BY <2>1, UnitsAre
    <2>3. Cost(line, (n - 1) + 1) = Cost(line, n - 1) + (IF line[(n - 1) + 1] = "long" THEN 2 ELSE 1)
      BY <2>1, CostsAre
    <2>. QED
      BY <2>1, <2>2, <2>3
  <1>6. ASSUME NEW n \in 0..Len(line), Cost(line, n) <= r + 1
        PROVE  g >= Units(line, n)
    <2>0. PICK u \in Nat, c \in Nat : u = Units(line, n) /\ c = Cost(line, n)
      BY <1>2
    <2>1. CASE c <= r
      <3>1. h >= u
        BY <2>0, <2>1 DEF HeardEnough
      <3>. QED
        BY <2>0, <3>1
    <2>2. CASE c = r + 1
      <3>1. n \in 1..Len(line)
        <4>1. n # 0
          <5>1. Cost(line, 0) = 0
            BY CostsAre
          <5>2. n = 0 => c = 0
            BY <2>0, <5>1
          <5>3. c # 0
            BY <2>2
          <5>. QED
            BY <5>2, <5>3
        <4>. QED
          BY <4>1
      <3>2. PICK v \in Nat, b \in Nat, s \in Nat :
               v = Units(line, n - 1) /\ b = Cost(line, n - 1) /\ s = Size(line[n])
        BY <1>2, <1>5, <3>1, SizeIs
      <3>3. u = v + s /\ c = b + (IF line[n] = "long" THEN 2 ELSE 1) /\ n - 1 \in 0..Len(line)
        BY <1>5, <2>0, <3>1, <3>2
      <3>4. CASE line[n] # "long"
        <4>1. s = 1 /\ b = r
          <5>1. s = 1
            BY <3>2, <3>4, SizeIs
          <5>2. c = b + 1
            BY <3>3, <3>4
          <5>. QED
            BY <2>0, <2>2, <3>2, <5>1, <5>2
        <4>2. h >= v
          BY <3>2, <3>3, <4>1 DEF HeardEnough
        <4>. QED
          BY <2>0, <3>3, <4>1, <4>2
      <3>5. CASE line[n] = "long"
        <4>1. b + 1 = r /\ s <= size + size
          <5>1. s <= 2 * ReadSize
            BY <3>2, SizeIs
          <5>. QED
            BY <1>1, <2>2, <3>3, <3>5, <5>1
        <4>2. h >= v + size
          <5>1. Cost(line, n - 1) + 1 <= r
            BY <3>2, <4>1
          <5>2. h >= Units(line, n - 1) + ReadSize
            BY <3>1, <3>5, <5>1 DEF HeardEnough
          <5>. QED
            BY <1>1, <3>2, <5>2
        <4>3. CASE g = h + ReadSize
          BY <1>1, <2>0, <3>3, <4>1, <4>2, <4>3
        <4>4. CASE g = Units(line, answered)
          <5>1. v < g
            BY <4>2
          <5>2. (n - 1) + 1 <= answered
            BY <1>3, <3>2, <3>3, <4>4, <5>1
          <5>3. n \in 0..answered
            BY <3>1, <5>2
          <5>. QED
            BY <1>2, <1>4, <4>4, <5>3
        <4>. QED
          BY <4>3, <4>4
      <3>. QED
        BY <3>4, <3>5
    <2>. QED
      BY <1>6, <2>0, <2>1, <2>2
  <1>7. ASSUME NEW n \in 1..Len(line), line[n] = "long", Cost(line, n - 1) + 1 <= r + 1
        PROVE  g >= Units(line, n - 1) + ReadSize
    <2>1. PICK v \in Nat, b \in Nat, s \in Nat :
             v = Units(line, n - 1) /\ b = Cost(line, n - 1) /\ s = Size(line[n])
      BY <1>2, <1>5, SizeIs
    <2>2. CASE b + 1 <= r
      <3>1. h >= v + size
        BY <1>1, <1>7, <2>1, <2>2 DEF HeardEnough
      <3>. QED
        BY <1>1, <2>1, <3>1
    <2>3. CASE b = r
      <3>1. h >= v
        <4>1. n - 1 \in 0..Len(line) /\ Cost(line, n - 1) <= r
          BY <1>5, <2>1, <2>3
        <4>. QED
          BY <2>1, <4>1 DEF HeardEnough
      <3>2. CASE g = h + ReadSize
        BY <1>1, <2>1, <3>1, <3>2
      <3>3. CASE g = Units(line, answered)
        <4>1. v < g
          BY <3>1
        <4>2. (n - 1) + 1 <= answered
          BY <1>3, <1>5, <2>1, <3>3, <4>1
        <4>3. n \in 0..answered
          BY <4>2
        <4>4. Units(line, n) <= g
          BY <1>4, <3>3, <4>3
        <4>5. Units(line, n) = v + s /\ size < s
          BY <1>1, <1>5, <1>7, <2>1, SizeIs
        <4>. QED
          BY <1>1, <2>1, <4>4, <4>5
      <3>. QED
        BY <3>2, <3>3
    <2>. QED
      BY <1>7, <2>1, <2>2, <2>3
  <1>. QED
    BY <1>6, <1>7 DEF HeardEnough

\* One word more, which is not read for yet.
LEMMA OneWord ==
  ASSUME NEW line, NEW more, Len(line) \in Nat, Len(more) = Len(line) + 1,
         \A k \in 1..Len(line) : more[k] = line[k],
         NEW h \in Nat, HeardEnough(line, Len(line), h)
  PROVE  HeardEnough(more, Len(line), h)
  <1>1. /\ \A m \in 0..Len(line) : Units(more, m) = Units(line, m) /\ Cost(more, m) = Cost(line, m)
    BY SameWords
  <1>2. ASSUME NEW n \in 0..Len(more), Cost(more, n) <= Len(line)
        PROVE  h >= Units(more, n)
    <2>1. n <= Len(line)
      <3>1. n \in Nat /\ n <= Cost(more, n) /\ Cost(more, n) \in Nat
        BY CostsAre
      <3>. QED
        BY <1>2, <3>1
    <2>2. n \in 0..Len(line)
      BY <2>1
    <2>. QED
      BY <1>1, <1>2, <2>2 DEF HeardEnough
  <1>3. ASSUME NEW n \in 1..Len(more), more[n] = "long", Cost(more, n - 1) + 1 <= Len(line)
        PROVE  h >= Units(more, n - 1) + ReadSize
    <2>1. n <= Len(line)
      <3>1. n - 1 \in Nat /\ n - 1 <= Cost(more, n - 1) /\ Cost(more, n - 1) \in Nat
        BY CostsAre
      <3>. QED
        BY <1>3, <3>1
    <2>2. n \in 1..Len(line) /\ n - 1 \in 0..Len(line)
      BY <2>1
    <2>. QED
      BY <1>1, <1>3, <2>2 DEF HeardEnough
  <1>. QED
    BY <1>2, <1>3 DEF HeardEnough

\* The answers of a service to the first n words of a line.
AnswersOf(service, line, n, units) ==
    /\ Len(units) = Units(line, n)
    /\ \A k \in 1..n : \A part \in 1..Size(line[k]) :
          units[Units(line, k - 1) + part] = [service |-> service, word |-> k, part |-> part]

LEMMA AnswersAreOf ==
  ASSUME NEW c \in Callers
  PROVE  /\ \A n, units : AnswersTo(c, n, units) <=> AnswersOf(dialled[c], typed[c], n, units)
         /\ AnswersTo(c, wordsRead[c], Sent(c))'
               <=> AnswersOf(dialled'[c], typed'[c], wordsRead'[c], Sent(c)')
  BY DEF AnswersTo, AnswersOf

\* They do not depend on later words, and there are none for no words.
LEMMA AnswersStay ==
  ASSUME NEW service, NEW line, NEW more, NEW n \in Nat, NEW units,
         \A k \in 1..n : more[k] = line[k], AnswersOf(service, line, n, units)
  PROVE  AnswersOf(service, more, n, units)
  <1>1. \A m \in 0..n : Units(more, m) = Units(line, m)
    BY SameWords
  <1>2. \A k \in 1..n : k - 1 \in 0..n /\ n \in 0..n
    OBVIOUS
  <1>. QED
    BY <1>1, <1>2 DEF AnswersOf

LEMMA NoAnswers ==
  ASSUME NEW service, NEW other, NEW line, NEW units, AnswersOf(service, line, 0, units)
  PROVE  AnswersOf(other, line, 0, units)
  BY DEF AnswersOf

\* What ReadEnough says of one caller.
Enough(c) ==
    caller[c] # "gone" =>
        /\ AnswersTo(c, wordsRead[c], Sent(c))
        /\ HeardEnough(typed[c], Reads(c), Len(heardUnits[c]))

LEMMA EnoughIs == ReadEnough <=> \A c \in Callers : Enough(c)
  BY DEF ReadEnough, Enough, HeardEnough

LEMMA EnoughIsNext == ReadEnough' <=> \A c \in Callers : Enough(c)'
  BY DEF ReadEnough, Enough, HeardEnough

\* Words that are answered have been typed.
LEMMA AnsweredAreTyped ==
  ASSUME InetdTypeOK, WordsOnTheirWay, NEW c \in Callers
  PROVE  /\ wordsRead[c] \in 0..Len(typed[c]) /\ Len(typed[c]) \in Nat
         /\ typed[c] \in Seq({"short", "long", "exit"})
         /\ Sent(c) \in Seq(Unit) /\ Len(Sent(c)) = Len(heardUnits[c]) + Len(stream[c])
         /\ heardUnits[c] \in Seq(Unit) /\ stream[c] \in Seq(Unit)
         /\ Len(heardUnits[c]) \in Nat /\ Len(stream[c]) \in Nat
  <1>1. /\ heardUnits[c] \in Seq(Unit) /\ stream[c] \in Seq(Unit)
        /\ typed[c] \in Seq({"short", "long", "exit"}) /\ words[c] \in Seq({"short", "long", "exit"})
        /\ wordsRead[c] \in Nat
    BY DEF InetdTypeOK
  <1>2. Len(words[c]) \in Nat /\ Len(typed[c]) \in Nat /\ Len(heardUnits[c]) \in Nat /\ Len(stream[c]) \in Nat
    BY <1>1, QueueTypes
  <1>3. wordsRead[c] + Len(words[c]) = Len(typed[c])
    BY DEF WordsOnTheirWay
  <1>. QED
    BY <1>1, <1>2, <1>3, Joined DEF Sent

\* A step that is none of c's answers, words and reads.
LEMMA EnoughStill ==
  ASSUME NEW c \in Callers, Enough(c), typed'[c] = typed[c], dialled'[c] = dialled[c],
         wordsRead'[c] = wordsRead[c], heardUnits'[c] = heardUnits[c], stream'[c] = stream[c],
         caller'[c] = caller[c] \/ caller'[c] = "gone"
  PROVE  Enough(c)'
  <1> SUFFICES ASSUME caller'[c] # "gone"
               PROVE  /\ AnswersTo(c, wordsRead[c], Sent(c))'
                      /\ HeardEnough(typed[c], Reads(c), Len(heardUnits[c]))'
    BY DEF Enough
  <1>1. caller'[c] = caller[c]
    OBVIOUS
  <1>2. AnswersTo(c, wordsRead[c], Sent(c)) /\ HeardEnough(typed[c], Reads(c), Len(heardUnits[c]))
    BY <1>1 DEF Enough
  <1>3. AnswersTo(c, wordsRead[c], Sent(c))'
    <2>1. Sent(c)' = Sent(c)
      BY DEF Sent
    <2>. QED
      BY <1>2, <2>1, AnswersAreOf
  <1>4. Reads(c)' = Reads(c)
    BY <1>1 DEF Reads
  <1>. QED
    BY <1>2, <1>3, <1>4 DEF HeardEnough

\* A service puts the answer to the next word behind the others.
LEMMA AnswerIsSent ==
  ASSUME InetdTypeOK, RightService, WordsOnTheirWay, NEW c \in Callers, ServiceAnswers(c), Enough(c)
  PROVE  Enough(c)'
  <1> SUFFICES ASSUME caller'[c] # "gone" PROVE Enough(c)'
    BY DEF Enough
  <1>1. /\ words[c] # <<>> /\ words[c] \in Seq({"short", "long", "exit"})
        /\ wordsRead' = [wordsRead EXCEPT ![c] = @ + 1]
        /\ stream' = [stream EXCEPT ![c] =
                          IF caller[c] = "gone" THEN @
                          ELSE @ \o Answer(dialled[c], wordsRead[c] + 1, typed[c][wordsRead[c] + 1])]
        /\ dialled[c] \in TcpServices
        /\ UNCHANGED callerVars
    BY AnswersIs
  <1>2. caller' = caller /\ dialled' = dialled /\ typed' = typed /\ heardUnits' = heardUnits
    BY <1>1 DEF callerVars
  <1>3. PICK n \in Nat : n = wordsRead[c] /\ wordsRead'[c] = n + 1
    BY <1>1 DEF InetdTypeOK
  <1>4. PICK answer : answer = Answer(dialled[c], n + 1, typed[c][n + 1])
    OBVIOUS
  <1>5. stream'[c] = stream[c] \o answer
    <2>1. stream \in [Callers -> Seq(Unit)]
      BY DEF InetdTypeOK
    <2>. QED
      BY <1>1, <1>2, <1>3, <1>4, <2>1
  <1>6. AnswersTo(c, n, Sent(c)) /\ HeardEnough(typed[c], Reads(c), Len(heardUnits[c]))
    BY <1>2, <1>3 DEF Enough
  <1>7. answer \in Seq(Unit) /\ AnswersTo(c, n + 1, Sent(c) \o answer)
    <2>1. Sent(c) \in Seq(Unit)
      BY AnsweredAreTyped
    <2>. QED
      BY <1>1, <1>4, <1>6, <2>1, AnswerFollows
  <1>8. Sent(c)' = Sent(c) \o answer
    <2>1. heardUnits[c] \in Seq(Unit) /\ stream[c] \in Seq(Unit)
      BY AnsweredAreTyped
    <2>2. \A x, y, z \in Seq(Unit) : (x \o y) \o z = x \o (y \o z)
      BY ConcatAssociative
    <2>3. (heardUnits[c] \o stream[c]) \o answer = heardUnits[c] \o (stream[c] \o answer)
      BY <1>7, <2>1, <2>2, Zenon
    <2>. QED
      BY <1>2, <1>5, <2>3 DEF Sent
  <1>9. AnswersTo(c, wordsRead[c], Sent(c))'
    <2>1. AnswersOf(dialled[c], typed[c], n + 1, Sent(c) \o answer)
      BY <1>7, AnswersAreOf
    <2>. QED
      BY <1>2, <1>3, <1>8, <2>1, AnswersAreOf
  <1>10. Reads(c)' = Reads(c)
    BY <1>2 DEF Reads
  <1>11. HeardEnough(typed[c], Reads(c), Len(heardUnits[c]))'
    BY <1>2, <1>6, <1>10 DEF HeardEnough
  <1>. QED
    BY <1>9, <1>11 DEF Enough

\* A word more is typed: the caller is to read once more.
LEMMA WordIsTyped ==
  ASSUME InetdTypeOK, WordsOnTheirWay, NEW c \in Callers,
         NEW word \in {"short", "long", "exit"}, TypesWord(c, word), Enough(c)
  PROVE  Enough(c)'
  <1> SUFFICES ASSUME caller'[c] # "gone" PROVE Enough(c)'
    BY DEF Enough
  <1>1. /\ typed'[c] = Append(typed[c], word) /\ caller[c] = "prompt" /\ caller'[c] = "reading"
        /\ UNCHANGED <<wordsRead, stream, dialled, heardUnits>>
    BY DEF TypesWord, InetdTypeOK, childVars
  <1>2. PICK line \in Seq({"short", "long", "exit"}) : line = typed[c]
    BY AnsweredAreTyped
  <1>3. PICK more : more = Append(line, word)
    OBVIOUS
  <1>4. /\ Len(line) \in Nat /\ Len(more) = Len(line) + 1
        /\ \A k \in 1..Len(line) : more[k] = line[k]
    BY <1>3, AppendItem, QueueTypes
  <1>5. Reads(c) = Len(line) /\ Reads(c)' = Len(line)
    <2>1. Reads(c) = Len(line) - 0 /\ Reads(c)' = Len(more) - 1
      BY <1>1, <1>2, <1>3 DEF Reads
    <2>. QED
      BY <1>4, <2>1
  <1>6. PICK n \in 0..Len(line) : n = wordsRead[c]
    BY <1>2, AnsweredAreTyped
  <1>7. PICK h \in Nat : h = Len(heardUnits[c])
    BY AnsweredAreTyped
  <1>8. AnswersOf(dialled[c], line, n, Sent(c)) /\ HeardEnough(line, Len(line), h)
    BY <1>1, <1>2, <1>5, <1>6, <1>7, AnswersAreOf DEF Enough
  <1>9. HeardEnough(more, Len(line), h)
    BY <1>4, <1>8, OneWord
  <1>10. AnswersOf(dialled[c], more, n, Sent(c))
    <2>1. n \in Nat /\ \A k \in 1..n : more[k] = line[k]
      BY <1>4
    <2>. QED
      BY <1>8, <2>1, AnswersStay
  <1>11. Sent(c)' = Sent(c) /\ typed'[c] = more /\ wordsRead'[c] = n /\ dialled'[c] = dialled[c]
    BY <1>1, <1>2, <1>3, <1>6 DEF Sent
  <1>12. AnswersTo(c, wordsRead[c], Sent(c))'
    BY <1>10, <1>11, AnswersAreOf
  <1>13. HeardEnough(typed[c], Reads(c), Len(heardUnits[c]))'
    BY <1>1, <1>5, <1>7, <1>9, <1>11 DEF HeardEnough
  <1>. QED
    BY <1>12, <1>13 DEF Enough

\* One read.
LEMMA ReadIsEnough ==
  ASSUME InetdTypeOK, WordsOnTheirWay, NEW c \in Callers, Reads128(c), Enough(c)
  PROVE  Enough(c)'
  <1>1. /\ Sent(c)' = Sent(c)
        /\ \/ Len(heardUnits'[c]) = Len(heardUnits[c]) + ReadSize
           \/ Len(heardUnits'[c]) = Len(Sent(c)) /\ Len(heardUnits[c]) < Len(heardUnits'[c])
        /\ Len(heardUnits[c]) < Len(heardUnits'[c])
        /\ Len(heardUnits'[c]) \in Nat /\ Len(heardUnits[c]) \in Nat
        /\ caller[c] = "reading" /\ caller' = [caller EXCEPT ![c] = "prompt"]
        /\ UNCHANGED <<childVars, dialled, typed>>
    BY ReadIs
  <1>2. caller'[c] = "prompt" /\ wordsRead' = wordsRead /\ dialled' = dialled /\ typed' = typed
    BY <1>1 DEF InetdTypeOK, childVars
  <1>3. PICK line \in Seq({"short", "long", "exit"}) : line = typed[c] /\ Len(line) \in Nat
    BY AnsweredAreTyped
  <1>4. PICK n \in 0..Len(line) : n = wordsRead[c]
    BY <1>3, AnsweredAreTyped
  <1>5. PICK r \in Nat : r = Len(line) - 1 /\ r + 1 = Len(line)
    <2>1. line # <<>>
      BY <1>1, <1>3 DEF WordsOnTheirWay
    <2>2. Len(line) - 1 \in Nat /\ (Len(line) - 1) + 1 = Len(line)
      BY <1>3, <2>1
    <2>. QED
      BY <2>2
  <1>6. Reads(c) = r /\ Reads(c)' = r + 1
    <2>1. Reads(c) = Len(line) - 1 /\ Reads(c)' = Len(line) - 0
      BY <1>1, <1>2, <1>3 DEF Reads
    <2>. QED
      BY <1>3, <1>5, <2>1
  <1>7. PICK h \in Nat, g \in Nat : h = Len(heardUnits[c]) /\ g = Len(heardUnits'[c])
    BY <1>1
  <1>8. AnswersOf(dialled[c], line, n, Sent(c)) /\ HeardEnough(line, r, h)
    BY <1>1, <1>3, <1>4, <1>6, <1>7, AnswersAreOf DEF Enough
  <1>9. h < g /\ (g = h + ReadSize \/ g = Units(line, n))
    BY <1>1, <1>7, <1>8 DEF AnswersOf
  <1>10. HeardEnough(line, r + 1, g)
    BY <1>3, <1>8, <1>9, OneRead
  <1>11. AnswersTo(c, wordsRead[c], Sent(c))'
    BY <1>1, <1>2, <1>3, <1>4, <1>8, AnswersAreOf
  <1>12. HeardEnough(typed[c], Reads(c), Len(heardUnits[c]))'
    BY <1>2, <1>3, <1>6, <1>7, <1>10 DEF HeardEnough
  <1>. QED
    BY <1>11, <1>12 DEF Enough

\* A call: nothing is typed or answered yet.
LEMMA CallIsEnough ==
  ASSUME InetdTypeOK, WordsOnTheirWay, NEW c \in Callers, NEW t \in TcpServices \cup UdpServices,
         Dials(c, t), Enough(c)
  PROVE  Enough(c)'
  <1>1. /\ caller[c] = "home" /\ caller'[c] \in {"prompt", "udp"}
        /\ UNCHANGED <<wordsRead, stream, typed, heardUnits>>
    BY DEF Dials, InetdTypeOK, childVars
  <1>2. wordsRead[c] = 0
    <2>1. typed[c] = <<>> /\ wordsRead[c] \in 0..Len(typed[c])
      BY <1>1, AnsweredAreTyped DEF WordsOnTheirWay
    <2>. QED
      BY <2>1
  <1>3. AnswersOf(dialled[c], typed[c], 0, Sent(c)) /\ HeardEnough(typed[c], Reads(c), Len(heardUnits[c]))
    BY <1>1, <1>2, AnswersAreOf DEF Enough
  <1>4. AnswersOf(dialled'[c], typed[c], 0, Sent(c))
    BY <1>3, NoAnswers
  <1>5. Sent(c)' = Sent(c) /\ Reads(c)' = Reads(c)
    BY <1>1 DEF Sent, Reads
  <1>6. AnswersTo(c, wordsRead[c], Sent(c))'
    BY <1>1, <1>2, <1>4, <1>5, AnswersAreOf
  <1>7. HeardEnough(typed[c], Reads(c), Len(heardUnits[c]))'
    BY <1>1, <1>3, <1>5 DEF HeardEnough
  <1>. QED
    BY <1>6, <1>7 DEF Enough

LEMMA ReadStep ==
  ASSUME InetdTypeOK, RightService, WordsOnTheirWay, ReadEnough, InetdNext
  PROVE  ReadEnough'
  <1>0. \A d \in Callers : Enough(d)
    BY EnoughIs
  <1>1. ASSUME NEW c \in Callers, Enough(c)',
               \A d \in Callers : d # c =>
                   /\ typed'[d] = typed[d] /\ dialled'[d] = dialled[d] /\ wordsRead'[d] = wordsRead[d]
                   /\ heardUnits'[d] = heardUnits[d] /\ stream'[d] = stream[d] /\ caller'[d] = caller[d]
        PROVE  ReadEnough'
    <2>1. ASSUME NEW d \in Callers, d # c PROVE Enough(d)'
      BY <1>0, <1>1, <2>1, EnoughStill
    <2>. QED
      BY <1>1, <2>1, EnoughIsNext
  <1>2. ASSUME UNCHANGED <<wordsRead, stream, dialled, typed, heardUnits>>,
               \A d \in Callers : caller'[d] = caller[d] \/ caller'[d] = "gone"
        PROVE  ReadEnough'
    <2>1. ASSUME NEW d \in Callers PROVE Enough(d)'
      BY <1>0, <1>2, EnoughStill
    <2>. QED
      BY <2>1, EnoughIsNext
  <1>3. ASSUME InetdPoll \/ \E t \in UdpServices : WriteUdp(t) PROVE ReadEnough'
    BY <1>2, <1>3 DEF InetdPoll, WriteUdp, childVars, callerVars
  <1>4. ASSUME NEW t \in TcpServices, AcceptTcp(t) \/ AcceptForThread(t) PROVE ReadEnough'
    BY <1>2, <1>4 DEF AcceptTcp, AcceptForThread, callerVars
  <1>5. ASSUME NEW c \in Callers, handleFunc(c) \/ ServiceMeetsEnd(c) PROVE ReadEnough'
    BY <1>2, <1>5 DEF handleFunc, ServiceMeetsEnd, callerVars
  <1>6. ASSUME NEW c \in Callers, Drops(c) PROVE ReadEnough'
    <2>1. \A d \in Callers : caller'[d] = caller[d] \/ caller'[d] = "gone"
      BY <1>6 DEF Drops, InetdTypeOK
    <2>. QED
      BY <1>2, <1>6, <2>1 DEF Drops, childVars
  <1>7. ASSUME NEW c \in Callers, ServiceAnswers(c) PROVE ReadEnough'
    <2>1. Enough(c)'
      BY <1>0, <1>7, AnswerIsSent
    <2>2. /\ wordsRead' = [wordsRead EXCEPT ![c] = @ + 1] /\ UNCHANGED callerVars
          /\ stream' = [stream EXCEPT ![c] =
                          IF caller[c] = "gone" THEN @
                          ELSE @ \o Answer(dialled[c], wordsRead[c] + 1, typed[c][wordsRead[c] + 1])]
      BY <1>7, AnswersIs
    <2>3. \A d \in Callers : d # c => wordsRead'[d] = wordsRead[d] /\ stream'[d] = stream[d]
      BY <2>2 DEF InetdTypeOK
    <2>. QED
      BY <1>1, <2>1, <2>2, <2>3 DEF callerVars
  <1>8. ASSUME NEW c \in Callers, NEW t \in TcpServices \cup UdpServices, Dials(c, t) PROVE ReadEnough'
    <2>1. Enough(c)'
      BY <1>0, <1>8, CallIsEnough
    <2>2. UNCHANGED <<wordsRead, stream, typed, heardUnits>>
      BY <1>8 DEF Dials, childVars
    <2>3. \A d \in Callers : d # c => dialled'[d] = dialled[d] /\ caller'[d] = caller[d]
      BY <1>8 DEF Dials, InetdTypeOK
    <2>. QED
      BY <1>1, <2>1, <2>2, <2>3
  <1>9. ASSUME NEW c \in Callers, NEW word \in {"short", "long", "exit"}, TypesWord(c, word) PROVE ReadEnough'
    <2>1. Enough(c)'
      BY <1>0, <1>9, WordIsTyped
    <2>2. UNCHANGED <<wordsRead, stream, dialled, heardUnits>>
      BY <1>9 DEF TypesWord, childVars
    <2>3. \A d \in Callers : d # c => typed'[d] = typed[d] /\ caller'[d] = caller[d]
      BY <1>9 DEF TypesWord, InetdTypeOK
    <2>. QED
      BY <1>1, <2>1, <2>2, <2>3
  <1>10. ASSUME NEW c \in Callers, Reads128(c) PROVE ReadEnough'
    <2>1. Enough(c)'
      BY <1>0, <1>10, ReadIsEnough
    <2>2. /\ \A d \in Callers : d # c => heardUnits'[d] = heardUnits[d] /\ stream'[d] = stream[d]
          /\ caller' = [caller EXCEPT ![c] = "prompt"] /\ UNCHANGED <<childVars, dialled, typed>>
      BY <1>10, ReadIs
    <2>3. wordsRead' = wordsRead /\ \A d \in Callers : d # c => caller'[d] = caller[d]
      BY <2>2 DEF InetdTypeOK, childVars
    <2>. QED
      BY <1>1, <2>1, <2>2, <2>3
  <1>. QED
    BY <1>3, <1>4, <1>5, <1>6, <1>7, <1>8, <1>9, <1>10 DEF InetdNext, InetdServer, InetdCaller

LEMMA InetdStarts == InetdInit => InetdInv
  <1> SUFFICES ASSUME InetdInit PROVE InetdInv
    OBVIOUS
  <1>1. /\ ringing = [s \in TcpServices |-> <<>>] /\ typed = [c \in Callers |-> <<>>]
        /\ words = [c \in Callers |-> <<>>] /\ stream = [c \in Callers |-> <<>>]
        /\ heardUnits = [c \in Callers |-> <<>>] /\ wordsRead = [c \in Callers |-> 0]
        /\ child = [c \in Callers |-> [runs |-> NoService, state |-> "none"]]
        /\ caller = [c \in Callers |-> "home"] /\ revents = {}
    BY DEF InetdInit
  <1>2. InetdTypeOK
    <2>1. \A S : <<>> \in Seq(S)
      OBVIOUS
    <2>2. /\ ringing \in [TcpServices -> Seq(Callers)] /\ stream \in [Callers -> Seq(Unit)]
          /\ words \in [Callers -> Seq({"short", "long", "exit"})]
          /\ typed \in [Callers -> Seq({"short", "long", "exit"})]
          /\ heardUnits \in [Callers -> Seq(Unit)]
      BY <1>1, <2>1
    <2>. QED
      BY <2>2 DEF InetdInit, InetdTypeOK
  <1>3. RightService
    BY <1>1 DEF RightService, Rings
  <1>4. WordsOnTheirWay
    BY <1>1 DEF WordsOnTheirWay
  <1>5. ASSUME NEW c \in Callers PROVE Enough(c)
    <2>1. typed[c] = <<>> /\ wordsRead[c] = 0 /\ heardUnits[c] = <<>> /\ stream[c] = <<>> /\ Reads(c) = 0
      BY <1>1 DEF Reads
    <2>2. Len(Sent(c)) = 0 /\ Len(heardUnits[c]) = 0 /\ Len(typed[c]) = 0
      BY <2>1 DEF Sent
    <2>3. Units(typed[c], 0) = 0
      BY UnitsAre
    <2>4. AnswersTo(c, wordsRead[c], Sent(c))
      BY <2>1, <2>2, <2>3 DEF AnswersTo
    <2>5. HeardEnough(typed[c], Reads(c), Len(heardUnits[c]))
      BY <2>2, <2>3 DEF HeardEnough
    <2>. QED
      BY <2>4, <2>5 DEF Enough
  <1>. QED
    BY <1>2, <1>3, <1>4, <1>5, EnoughIs DEF InetdInv

\* Every word on its way to a service is one the caller typed, and every answer
\* on its way back, or read, is one of the service the caller dialled, in the
\* order of the words; and no caller has read less than its reads must have
\* brought (server.c, the services and client.c of 03-02-22-ISS-inetd-conf).
THEOREM InetdInvariant == InetdSpec => []InetdInv
  <1>1. InetdInit => InetdInv
    BY InetdStarts
  <1>2. InetdInv /\ [InetdNext]_inetdVars => InetdInv'
    <2> SUFFICES ASSUME InetdInv, [InetdNext]_inetdVars PROVE InetdInv'
      OBVIOUS
    <2>1. CASE InetdNext
      BY <2>1, InetdTypeStep, RightStep, WordsStep, ReadStep DEF InetdInv
    <2>2. CASE UNCHANGED inetdVars
      <3>1. InetdTypeOK' /\ RightService' /\ WordsOnTheirWay'
        BY <2>2 DEF inetdVars, childVars, callerVars, InetdInv, InetdTypeOK, RightService, Rings,
                    WordsOnTheirWay
      <3>2. ASSUME NEW c \in Callers PROVE Enough(c)'
        BY <2>2, EnoughIs, EnoughStill DEF inetdVars, childVars, callerVars, InetdInv
      <3>. QED
        BY <3>1, <3>2, EnoughIsNext DEF InetdInv
    <2>. QED
      BY <2>1, <2>2
  <1>. QED
    BY <1>1, <1>2, PTL DEF InetdSpec

\* Whatever is sent is read, where so much was read.
LEMMA AllIsHeard ==
  ASSUME NEW h \in Seq(Unit), NEW s \in Seq(Unit), Len(h) >= Len(h \o s)
  PROVE  h \o s = h
  <1>1. Len(h) \in Nat /\ Len(s) \in Nat /\ Len(h \o s) = Len(h) + Len(s)
    OBVIOUS
  <1>2. Len(s) = 0
    BY <1>1
  <1>3. s = <<>>
    BY <1>2
  <1>. QED
    BY <1>3, ConcatEmptySeq

\* Each read of a caller with only short answers is the answer to its last
\* word; every answer of more than 128 bytes may leave it one answer behind.
THEOREM ReadsFollowWordsAlways == InetdSpec => []ReadsFollowWords
  <1>1. InetdInv => ReadsFollowWords
    <2> SUFFICES ASSUME InetdInv, NEW c \in Callers, caller[c] # "gone"
                 PROVE  /\ AnswersTo(c, wordsRead[c], Sent(c))
                        /\ caller[c] = "prompt" =>
                              /\ LongWords(c) = 0 => AnswersTo(c, Len(typed[c]), heardUnits[c])
                              /\ Len(heardUnits[c]) >= Units(typed[c], Len(typed[c]) - LongWords(c))
      BY DEF ReadsFollowWords
    <2>1. AnswersTo(c, wordsRead[c], Sent(c)) /\ HeardEnough(typed[c], Reads(c), Len(heardUnits[c]))
      BY EnoughIs DEF InetdInv, Enough
    <2> SUFFICES ASSUME caller[c] = "prompt"
                 PROVE  /\ LongWords(c) = 0 => AnswersTo(c, Len(typed[c]), heardUnits[c])
                        /\ Len(heardUnits[c]) >= Units(typed[c], Len(typed[c]) - LongWords(c))
      BY <2>1
    <2>2. PICK l \in Nat, n \in Nat, h \in Nat :
             /\ l = Len(typed[c]) /\ n = wordsRead[c] /\ n <= l /\ h = Len(heardUnits[c])
             /\ heardUnits[c] \in Seq(Unit) /\ stream[c] \in Seq(Unit)
      <3>1. /\ wordsRead[c] \in 0..Len(typed[c]) /\ Len(typed[c]) \in Nat /\ Len(heardUnits[c]) \in Nat
            /\ heardUnits[c] \in Seq(Unit) /\ stream[c] \in Seq(Unit)
        BY AnsweredAreTyped DEF InetdInv
      <3>2. wordsRead[c] \in Nat /\ wordsRead[c] <= Len(typed[c])
        BY <3>1
      <3>. QED
        BY <3>1, <3>2
    <2>3. Reads(c) = l
      BY <2>2 DEF Reads
    <2>4. PICK long \in Nat : long = LongWords(c) /\ long <= l /\ long = Longs(typed[c], l)
      BY <2>2, LongsAre DEF LongWords
    <2>5. h >= Units(typed[c], l - long)
      <3>1. l - long \in Nat /\ l - long \in 0..l
        BY <2>4
      <3>2. Longs(typed[c], l - long) <= long /\ Longs(typed[c], l - long) \in Nat
        BY <2>4, <3>1, LongsAre
      <3>3. Cost(typed[c], l - long) <= l
        BY <2>4, <3>2 DEF Cost
      <3>. QED
        BY <2>1, <2>2, <2>3, <3>1, <3>3 DEF HeardEnough
    <2>6. ASSUME long = 0 PROVE AnswersTo(c, l, heardUnits[c])
      <3>1. h >= Units(typed[c], l)
        <4>1. l - long = l
          BY <2>6
        <4>. QED
          BY <2>5, <4>1
      <3>2. Len(Sent(c)) = Units(typed[c], n)
        BY <2>1, <2>2 DEF AnswersTo
      <3>3. Units(typed[c], n) + (l - n) <= Units(typed[c], l) /\ Units(typed[c], n) \in Nat
            /\ Units(typed[c], l) \in Nat
        BY <2>2, UnitsAre
      <3>4. Len(Sent(c)) = h + Len(stream[c]) /\ Len(stream[c]) \in Nat
        BY <2>2, AnsweredAreTyped DEF InetdInv
      <3>5. n = l /\ h >= Len(Sent(c))
        <4>1. PICK u \in Nat, v \in Nat, s \in Nat :
                 u = Units(typed[c], n) /\ v = Units(typed[c], l) /\ s = Len(stream[c])
          BY <3>3, <3>4
        <4>2. h >= v /\ Len(Sent(c)) = u /\ u + (l - n) <= v /\ h + s = u
          BY <3>1, <3>2, <3>3, <3>4, <4>1
        <4>3. n \in Nat /\ l \in Nat /\ n <= l /\ h \in Nat
          BY <2>2
        <4>4. s = 0 /\ l - n = 0 /\ h >= u
          BY <4>1, <4>2, <4>3
        <4>. QED
          BY <4>2, <4>3, <4>4
      <3>6. Sent(c) = heardUnits[c]
        BY <2>2, <3>5, AllIsHeard DEF Sent
      <3>. QED
        BY <2>1, <2>2, <3>5, <3>6
    <2>. QED
      BY <2>2, <2>4, <2>5, <2>6
  <1>. QED
    BY <1>1, InetdInvariant, PTL
=============================================================================
