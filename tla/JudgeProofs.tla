----------------------------- MODULE JudgeProofs -----------------------------
(***************************************************************************)
(* A verdict is about the program its reader sent, for any number of        *)
(* clients and any files.  The inductive invariant follows the records of a *)
(* client from sendProgram to P.cpp, and its answers back.                  *)
(***************************************************************************)
EXTENDS Judge, SequenceTheorems, TLAPS

Verdicts == [kind : {"error", "passed", "failed"}, of : Programs]
Messages == {"VALID", "INVALID"} \cup Verdicts
Items == Requests \cup Contents \cup {Starting, Ending}

Types ==
    /\ JudgeTypeOK
    /\ toJudge \in [Submitters -> Seq(Items)] /\ fromJudge \in [Submitters -> Seq(Messages)]

\* A client's connection is not accepted, or is the one the server is at.
Waiting(c) == \E k \in 1..Len(arrived) : arrived[k] = c
Receiving == judge \in {"start", "first", "record", "compile", "run", "running"}
Served(c) == (judge = "request" \/ Receiving) /\ judged = c

Live(c) == submitter[c] \in {"asking", "sending", "awaiting"}

Queue ==
    /\ \A j, k \in 1..Len(arrived) : arrived[j] = arrived[k] => j = k
    /\ judge = "request" \/ Receiving => judged \in Submitters /\ ~Waiting(judged)

\* What JudgedAsSent says of one text.
Good(c, v) ==
    /\ Len(v) <= Len(file[c]) /\ \A k \in 1..Len(v) : v[k] = Str[file[c][k]]
    /\ (\A r \in Records(file[c]) : Str[r] \notin {Str[Ending], Str[Blank]})
          => Len(v) = Len(file[c])

AtHome(c) ==
    submitter[c] = "home" =>
        ~Waiting(c) /\ ~Served(c) /\ fromJudge[c] = <<>> /\ ~hung[c] /\ verdict[c] = <<>>

\* Only the request has been sent.
Asked(c) ==
    Waiting(c) \/ (Served(c) /\ judge = "request") =>
        /\ submitter[c] \notin {"sending", "awaiting"}
        /\ next[c] = 0 /\ fromJudge[c] = <<>> /\ ~hung[c] /\ toJudge[c] = <<request[c]>>

\* Record k of what c sends after its request, and what the server has not read
\* of that when it has read r records.
Rec(c, k) ==
    IF k = 1 THEN Starting ELSE IF k <= Len(file[c]) + 1 THEN file[c][k - 1] ELSE Ending

Unread(c, r) ==
    \/ /\ r <= next[c] /\ Len(toJudge[c]) = next[c] - r
       /\ \A k \in 1..Len(toJudge[c]) : toJudge[c][k] = Rec(c, r + k)
    \/ submitter[c] = "gone" /\ toJudge[c] = <<>>

\* In the loop of recieveFile: record r is kept back, those before it written.
KeepsBack(c, r) ==
    /\ Unread(c, r)
    /\ Live(c) => /\ temp = Str[Rec(c, r)] /\ r <= Len(file[c]) + 1 /\ Len(programFile) = r - 2
                  /\ \A k \in 1..r - 2 : programFile[k] = Str[file[c][k]]

HasRead(c) ==
    /\ judge = "start" => Unread(c, 0) /\ programFile = <<>>
    /\ judge = "first" => Unread(c, 1) /\ programFile = <<>>
    /\ judge = "record" => \E r \in Nat \ {0, 1} : KeepsBack(c, r)
    /\ judge = "compile" /\ Live(c) => Good(c, programFile)
    /\ judge = "run" /\ Live(c) => Good(c, executable)

Submitted(c) ==
    Served(c) /\ Receiving =>
        /\ request[c] = "program" /\ ~hung[c] /\ HasRead(c)
        /\ submitter[c] = "asking" => fromJudge[c] = <<"VALID">>
        /\ submitter[c] \in {"sending", "awaiting"} => fromJudge[c] = <<>>

\* Once the server is done with c, its answer may be on the way, then verdicts.
Verdict(c, m) == m \in Verdicts /\ Good(c, m.of)

Afterwards(c) ==
    ~Waiting(c) /\ ~Served(c) =>
        /\ submitter[c] = "asking" =>
              \A k \in 2..Len(fromJudge[c]) : Verdict(c, fromJudge[c][k])
        /\ submitter[c] \in {"sending", "awaiting"} =>
              \A k \in 1..Len(fromJudge[c]) : Verdict(c, fromJudge[c][k])

\* What a client has sent fits what it is doing.
Progress(c) ==
    /\ submitter[c] \in {"home", "asking"} => next[c] = 0
    /\ submitter[c] = "sending" => next[c] < Len(file[c]) + 2
    /\ submitter[c] = "over" => Ended

Own(c) ==
    AtHome(c) /\ Asked(c) /\ Submitted(c) /\ Afterwards(c) /\ Progress(c)

JudgeInv == Types /\ Queue /\ (\A c \in Submitters : Own(c)) /\ JudgedAsSent

-----------------------------------------------------------------------------
\* A file is a sequence of records.
LEMMA FileIsSource ==
    ASSUME Types, NEW c \in Submitters
    PROVE  file[c] \in Seq(Contents) /\ Len(file[c]) \in Nat
BY JudgeAssumption DEF Types, JudgeTypeOK, Sources

\* sendProgram sends the records Rec(c, 1) to Rec(c, n), n those of the file
\* and the two marks.
LEMMA SentIsRec ==
    ASSUME Types, NEW c \in Submitters
    PROVE  LET all == <<Starting>> \o file[c] \o <<Ending>>
           IN  /\ Len(all) = Len(file[c]) + 2
               /\ \A k \in 1..Len(file[c]) + 2 : all[k] = Rec(c, k) /\ all[k] \in Items
<1> DEFINE S == Contents \cup {Starting, Ending}
           front == <<Starting>> \o file[c]
<1>1. file[c] \in Seq(S) /\ Len(file[c]) \in Nat BY FileIsSource, SeqMonotonic
<1>2. <<Starting>> \in Seq(S) /\ <<Ending>> \in Seq(S) OBVIOUS
<1>3. /\ front \in Seq(S) /\ Len(front) = Len(file[c]) + 1
      /\ \A k \in 1..Len(file[c]) + 1 :
            front[k] = IF k <= 1 THEN Starting ELSE file[c][k - 1]
  <2> HIDE DEF S
  <2>1. Len(<<Starting>>) = 1 /\ <<Starting>>[1] = Starting OBVIOUS
  <2> QED BY <1>1, <1>2, <2>1, ConcatProperties
<1> HIDE DEF S, front
<1>4. /\ front \o <<Ending>> \in Seq(S)
      /\ Len(front \o <<Ending>>) = Len(file[c]) + 2
      /\ \A k \in 1..Len(file[c]) + 2 :
            (front \o <<Ending>>)[k] = IF k <= Len(file[c]) + 1 THEN front[k] ELSE Ending
  <2>1. Len(<<Ending>>) = 1 /\ <<Ending>>[1] = Ending OBVIOUS
  <2> QED BY <1>1, <1>2, <1>3, <2>1, ConcatProperties
<1>5. \A k \in 1..Len(file[c]) + 2 : (front \o <<Ending>>)[k] = Rec(c, k)
      BY <1>1, <1>3, <1>4 DEF Rec
<1>6. \A k \in 1..Len(file[c]) + 2 : (front \o <<Ending>>)[k] \in Items
      BY <1>4, ElementOfSeq DEF S, Items
<1> QED BY <1>4, <1>5, <1>6 DEF front

\* After the first mark come records of the file and the last mark.
LEMMA RecAfterStart ==
    ASSUME Types, NEW c \in Submitters, NEW k \in Nat, k >= 2
    PROVE  Rec(c, k) \in Contents \cup {Ending}
BY FileIsSource DEF Rec

\* A text that agrees with the file as far as it goes is good if a record of the
\* file explains why it goes no further.
LEMMA GoodText ==
    ASSUME Types, NEW c \in Submitters, NEW v \in Programs, Len(v) <= Len(file[c]),
           \A k \in 1..Len(v) : v[k] = Str[file[c][k]],
           Len(v) < Len(file[c]) =>
              \E r \in Records(file[c]) : Str[r] \in {Str[Ending], Str[Blank]}
    PROVE  Good(c, v)
<1>1. Len(file[c]) \in Nat /\ Len(v) \in Nat BY FileIsSource DEF Programs
<1> QED BY <1>1 DEF Good

\* What the server reads is a record, and has a text.
LEMMA BuffString ==
    ASSUME Buff \in Contents \cup {Starting, Ending, Blank}
    PROVE  Str[Buff] \in Strings
BY DEF Strings

-----------------------------------------------------------------------------
\* Whoever a step does not concern keeps what the invariant says of it.
LEMMA OthersKept ==
    ASSUME NEW c \in Submitters, Own(c),
           UNCHANGED <<submitter[c], request[c], file[c], next[c], toJudge[c], fromJudge[c],
                       hung[c], verdict[c]>>,
           Waiting(c)' <=> Waiting(c), Served(c)' <=> Served(c),
           Served(c) => UNCHANGED <<judge, temp, programFile, executable>>,
           Ended => Ended'
    PROVE  Own(c)'
<1> USE DEF Own
<1>1. AtHome(c)' BY DEF AtHome
<1>2. Asked(c)' BY DEF Asked
<1>3. Submitted(c)'
      BY DEF Submitted, Receiving, HasRead, KeepsBack, Unread, Rec, Live, Good
<1>4. Afterwards(c)' BY DEF Afterwards, Verdict, Good
<1>5. Progress(c)' BY DEF Progress
<1> QED BY <1>1, <1>2, <1>3, <1>4, <1>5

\* A list of connections that one arrives at, or leaves, keeps no doubles.
LEMMA Arrival ==
    ASSUME Types, Queue, NEW c \in Submitters, ~Waiting(c), arrived' = Append(arrived, c)
    PROVE  /\ \A d \in Submitters : Waiting(d)' <=> Waiting(d) \/ d = c
           /\ \A j, k \in 1..Len(arrived') : arrived'[j] = arrived'[k] => j = k
<1>1. arrived \in Seq(Submitters) /\ Len(arrived) \in Nat BY DEF Types, JudgeTypeOK
<1>2. /\ Len(arrived') = Len(arrived) + 1
      /\ \A k \in 1..Len(arrived) + 1 :
            arrived'[k] = IF k <= Len(arrived) THEN arrived[k] ELSE c
      BY <1>1
<1> QED BY <1>1, <1>2 DEF Waiting, Queue

LEMMA Departure ==
    ASSUME Types, Queue, arrived # <<>>, arrived' = Tail(arrived)
    PROVE  /\ Head(arrived) \in Submitters /\ Waiting(Head(arrived))
           /\ \A d \in Submitters : Waiting(d)' <=> Waiting(d) /\ d # Head(arrived)
           /\ \A j, k \in 1..Len(arrived') : arrived'[j] = arrived'[k] => j = k
<1>1. arrived \in Seq(Submitters) /\ Len(arrived) \in Nat \ {0}
      BY EmptySeq DEF Types, JudgeTypeOK
<1>2. /\ Len(arrived') = Len(arrived) - 1 /\ Head(arrived) = arrived[1]
      /\ \A k \in 1..Len(arrived) - 1 : arrived'[k] = arrived[k + 1]
      BY <1>1
<1>3. \A d : Waiting(d)' <=> \E k \in 2..Len(arrived) : arrived[k] = d
  <2>1. ASSUME NEW d, NEW k \in 2..Len(arrived), arrived[k] = d PROVE Waiting(d)'
    <3>1. k - 1 \in 1..Len(arrived') /\ arrived'[k - 1] = d BY <1>1, <1>2, <2>1
    <3> QED BY <3>1 DEF Waiting
  <2>2. ASSUME NEW d, NEW k \in 1..Len(arrived'), arrived'[k] = d
        PROVE \E j \in 2..Len(arrived) : arrived[j] = d
    <3>1. k + 1 \in 2..Len(arrived) /\ arrived[k + 1] = d BY <1>1, <1>2, <2>2
    <3> QED BY <3>1
  <2> QED BY <2>1, <2>2 DEF Waiting
<1>4. \A j, k \in 1..Len(arrived') : arrived'[j] = arrived'[k] => j = k
  <2>1. SUFFICES ASSUME NEW j \in 1..Len(arrived'), NEW k \in 1..Len(arrived'),
                        arrived'[j] = arrived'[k]
                 PROVE j = k
        OBVIOUS
  <2>2. arrived[j + 1] = arrived[k + 1] /\ j + 1 \in 1..Len(arrived) /\ k + 1 \in 1..Len(arrived)
        BY <1>1, <1>2, <2>1
  <2>3. j + 1 = k + 1 BY <2>2 DEF Queue
  <2> QED BY <1>1, <1>2, <2>3
<1>5. \A d : Waiting(d) <=> d = arrived[1] \/ \E k \in 2..Len(arrived) : arrived[k] = d
      BY <1>1 DEF Waiting
<1>6. \A k \in 2..Len(arrived) : arrived[k] # arrived[1] BY <1>1 DEF Queue
<1> QED BY <1>1, <1>2, <1>3, <1>4, <1>5, <1>6

-----------------------------------------------------------------------------
(* Types *)

\* A reply, and a record that is read, have the types the program gives them.
LEMMA ReplyTypes ==
    ASSUME Types, judged \in Submitters, NEW m \in Messages, NEW after, Reply(m, after)
    PROVE  /\ fromJudge' \in [Submitters -> Seq(Messages)]
           /\ inVain' \in [Submitters -> BOOLEAN]
           /\ judge' \in {after, "dead"}
<1>1. Append(fromJudge[judged], m) \in Seq(Messages) BY DEF Types
<1> QED BY <1>1 DEF Reply, Types, JudgeTypeOK

LEMMA ConsumeTypes ==
    ASSUME Types, judged \in Submitters, Consume
    PROVE  toJudge' \in [Submitters -> Seq(Items)]
<1>1. toJudge[judged] # <<>> => Tail(toJudge[judged]) \in Seq(Items)
      BY HeadTailProperties DEF Types
<1> QED BY <1>1 DEF Consume, Types

-----------------------------------------------------------------------------
(* Steps of the server *)

\* Taking the connection that waits longest makes its client the one served.
LEMMA AcceptsKeeps == ASSUME JudgeInv, Accepts PROVE JudgeInv'
<1> USE DEF Accepts, submitterOnly
<1>1. Types /\ Queue /\ \A d \in Submitters : Own(d) BY DEF JudgeInv
<1>2. Head(arrived) \in Submitters BY <1>1, Departure
<1>3. PICK c \in Submitters : c = Head(arrived) BY <1>2
<1>4. /\ Waiting(c) /\ \A d \in Submitters : Waiting(d)' <=> Waiting(d) /\ d # c
      /\ \A j, k \in 1..Len(arrived') : arrived'[j] = arrived'[k] => j = k
      BY <1>1, <1>3, Departure
<1>5. arrived' \in Seq(Submitters) BY <1>1, HeadTailProperties DEF Types, JudgeTypeOK
<1>6. Types' BY <1>1, <1>3, <1>5 DEF Types, JudgeTypeOK
<1>7. judge' = "request" /\ judged' = c BY <1>3
<1>8. Queue' BY <1>4, <1>7 DEF Queue, Waiting
<1>9. \A d \in Submitters : ~Served(d) /\ (Served(d)' <=> d = c)
      BY <1>7 DEF Served, Receiving
<1>10. ASSUME NEW d \in Submitters PROVE Own(d)'
  <2>1. CASE d # c BY <1>1, <1>4, <1>9, <2>1, OthersKept DEF Ended
  <2>2. CASE d = c
    <3>1. Asked(c) /\ AtHome(c) /\ Progress(c) BY <1>1 DEF Own
    <3>2. Asked(c)' /\ AtHome(c)' BY <1>4, <3>1 DEF Asked, AtHome
    <3>3. Progress(c)' BY <3>1 DEF Progress, Ended
    <3>4. Submitted(c)' BY <1>7 DEF Submitted, Receiving
    <3>5. Afterwards(c)' BY <1>9 DEF Afterwards
    <3> QED BY <2>2, <3>2, <3>3, <3>4, <3>5 DEF Own
  <2> QED BY <2>1, <2>2
<1>11. JudgedAsSent' BY DEF JudgeInv, JudgedAsSent
<1> QED BY <1>6, <1>8, <1>10, <1>11 DEF JudgeInv

\* A client the server does not serve is not concerned by what it does.
LEMMA ServerSpares ==
    ASSUME JudgeInv, judge = "request" \/ Receiving,
           UNCHANGED <<judged, submitterOnly, arrived>>,
           \A d \in Submitters \ {judged} :
               UNCHANGED <<toJudge[d], fromJudge[d], hung[d]>>
    PROVE  \A d \in Submitters \ {judged} : Own(d)'
<1>1. SUFFICES ASSUME NEW d \in Submitters \ {judged} PROVE Own(d)' OBVIOUS
<1>2. Own(d) BY DEF JudgeInv
<1>3. (Waiting(d)' <=> Waiting(d)) /\ ~Served(d) /\ ~Served(d)' BY DEF Waiting, Served
<1>4. ~Ended BY DEF Ended, Receiving
<1> QED BY <1>1, <1>2, <1>3, <1>4, OthersKept DEF submitterOnly

\* The parts of the invariant a step of the server cannot change.
LEMMA ServerKeeps ==
    ASSUME JudgeInv, judge = "request" \/ Receiving, Types', Own(judged)',
           UNCHANGED <<judged, submitterOnly, arrived>>,
           \A d \in Submitters \ {judged} :
               UNCHANGED <<toJudge[d], fromJudge[d], hung[d]>>
    PROVE  JudgeInv'
<1>1. Queue' BY DEF JudgeInv, Queue, Receiving, Waiting
<1>2. \A d \in Submitters : Own(d)' BY ServerSpares
<1>3. JudgedAsSent' BY DEF JudgeInv, JudgedAsSent, submitterOnly
<1> QED BY <1>1, <1>2, <1>3 DEF JudgeInv

\* The first record: a request, which the client has sent and nothing else.
LEMMA ReadsRequestKeeps == ASSUME JudgeInv, ReadsRequest PROVE JudgeInv'
<1>0. PICK c \in Submitters : c = judged BY DEF ReadsRequest, JudgeInv, Queue
<1>1. /\ judge = "request" /\ judged = c /\ ~Waiting(c) /\ Types /\ Own(c)
      BY <1>0 DEF ReadsRequest, JudgeInv, Queue
<1>2. /\ submitter[c] \notin {"sending", "awaiting"} /\ next[c] = 0 /\ fromJudge[c] = <<>>
      /\ ~hung[c] /\ toJudge[c] = <<request[c]>>
      BY <1>1 DEF Own, Asked, Served
<1>3. Head(toJudge[judged]) = request[c] /\ Tail(toJudge[c]) = <<>> BY <1>1, <1>2
<1>4. /\ toJudge' = [toJudge EXCEPT ![c] = <<>>]
      /\ UNCHANGED <<judged, temp, executable, submitterOnly, arrived, hung>>
      /\ \/ request[c] = "program" /\ Reply("VALID", "start") /\ programFile' = <<>>
         \/ request[c] = "exit" /\ Reply("VALID", "done") /\ UNCHANGED programFile
         \/ /\ request[c] \notin {"program", "exit"} /\ Reply("INVALID", "accept")
            /\ UNCHANGED programFile
      BY <1>1, <1>3 DEF ReadsRequest
<1>5. Types'
  <2>1. /\ fromJudge' \in [Submitters -> Seq(Messages)] /\ inVain' \in [Submitters -> BOOLEAN]
        /\ judge' \in {"start", "done", "accept", "dead"}
        BY <1>1, <1>4, ReplyTypes DEF Messages
  <2>2. toJudge' \in [Submitters -> Seq(Items)] BY <1>1, <1>4 DEF Types
  <2>3. programFile' = <<>> \/ programFile' = programFile BY <1>4, Zenon
  <2>4. programFile' \in Programs
    <3>1. programFile \in Programs BY <1>1 DEF Types, JudgeTypeOK
    <3>2. <<>> \in Programs BY DEF Programs
    <3> QED BY <2>3, <3>1, <3>2
  <2> QED BY <1>1, <1>4, <2>1, <2>2, <2>4 DEF Types, JudgeTypeOK, submitterOnly
<1>6. \A d \in Submitters \ {c} : UNCHANGED <<toJudge[d], fromJudge[d], hung[d]>>
      BY <1>1, <1>4 DEF Reply, Types
<1>7. /\ toJudge'[c] = <<>> /\ UNCHANGED <<submitter[c], request[c], file[c], next[c], hung[c], verdict[c]>>
      /\ judge' \in {"start", "done", "accept", "dead"} /\ judged' = c
      /\ submitter[c] = "asking" => fromJudge'[c] \in {<<"VALID">>, <<"INVALID">>}
      /\ judge' = "start" => /\ request[c] = "program" /\ programFile' = <<>>
                             /\ submitter[c] = "asking" => fromJudge'[c] = <<"VALID">>
  <2>1. \A m \in Messages : \A after :
            Reply(m, after) => /\ judge' \in {after, "dead"}
                               /\ submitter[c] = "asking" => fromJudge'[c] = <<m>>
        BY <1>1, <1>2 DEF Reply, Types
  <2>2. "VALID" \in Messages /\ "INVALID" \in Messages BY DEF Messages
  <2>3. /\ judge' \in {"start", "done", "accept", "dead"}
        /\ submitter[c] = "asking" => fromJudge'[c] \in {<<"VALID">>, <<"INVALID">>}
        /\ judge' = "start" => /\ request[c] = "program" /\ programFile' = <<>>
                               /\ submitter[c] = "asking" => fromJudge'[c] = <<"VALID">>
    <3>1. CASE request[c] = "program" /\ Reply("VALID", "start") /\ programFile' = <<>>
          BY <2>1, <2>2, <3>1
    <3>2. CASE request[c] = "exit" /\ Reply("VALID", "done") BY <2>1, <2>2, <3>2
    <3>3. CASE Reply("INVALID", "accept")
      <4>1. /\ judge' \in {"accept", "dead"}
            /\ submitter[c] = "asking" => fromJudge'[c] = <<"INVALID">>
            BY <2>1, <2>2, <3>3, Zenon
      <4> QED BY <4>1
    <3> QED BY <1>4, <3>1, <3>2, <3>3, Zenon
  <2>4. toJudge'[c] = <<>> BY <1>1, <1>4 DEF Types
  <2> QED BY <1>1, <1>4, <2>3, <2>4 DEF submitterOnly
<1>8. Own(c)'
  <2>1. ~Waiting(c)' BY <1>1, <1>4 DEF Waiting
  <2>2. submitter[c] # "home" BY <1>1 DEF Own, AtHome, Served
  <2>3. AtHome(c)' BY <1>7, <2>2 DEF AtHome
  <2>4. Asked(c)' BY <1>7, <2>1 DEF Asked
  <2>5. Submitted(c)'
    <3>1. judge' = "start" => Unread(c, 0)' BY <1>2, <1>7 DEF Unread
    <3> QED BY <1>2, <1>7, <3>1 DEF Submitted, Receiving, HasRead
  <2>6. Afterwards(c)'
    <3>1. 2..Len(<<"VALID">>) = {} /\ 2..Len(<<"INVALID">>) = {} OBVIOUS
    <3>2. submitter[c] = "asking" => 2..Len(fromJudge'[c]) = {} BY <1>7, <3>1, Zenon
    <3>3. submitter'[c] = submitter[c] BY <1>7
    <3> QED BY <1>2, <3>2, <3>3, Zenon DEF Afterwards
  <2>7. Progress(c)' BY <1>1, <1>2, <1>7 DEF Progress, Own, Ended
  <2> QED BY <2>3, <2>4, <2>5, <2>6, <2>7 DEF Own
<1> QED BY <1>1, <1>4, <1>5, <1>6, <1>8, ServerKeeps

\* While the server receives, compiles and runs, all that changes of its client
\* is what has been read.
LEMMA ServedKeeps ==
    ASSUME JudgeInv, NEW c \in Submitters, judged = c, Receiving, Receiving', HasRead(c)',
           UNCHANGED <<judged, submitterOnly, arrived, fromJudge, hung>>
    PROVE  Own(c)'
<1>1. Own(c) /\ Served(c) /\ ~Waiting(c) BY DEF JudgeInv, Queue, Served
<1>2. Served(c)' /\ ~Waiting(c)' BY <1>1 DEF Served, Waiting
<1>3. judge # "request" /\ judge' # "request" /\ ~Ended BY DEF Receiving, Ended
<1>4. AtHome(c)' BY <1>1 DEF Own, AtHome, submitterOnly
<1>5. Asked(c)' BY <1>2, <1>3 DEF Asked
<1>6. Submitted(c)' BY <1>1 DEF Own, Submitted, submitterOnly
<1>7. Afterwards(c)' BY <1>2 DEF Afterwards
<1>8. Progress(c)' BY <1>1, <1>3 DEF Own, Progress, submitterOnly
<1> QED BY <1>4, <1>5, <1>6, <1>7, <1>8 DEF Own

\* One read: the next record, or nothing from a client that is gone.
LEMMA Reading ==
    ASSUME JudgeInv, NEW c \in Submitters, judged = c, NEW r \in Nat, Unread(c, r),
           MayRead, Consume, UNCHANGED submitterOnly
    PROVE  /\ Unread(c, r + 1)'
           /\ \/ Buff = Rec(c, r + 1)
              \/ Buff = Blank /\ submitter[c] = "gone" /\ toJudge'[c] = <<>>
           /\ \A d \in Submitters \ {c} : toJudge'[d] = toJudge[d]
<1>1. /\ toJudge[c] \in Seq(Items) /\ next[c] \in Nat
      /\ toJudge' = [toJudge EXCEPT ![c] = IF @ = <<>> THEN @ ELSE Tail(@)]
      /\ \A d \in Submitters : /\ submitter'[d] = submitter[d] /\ next'[d] = next[d]
                               /\ file'[d] = file[d]
      BY DEF JudgeInv, Types, JudgeTypeOK, Consume, submitterOnly
<1>2. \A d \in Submitters \ {c} : toJudge'[d] = toJudge[d] BY <1>1 DEF JudgeInv, Types
<1>3. \A k : Rec(c, k)' = Rec(c, k) BY <1>1 DEF Rec
<1>4. CASE toJudge[c] = <<>>
  <2>1. submitter[c] = "gone" /\ Buff = Blank BY <1>4 DEF MayRead, Buff
  <2>2. toJudge'[c] = <<>> BY <1>1, <1>4 DEF JudgeInv, Types
  <2> QED BY <1>1, <1>2, <2>1, <2>2 DEF Unread
<1>5. CASE toJudge[c] # <<>>
  <2> DEFINE t == Tail(toJudge[c])
  <2>1. /\ t \in Seq(Items) /\ Len(t) = Len(toJudge[c]) - 1
        /\ Len(toJudge[c]) \in Nat \ {0}
        /\ \A k \in 1..Len(t) : t[k] = toJudge[c][k + 1]
        BY <1>1, <1>5, EmptySeq, HeadTailProperties
  <2>2. toJudge'[c] = t /\ Buff = toJudge[c][1] BY <1>1, <1>5 DEF Buff, JudgeInv, Types
  <2> HIDE DEF t
  <2>3. /\ r <= next[c] /\ Len(toJudge[c]) = next[c] - r
        /\ \A k \in 1..Len(toJudge[c]) : toJudge[c][k] = Rec(c, r + k)
        BY <1>5 DEF Unread
  <2>4. Buff = Rec(c, r + 1) BY <2>1, <2>2, <2>3
  <2>5. r + 1 <= next[c] /\ Len(t) = next[c] - (r + 1) BY <1>1, <2>1, <2>3
  <2>6. \A k \in 1..Len(t) : t[k] = Rec(c, (r + 1) + k)
    <3>1. ASSUME NEW k \in 1..Len(t) PROVE t[k] = Rec(c, (r + 1) + k)
      <4>1. k + 1 \in 1..Len(toJudge[c]) /\ r + (k + 1) = (r + 1) + k BY <2>1
      <4> QED BY <2>1, <2>3, <4>1
    <3> QED BY <3>1
  <2>7. Unread(c, r + 1)' BY <1>1, <1>3, <2>2, <2>5, <2>6 DEF Unread
  <2> QED BY <1>2, <2>4, <2>7
<1> QED BY <1>4, <1>5

\* The mark before a file is recognised, unless the client is gone.
LEMMA ReadsStartKeeps == ASSUME JudgeInv, ReadsStart PROVE JudgeInv'
<1> USE DEF ReadsStart
<1>1. PICK c \in Submitters : c = judged BY DEF JudgeInv, Queue, Receiving
<1>2. Receiving /\ Receiving' /\ Served(c) BY <1>1 DEF Receiving, Served
<1>3. Unread(c, 0) /\ programFile = <<>>
      BY <1>2 DEF JudgeInv, Own, Submitted, HasRead
<1>4. /\ Unread(c, 0 + 1)'
      /\ Buff = Rec(c, 0 + 1) \/ submitter[c] = "gone"
      /\ \A d \in Submitters \ {c} : toJudge'[d] = toJudge[d]
      BY <1>1, <1>3, Reading
<1>5. Unread(c, 1)' /\ (ReadsAs(Starting) \/ submitter[c] = "gone") BY <1>4 DEF Rec, ReadsAs
<1>6. HasRead(c)'
  <2>1. judge' = "compile" => submitter'[c] = "gone" BY <1>5 DEF submitterOnly
  <2> QED BY <1>3, <1>5, <2>1 DEF HasRead, Live
<1>7. Own(c)' BY <1>1, <1>2, <1>6, ServedKeeps
<1>8. Types'
  <2>1. toJudge' \in [Submitters -> Seq(Items)] BY <1>1, ConsumeTypes DEF JudgeInv
  <2> QED BY <2>1 DEF JudgeInv, Types, JudgeTypeOK, submitterOnly
<1> QED BY <1>1, <1>2, <1>4, <1>7, <1>8, ServerKeeps

\* The record after the mark is kept back, or ends a file that is empty or
\* begins with a mark.
LEMMA ReadsFirstKeeps == ASSUME JudgeInv, ReadsFirst PROVE JudgeInv'
<1> USE DEF ReadsFirst
<1>1. PICK c \in Submitters : c = judged BY DEF JudgeInv, Queue, Receiving
<1>2. Receiving /\ Receiving' /\ Served(c) /\ Types
      BY <1>1 DEF Receiving, Served, JudgeInv
<1>3. Unread(c, 1) /\ programFile = <<>>
      BY <1>2 DEF JudgeInv, Own, Submitted, HasRead
<1>4. /\ Unread(c, 1 + 1)'
      /\ \/ Buff = Rec(c, 1 + 1)
         \/ Buff = Blank /\ submitter[c] = "gone" /\ toJudge'[c] = <<>>
      /\ \A d \in Submitters \ {c} : toJudge'[d] = toJudge[d]
      BY <1>1, <1>3, Reading
<1>5. /\ Unread(c, 2)' /\ submitter'[c] = submitter[c] /\ file'[c] = file[c]
      /\ \/ Buff = Rec(c, 2)
         \/ Buff = Blank /\ submitter[c] = "gone" /\ toJudge'[c] = <<>>
      BY <1>4 DEF submitterOnly
<1>6. Buff \in Contents \cup {Ending, Blank}
      BY <1>2, <1>5, RecAfterStart
<1>7. file[c] \in Seq(Contents) /\ Len(file[c]) \in Nat BY <1>2, FileIsSource
<1>8. ASSUME ReadsAs(Ending) PROVE HasRead(c)'
  <2>1. judge' = "compile" /\ programFile' = <<>> BY <1>3, <1>8
  <2>2. Live(c) => Str[Rec(c, 2)] = Str[Ending] BY <1>5, <1>8 DEF Live, ReadsAs
  <2>3. Live(c) /\ Len(file[c]) > 0 =>
           \E r \in Records(file[c]) : Str[r] \in {Str[Ending], Str[Blank]}
    <3>1. Len(file[c]) > 0 => 1 \in 1..Len(file[c]) /\ Rec(c, 2) = file[c][1]
          BY <1>7 DEF Rec
    <3> QED BY <2>2, <3>1 DEF Records
  <2>4. Live(c) => Good(c, <<>>)
    <3>1. <<>> \in Programs /\ Len(<<>>) = 0 BY DEF Programs
    <3> QED BY <1>2, <1>7, <2>3, <3>1, GoodText
  <2>5. Live(c)' => Good(c, programFile)' BY <1>5, <2>1, <2>4 DEF Good, Live
  <2> QED BY <2>1, <2>5 DEF HasRead
<1>9. ASSUME ~ReadsAs(Ending) PROVE HasRead(c)'
  <2>1. judge' = "record" /\ temp' = Str[Buff] /\ programFile' = <<>> BY <1>3, <1>9
  <2>2. Live(c)' => Buff = Rec(c, 2) BY <1>5 DEF Live
  <2>3. Buff = Rec(c, 2) => 2 <= Len(file[c]) + 1 BY <1>7, <1>9 DEF Rec, ReadsAs
  <2>4. Rec(c, 2)' = Rec(c, 2) BY <1>5 DEF Rec
  <2>6. Len(programFile') = 2 - 2 /\ 1..2 - 2 = {} BY <2>1
  <2>7. KeepsBack(c, 2)'
        BY <1>5, <2>1, <2>2, <2>3, <2>4, <2>6 DEF KeepsBack
  <2> QED BY <2>1, <2>7 DEF HasRead
<1>10. Own(c)' BY <1>1, <1>2, <1>8, <1>9, ServedKeeps
<1>11. Types'
  <2>1. toJudge' \in [Submitters -> Seq(Items)] BY <1>1, ConsumeTypes DEF JudgeInv
  <2>2. Str[Buff] \in Strings BY <1>6, BuffString
  <2> QED BY <2>1, <2>2 DEF JudgeInv, Types, JudgeTypeOK, submitterOnly
<1> QED BY <1>1, <1>2, <1>4, <1>10, <1>11, ServerKeeps

\* The record kept back is written when another follows it; at a mark the text
\* is the file, or what comes before the mark in it.
LEMMA ReadsRecordKeeps == ASSUME JudgeInv, ReadsRecord PROVE JudgeInv'
<1> USE DEF ReadsRecord
<1>1. PICK c \in Submitters : c = judged BY DEF JudgeInv, Queue, Receiving
<1>2. Receiving /\ Receiving' /\ Served(c) /\ Types
      BY <1>1 DEF Receiving, Served, JudgeInv
<1>3. PICK r \in Nat \ {0, 1} : KeepsBack(c, r)
      BY <1>2 DEF JudgeInv, Own, Submitted, HasRead
<1>4. /\ Unread(c, r + 1)' /\ submitter'[c] = submitter[c] /\ file'[c] = file[c]
      /\ \/ Buff = Rec(c, r + 1)
         \/ Buff = Blank /\ submitter[c] = "gone" /\ toJudge'[c] = <<>>
      /\ \A d \in Submitters \ {c} : toJudge'[d] = toJudge[d]
      BY <1>1, <1>3, Reading DEF KeepsBack, submitterOnly
<1>5. r + 1 \in Nat \ {0, 1} /\ r + 1 >= 2 OBVIOUS
<1>6. Buff \in Contents \/ Buff = Ending
      \/ (Buff = Blank /\ submitter[c] = "gone" /\ toJudge'[c] = <<>>)
      BY <1>2, <1>4, <1>5, RecAfterStart
<1>7. /\ file[c] \in Seq(Contents) /\ Len(file[c]) \in Nat
      /\ programFile \in Seq(Strings)
      BY <1>2, FileIsSource DEF Types, JudgeTypeOK, Programs
<1>8. temp \in Strings
      BY <1>2 DEF Types, JudgeTypeOK
<1>9. programFile' \in Seq(Strings)
      BY <1>7, <1>8
<1>10. Live(c) => /\ temp = Str[Rec(c, r)] /\ r <= Len(file[c]) + 1 /\ Len(programFile) = r - 2
                  /\ \A k \in 1..r - 2 : programFile[k] = Str[file[c][k]]
                  /\ Buff = Rec(c, r + 1)
      BY <1>3, <1>4 DEF KeepsBack, Live
<1>11. Live(c) /\ ~ReadsAs(Blank) =>
          /\ Len(programFile') = r - 1
          /\ \A k \in 1..r - 1 : programFile'[k] = Str[file[c][k]]
  <2>1. SUFFICES ASSUME Live(c), ~ReadsAs(Blank)
                 PROVE  /\ Len(programFile') = r - 1
                        /\ \A k \in 1..r - 1 : programFile'[k] = Str[file[c][k]]
        OBVIOUS
  <2>2. programFile' = Append(programFile, temp) /\ temp = Str[file[c][r - 1]]
        BY <1>5, <1>10, <2>1 DEF Rec
  <2>3. /\ Len(programFile') = Len(programFile) + 1
        /\ \A k \in 1..Len(programFile) + 1 :
              programFile'[k] = IF k <= Len(programFile) THEN programFile[k] ELSE temp
        BY <1>7, <1>8, <2>1, <2>2
  <2>4. Len(programFile) = r - 2 /\ \A k \in 1..r - 2 : programFile[k] = Str[file[c][k]]
        BY <1>10, <2>1
  <2> QED BY <2>2, <2>3, <2>4
<1>12. ASSUME ReadsAs(Blank) PROVE HasRead(c)'
  <2>1. judge' = "compile" /\ programFile' = programFile BY <1>12
  <2>2. ASSUME Live(c) PROVE Good(c, programFile)
    <3>1. Str[Blank] = Str[Rec(c, r + 1)] /\ r <= Len(file[c]) + 1
          BY <1>10, <1>12, <2>2 DEF ReadsAs
    <3>2. r \in 1..Len(file[c]) /\ Str[file[c][r]] = Str[Blank]
          BY <1>5, <1>7, <3>1, JudgeAssumption DEF Rec
    <3>3. file[c][r] \in Records(file[c]) BY <3>2 DEF Records
    <3>4. /\ programFile \in Programs /\ Len(programFile) <= Len(file[c])
          /\ \A k \in 1..Len(programFile) : programFile[k] = Str[file[c][k]]
          BY <1>7, <1>10, <2>2, <3>2 DEF Programs
    <3> QED BY <1>2, <3>2, <3>3, <3>4, GoodText
  <2> QED BY <1>4, <2>1, <2>2 DEF HasRead, Live, Good
<1>13. ASSUME ReadsAs(Ending) PROVE HasRead(c)'
  <2>1. judge' = "compile" /\ ~ReadsAs(Blank) BY <1>13, JudgeAssumption DEF ReadsAs
  <2>2. ASSUME Live(c) PROVE Good(c, programFile')
    <3>1. Str[Ending] = Str[Rec(c, r + 1)] /\ r <= Len(file[c]) + 1
          BY <1>10, <1>13, <2>2 DEF ReadsAs
    <3>2. r - 1 < Len(file[c]) => r \in 1..Len(file[c]) /\ Str[file[c][r]] = Str[Ending]
          BY <1>5, <1>7, <3>1 DEF Rec
    <3>3. r - 1 < Len(file[c]) => file[c][r] \in Records(file[c]) BY <3>2 DEF Records
    <3>4. /\ programFile' \in Programs /\ Len(programFile') = r - 1
          /\ \A k \in 1..Len(programFile') : programFile'[k] = Str[file[c][k]]
          BY <1>9, <1>11, <2>1, <2>2 DEF Programs
    <3>5. r - 1 <= Len(file[c]) BY <1>7, <3>1
    <3> QED BY <1>2, <3>2, <3>3, <3>4, <3>5, GoodText
  <2> QED BY <1>4, <2>1, <2>2 DEF HasRead, Live, Good
<1>14. ASSUME ~ReadsAs(Blank), ~ReadsAs(Ending) PROVE HasRead(c)'
  <2>1. judge' = "record" /\ temp' = Str[Buff] BY <1>14
  <2>2. ASSUME Live(c)
        PROVE  /\ Buff = Rec(c, r + 1) /\ r + 1 <= Len(file[c]) + 1
               /\ Len(programFile') = (r + 1) - 2
               /\ \A k \in 1..(r + 1) - 2 : programFile'[k] = Str[file[c][k]]
    <3>1. Buff = Rec(c, r + 1) BY <1>10, <2>2
    <3>2. r + 1 <= Len(file[c]) + 1 BY <1>5, <1>7, <1>14, <3>1 DEF Rec, ReadsAs
    <3>3. (r + 1) - 2 = r - 1 OBVIOUS
    <3> QED BY <1>11, <1>14, <2>2, <3>1, <3>2, <3>3
  <2>3. Rec(c, r + 1)' = Rec(c, r + 1) /\ (Live(c)' <=> Live(c)) BY <1>4 DEF Rec, Live
  <2>4. KeepsBack(c, r + 1)' BY <1>4, <2>1, <2>2, <2>3 DEF KeepsBack
  <2> QED BY <1>5, <2>1, <2>4 DEF HasRead
<1>15. Own(c)' BY <1>1, <1>2, <1>12, <1>13, <1>14, ServedKeeps
<1>16. Types'
  <2>1. toJudge' \in [Submitters -> Seq(Items)] BY <1>1, ConsumeTypes DEF JudgeInv
  <2>2. programFile' \in Programs BY <1>9 DEF Programs
  <2>3. Str[Buff] \in Strings BY <1>6, BuffString
  <2> QED BY <2>1, <2>2, <2>3 DEF JudgeInv, Types, JudgeTypeOK, submitterOnly
<1> QED BY <1>1, <1>2, <1>4, <1>15, <1>16, ServerKeeps

\* The compiler is given P.cpp.
LEMMA CompilesKeeps == ASSUME JudgeInv, Compiles PROVE JudgeInv'
<1> USE DEF Compiles
<1>1. PICK c \in Submitters : c = judged BY DEF JudgeInv, Queue, Receiving
<1>2. Receiving /\ Receiving' /\ Served(c) /\ Types
      BY <1>1 DEF Receiving, Served, JudgeInv
<1>3. HasRead(c) BY <1>2 DEF JudgeInv, Own, Submitted
<1>4. HasRead(c)' BY <1>3 DEF HasRead, Live, Good, submitterOnly
<1>5. Own(c)' BY <1>1, <1>2, <1>4, ServedKeeps
<1>6. Types' BY <1>2 DEF Types, JudgeTypeOK, submitterOnly
<1> QED BY <1>1, <1>2, <1>5, <1>6, ServerKeeps

\* A message about a good text ends the service of a client.
LEMMA PassKeeps ==
    ASSUME JudgeInv, NEW c \in Submitters, judged = c, Receiving, NEW m \in Verdicts,
           Live(c) => Good(c, m.of), Pass(m),
           UNCHANGED <<judged, temp, programFile, executable, submitterOnly, arrived, toJudge>>
    PROVE  JudgeInv'
<1>1. Types /\ Own(c) /\ ~Waiting(c) /\ Served(c) BY DEF JudgeInv, Queue, Served
<1>2. m \in Messages BY DEF Messages
<1>3. /\ fromJudge' \in [Submitters -> Seq(Messages)] /\ inVain' \in [Submitters -> BOOLEAN]
      /\ judge' \in {"accept", "dead"}
      BY <1>1, <1>2, ReplyTypes DEF Pass
<1>4. Types' BY <1>1, <1>3 DEF Pass, Types, JudgeTypeOK, submitterOnly
<1>5. \A d \in Submitters \ {c} : UNCHANGED <<toJudge[d], fromJudge[d], hung[d]>>
      BY <1>1 DEF Pass, Reply, Types, JudgeTypeOK
<1>6. ~Served(c)' /\ ~Waiting(c)' /\ ~Receiving' /\ judge' # "request"
      BY <1>1, <1>3 DEF Served, Receiving, Waiting
<1>7. /\ submitter'[c] = submitter[c] /\ file'[c] = file[c] /\ next'[c] = next[c]
      /\ submitter[c] \notin {"home", "over"}
  <2>1. ~Ended BY DEF Ended, Receiving
  <2> QED BY <1>1, <2>1 DEF submitterOnly, Own, AtHome, Progress
<1>8. Live(c) => fromJudge'[c] = Append(fromJudge[c], m) /\ Verdict(c, m)'
  <2>1. Good(c, m.of) => Good(c, m.of)' BY <1>7 DEF Good
  <2> QED BY <1>1, <2>1 DEF Pass, Reply, Types, Live, Verdict
<1>9. Afterwards(c)'
  <2>1. ASSUME submitter[c] = "asking"
        PROVE  \A k \in 2..Len(fromJudge'[c]) : Verdict(c, fromJudge[c][k])'
    <3>1. fromJudge[c] = <<"VALID">> BY <1>1, <2>1 DEF Own, Submitted
    <3>2. fromJudge'[c] = Append(<<"VALID">>, m) BY <1>8, <2>1, <3>1 DEF Live
    <3>3. Len(fromJudge'[c]) = 2 /\ fromJudge'[c][2] = m BY <3>2
    <3>4. \A k \in 2..Len(fromJudge'[c]) : k = 2 BY <3>3
    <3>5. Verdict(c, fromJudge[c][2])' BY <1>8, <2>1, <3>3 DEF Live, Verdict, Good
    <3> QED BY <3>4, <3>5
  <2>2. ASSUME submitter[c] \in {"sending", "awaiting"}
        PROVE  \A k \in 1..Len(fromJudge'[c]) : Verdict(c, fromJudge[c][k])'
    <3>1. fromJudge[c] = <<>> BY <1>1, <2>2 DEF Own, Submitted
    <3>2. fromJudge'[c] = Append(<<>>, m) BY <1>8, <2>2, <3>1 DEF Live
    <3>3. Len(fromJudge'[c]) = 1 /\ fromJudge'[c][1] = m BY <3>2
    <3>4. \A k \in 1..Len(fromJudge'[c]) : k = 1 BY <3>3
    <3>5. Verdict(c, fromJudge[c][1])' BY <1>8, <2>2, <3>3 DEF Live, Verdict, Good
    <3> QED BY <3>4, <3>5
  <2> QED BY <1>7, <2>1, <2>2 DEF Afterwards
<1>10. Own(c)'
  <2>1. AtHome(c)' BY <1>7 DEF AtHome
  <2>2. Asked(c)' BY <1>6 DEF Asked
  <2>3. Submitted(c)' BY <1>6 DEF Submitted
  <2>4. Progress(c)' BY <1>1, <1>7 DEF Own, Progress
  <2> QED BY <1>9, <2>1, <2>2, <2>3, <2>4 DEF Own
<1> QED BY <1>4, <1>5, <1>10, ServerKeeps

LEMMA CompileFailsKeeps == ASSUME JudgeInv, CompileFails PROVE JudgeInv'
<1> USE DEF CompileFails
<1>1. PICK c \in Submitters : c = judged BY DEF JudgeInv, Queue, Receiving
<1>2. Receiving /\ Served(c) BY <1>1 DEF Receiving, Served
<1>3. HasRead(c) /\ programFile \in Programs
      BY <1>2 DEF JudgeInv, Own, Submitted, Types, JudgeTypeOK
<1>4. PICK m \in Verdicts : m = [kind |-> "error", of |-> programFile]
      BY <1>3 DEF Verdicts
<1>5. Live(c) => Good(c, m.of) BY <1>3, <1>4 DEF HasRead
<1>6. Pass(m) BY <1>4
<1> QED BY <1>1, <1>2, <1>5, <1>6, PassKeeps

LEMMA RunsKeeps == ASSUME JudgeInv, Runs PROVE JudgeInv'
<1>1. PICK c \in Submitters : c = judged BY DEF Runs, JudgeInv, Queue, Receiving
<1>2. Receiving /\ Served(c) BY <1>1 DEF Runs, Receiving, Served
<1>3. HasRead(c) /\ executable \in Programs /\ Types
      BY <1>2 DEF JudgeInv, Own, Submitted, Types, JudgeTypeOK
<1>4. CASE judge' = "running" /\ UNCHANGED <<fromJudge, hung, inVain>>
  <2> USE <1>4 DEF Runs
  <2>1. HasRead(c)' /\ Receiving' BY DEF HasRead, Receiving
  <2>2. Own(c)' BY <1>1, <1>2, <2>1, ServedKeeps
  <2>3. Types' BY <1>3 DEF Types, JudgeTypeOK, submitterOnly
  <2> QED BY <1>1, <1>2, <2>2, <2>3, ServerKeeps
<1>5. CASE \E kind \in {"passed", "failed"} : Pass([kind |-> kind, of |-> executable])
  <2>1. PICK kind \in {"passed", "failed"} : Pass([kind |-> kind, of |-> executable]) BY <1>5
  <2>2. PICK m \in Verdicts : m = [kind |-> kind, of |-> executable]
        BY <1>3 DEF Verdicts
  <2>3. Live(c) => Good(c, m.of) BY <1>3, <2>2 DEF HasRead, Runs
  <2>4. Pass(m) BY <2>1, <2>2
  <2> QED BY <1>1, <1>2, <2>3, <2>4, PassKeeps DEF Runs
<1> QED BY <1>4, <1>5 DEF Runs

-----------------------------------------------------------------------------
(* Steps of the clients *)

LEMMA JudgedIsGood ==
    JudgedAsSent <=> \A c \in Submitters : \A k \in 1..Len(verdict[c]) : Good(c, verdict[c][k])
<1>1. \A c, v : Good(c, v) <=>
         /\ Len(v) <= Len(file[c]) /\ \A k \in 1..Len(v) : v[k] = Str[file[c][k]]
         /\ (\A r \in Records(file[c]) : Str[r] \notin {Str[Ending], Str[Blank]})
               => Len(v) = Len(file[c])
      BY DEF Good
<1>2. JudgedAsSent <=> \A c \in Submitters :
                          \A v \in {verdict[c][k] : k \in 1..Len(verdict[c])} : Good(c, v)
      BY <1>1, Zenon DEF JudgedAsSent
<1> QED BY <1>2

\* A step of a client changes what it has and what it has sent, and no other
\* client's.
LEMMA ClientKeeps ==
    ASSUME JudgeInv, NEW c \in Submitters, Types', Queue', Own(c)', UNCHANGED judgeOnly,
           \A k \in 1..Len(verdict'[c]) : Good(c, verdict[c][k])',
           \A d \in Submitters \ {c} :
               /\ Waiting(d)' <=> Waiting(d)
               /\ UNCHANGED <<submitter[d], request[d], file[d], next[d], toJudge[d],
                              fromJudge[d], hung[d], verdict[d]>>
    PROVE  JudgeInv'
<1>1. ASSUME NEW d \in Submitters \ {c} PROVE Own(d)'
  <2>1. Own(d) /\ (Served(d)' <=> Served(d))
        BY DEF JudgeInv, judgeOnly, Served, Receiving
  <2>2. UNCHANGED <<judge, temp, programFile, executable>> /\ (Ended => Ended')
        BY DEF judgeOnly, Ended
  <2> QED BY <2>1, <2>2, OthersKept
<1>2. ASSUME NEW d \in Submitters, NEW k \in 1..Len(verdict'[d])
      PROVE  Good(d, verdict[d][k])'
  <2>1. CASE d = c BY <2>1
  <2>2. CASE d # c
    <3>1. verdict'[d] = verdict[d] /\ file'[d] = file[d] BY <2>2
    <3>2. Good(d, verdict[d][k]) BY <1>2, <3>1, JudgedIsGood DEF JudgeInv
    <3> QED BY <3>1, <3>2 DEF Good
  <2> QED BY <2>1, <2>2
<1>3. JudgedAsSent'
  <2>1. SUFFICES ASSUME NEW d \in Submitters, NEW k \in 1..Len(verdict'[d]),
                        NEW v, v = verdict'[d][k]
                 PROVE  /\ Len(v) <= Len(file'[d])
                        /\ \A j \in 1..Len(v) : v[j] = Str[file'[d][j]]
                        /\ (\A r \in Records(file'[d]) :
                               Str[r] \notin {Str[Ending], Str[Blank]})
                              => Len(v) = Len(file'[d])
        BY DEF JudgedAsSent
  <2>2. Good(d, verdict[d][k])' BY <1>2
  <2> QED BY <2>1, <2>2 DEF Good
<1> QED BY <1>1, <1>3 DEF JudgeInv

\* What has been read of a client stays read.
LEMMA ReadingKept ==
    ASSUME NEW c \in Submitters, HasRead(c), UNCHANGED judgeOnly,
           UNCHANGED <<toJudge[c], next[c], file[c]>>,
           submitter[c] = "gone" => submitter'[c] = "gone", Live(c)' => Live(c)
    PROVE  HasRead(c)'
<1>1. \A r \in Nat : Unread(c, r) => Unread(c, r)' BY DEF Unread, Rec
<1>2. \A r \in Nat \ {0, 1} : KeepsBack(c, r) => KeepsBack(c, r)'
      BY <1>1 DEF KeepsBack, Rec, judgeOnly
<1>3. \A v : Good(c, v) => Good(c, v)' BY DEF Good
<1> QED BY <1>1, <1>2, <1>3 DEF HasRead, judgeOnly

\* A client that ends leaves its records where they are.
LEMMA LeavingKeeps ==
    ASSUME JudgeInv, NEW c \in Submitters, Live(c), NEW s \in {"over", "gone"},
           s = "over" => Ended,
           submitter' = [submitter EXCEPT ![c] = s],
           UNCHANGED <<judgeOnly, request, file, next, verdict, arrived, toJudge, fromJudge, hung,
                       inVain>>
    PROVE  JudgeInv'
<1>1. Types /\ Own(c) /\ Queue BY DEF JudgeInv
<1>2. submitter'[c] = s /\ \A d \in Submitters \ {c} : submitter'[d] = submitter[d]
      BY <1>1 DEF Types, JudgeTypeOK
<1>3. Types' BY <1>1 DEF Types, JudgeTypeOK, judgeOnly
<1>4. Queue' BY <1>1 DEF Queue, Waiting, Receiving, judgeOnly
<1>5. \A d : (Waiting(d)' <=> Waiting(d)) /\ (Served(d)' <=> Served(d))
      BY DEF Waiting, Served, Receiving, judgeOnly
<1>6. Own(c)'
  <2>1. AtHome(c)' BY <1>2 DEF AtHome
  <2>2. Asked(c)' BY <1>1, <1>2, <1>5 DEF Own, Asked, judgeOnly
  <2>3. Submitted(c)'
    <3>1. ASSUME Served(c), Receiving PROVE HasRead(c)'
      <4>1. s = "gone" BY <3>1 DEF Receiving, Ended
      <4>2. HasRead(c) BY <1>1, <3>1 DEF Own, Submitted
      <4> QED BY <1>2, <4>1, <4>2, ReadingKept DEF Live
    <3>2. Receiving' <=> Receiving BY DEF Receiving, judgeOnly
    <3> QED BY <1>1, <1>2, <1>5, <3>1, <3>2 DEF Own, Submitted
  <2>4. Afterwards(c)' BY <1>2 DEF Afterwards
  <2>5. Progress(c)' BY <1>2 DEF Progress, Ended, judgeOnly
  <2> QED BY <2>1, <2>2, <2>3, <2>4, <2>5 DEF Own
<1>7. \A k \in 1..Len(verdict'[c]) : Good(c, verdict[c][k])'
  <2>1. JudgedAsSent BY DEF JudgeInv
  <2> QED BY <2>1, JudgedIsGood DEF Good
<1> QED BY <1>2, <1>3, <1>4, <1>5, <1>6, <1>7, ClientKeeps

LEMMA LeavesKeeps ==
    ASSUME JudgeInv, NEW c \in Submitters, IsCutOff(c) \/ Vanishes(c) PROVE JudgeInv'
<1>1. CASE IsCutOff(c) BY <1>1, LeavingKeeps DEF IsCutOff, Live
<1>2. CASE Vanishes(c) BY <1>2, LeavingKeeps DEF Vanishes, Live
<1> QED BY <1>1, <1>2

\* A client joins the queue with its request.
LEMMA SubmitsKeeps == ASSUME JudgeInv, NEW c \in Submitters, Submits(c) PROVE JudgeInv'
<1> USE DEF Submits
<1>1. Types /\ Own(c) /\ Queue BY DEF JudgeInv
<1>2. /\ ~Waiting(c) /\ ~Served(c) /\ fromJudge[c] = <<>> /\ ~hung[c] /\ verdict[c] = <<>>
      /\ next[c] = 0
      BY <1>1 DEF Own, AtHome, Progress
<1>3. /\ \A d \in Submitters : Waiting(d)' <=> Waiting(d) \/ d = c
      /\ \A j, k \in 1..Len(arrived') : arrived'[j] = arrived'[k] => j = k
      BY <1>1, <1>2, Arrival
<1>4. PICK r \in Requests, f \in Files :
          /\ request' = [request EXCEPT ![c] = r] /\ file' = [file EXCEPT ![c] = f]
          /\ toJudge' = [toJudge EXCEPT ![c] = <<r>>]
      OBVIOUS
<1>5. /\ submitter'[c] = "asking" /\ toJudge'[c] = <<request'[c]>>
      /\ \A d \in Submitters \ {c} :
            UNCHANGED <<submitter[d], request[d], file[d], next[d], toJudge[d], fromJudge[d],
                        hung[d], verdict[d]>>
      BY <1>1, <1>4 DEF Types, JudgeTypeOK
<1>6. Types'
  <2>1. r \in Items BY DEF Items
  <2>2. <<r>> \in Seq(Items) BY <2>1
  <2>3. toJudge' \in [Submitters -> Seq(Items)] BY <1>1, <1>4, <2>2 DEF Types
  <2>4. arrived' \in Seq(Submitters) BY <1>1 DEF Types, JudgeTypeOK
  <2>5. request' \in [Submitters -> Requests] /\ file' \in [Submitters -> Files]
        BY <1>1, <1>4 DEF Types, JudgeTypeOK
  <2> QED BY <1>1, <2>3, <2>4, <2>5 DEF Types, JudgeTypeOK, judgeOnly
<1>7. Queue'
  <2>1. judge = "request" \/ Receiving => judged # c BY <1>2 DEF Served
  <2>2. (judge = "request" \/ Receiving)' <=> (judge = "request" \/ Receiving)
        BY DEF Receiving, judgeOnly
  <2>3. judged' = judged BY DEF judgeOnly
  <2>4. judge = "request" \/ Receiving => judged \in Submitters /\ ~Waiting(judged)
        BY <1>1 DEF Queue
  <2>5. judge = "request" \/ Receiving => ~Waiting(judged)'
        BY <1>3, <2>1, <2>3, <2>4
  <2> QED BY <1>3, <2>2, <2>3, <2>4, <2>5 DEF Queue
<1>8. Own(c)'
  <2>1. ~Served(c)' /\ Waiting(c)' BY <1>2, <1>3 DEF Served, Receiving, judgeOnly
  <2>2. AtHome(c)' BY <1>5 DEF AtHome
  <2>3. Asked(c)' BY <1>2, <1>5 DEF Asked
  <2>4. Submitted(c)' BY <2>1 DEF Submitted
  <2>5. Afterwards(c)' BY <2>1 DEF Afterwards
  <2>6. Progress(c)' BY <1>2, <1>5 DEF Progress
  <2> QED BY <2>2, <2>3, <2>4, <2>5, <2>6 DEF Own
<1>9. verdict'[c] = <<>> BY <1>2
<1>10. \A k \in 1..Len(verdict'[c]) : Good(c, verdict[c][k])' BY <1>9
<1> QED BY <1>3, <1>5, <1>6, <1>7, <1>8, <1>10, ClientKeeps

\* A client that has an answer or a verdict before it is not waiting, nor has
\* its request still to be read.
LEMMA NotAwaited ==
    ASSUME JudgeInv, NEW c \in Submitters,
           fromJudge[c] # <<>> \/ submitter[c] \in {"sending", "awaiting"}
    PROVE  ~Waiting(c) /\ ~(Served(c) /\ judge = "request")
BY DEF JudgeInv, Own, Asked

\* Steps that change neither the queue nor what the server does.
LEMMA PlacesKept ==
    ASSUME JudgeInv, UNCHANGED <<judgeOnly, arrived>>
    PROVE  /\ Queue' /\ (Receiving' <=> Receiving)
           /\ \A d : (Waiting(d)' <=> Waiting(d)) /\ (Served(d)' <=> Served(d))
BY DEF JudgeInv, Queue, Waiting, Served, Receiving, judgeOnly

\* The answer is the first of what comes; the verdicts are behind it.
LEMMA ReadsAnswerKeeps ==
    ASSUME JudgeInv, NEW c \in Submitters, ReadsAnswer(c) PROVE JudgeInv'
<1> USE DEF ReadsAnswer
<1>1. Types /\ Own(c) /\ ~Waiting(c) /\ ~(Served(c) /\ judge = "request")
      BY NotAwaited DEF JudgeInv
<1>2. /\ Queue' /\ (Receiving' <=> Receiving)
      /\ \A d : (Waiting(d)' <=> Waiting(d)) /\ (Served(d)' <=> Served(d))
      BY PlacesKept
<1>3. /\ fromJudge'[c] = Tail(fromJudge[c]) /\ Tail(fromJudge[c]) \in Seq(Messages)
      /\ Len(fromJudge'[c]) = Len(fromJudge[c]) - 1 /\ Len(fromJudge[c]) \in Nat
      /\ \A k \in 1..Len(fromJudge'[c]) : fromJudge'[c][k] = fromJudge[c][k + 1]
      BY <1>1, EmptySeq, HeadTailProperties DEF Types
<1>4. /\ submitter'[c] = IF request[c] = "program" THEN "sending" ELSE "gone"
      /\ \A d \in Submitters \ {c} :
            UNCHANGED <<submitter[d], request[d], file[d], next[d], toJudge[d], fromJudge[d],
                        hung[d], verdict[d]>>
      BY <1>1 DEF Types, JudgeTypeOK
<1>5. Types' BY <1>1, <1>3 DEF Types, JudgeTypeOK, judgeOnly
<1>6. Own(c)'
  <2>1. AtHome(c)' BY <1>4 DEF AtHome
  <2>2. Asked(c)' BY <1>1, <1>2 DEF Asked, judgeOnly
  <2>3. Submitted(c)'
    <3>1. SUFFICES ASSUME Served(c), Receiving
                   PROVE  /\ request[c] = "program" /\ ~hung[c] /\ HasRead(c)'
                          /\ submitter'[c] = "sending" /\ fromJudge'[c] = <<>>
          BY <1>2 DEF Submitted
    <3>2. request[c] = "program" /\ ~hung[c] /\ HasRead(c) /\ fromJudge[c] = <<"VALID">>
          BY <1>1, <3>1 DEF Own, Submitted
    <3>3. fromJudge'[c] = <<>> BY <1>3, <3>2
    <3>4. HasRead(c)' BY <1>4, <3>2, ReadingKept DEF Live
    <3> QED BY <1>4, <3>2, <3>3, <3>4
  <2>4. Afterwards(c)'
    <3>1. SUFFICES ASSUME ~Served(c), NEW k \in 1..Len(fromJudge'[c])
                   PROVE  Verdict(c, fromJudge[c][k])'
      <4>1. submitter'[c] # "asking" BY <1>4
      <4>2. ~Waiting(c)' /\ (~Served(c)' <=> ~Served(c)) BY <1>1, <1>2
      <4> QED BY <4>1, <4>2, Zenon DEF Afterwards
    <3>2. k + 1 \in 2..Len(fromJudge[c]) /\ fromJudge'[c][k] = fromJudge[c][k + 1] BY <1>3
    <3>3. Verdict(c, fromJudge[c][k + 1]) BY <1>1, <3>1, <3>2 DEF Own, Afterwards
    <3> QED BY <3>2, <3>3 DEF Verdict, Good
  <2>5. Progress(c)'
    <3>1. next[c] = 0 /\ Len(file[c]) \in Nat BY <1>1, FileIsSource DEF Own, Progress
    <3> QED BY <1>4, <3>1 DEF Progress
  <2> QED BY <2>1, <2>2, <2>3, <2>4, <2>5 DEF Own
<1>7. \A k \in 1..Len(verdict'[c]) : Good(c, verdict[c][k])'
  <2>1. JudgedAsSent BY DEF JudgeInv
  <2> QED BY <2>1, JudgedIsGood DEF Good
<1> QED BY <1>2, <1>4, <1>5, <1>6, <1>7, ClientKeeps

\* A verdict is about a good text when it is sent, and still when it is read.
LEMMA ReadsVerdictKeeps ==
    ASSUME JudgeInv, NEW c \in Submitters, ReadsVerdict(c) PROVE JudgeInv'
<1> USE DEF ReadsVerdict
<1>1. Types /\ Own(c) /\ ~Waiting(c) /\ ~(Served(c) /\ judge = "request")
      BY NotAwaited DEF JudgeInv
<1>2. /\ Queue' /\ (Receiving' <=> Receiving)
      /\ \A d : (Waiting(d)' <=> Waiting(d)) /\ (Served(d)' <=> Served(d))
      BY PlacesKept
<1>3. ~Served(c) BY <1>1 DEF Own, Submitted, Served
<1>4. PICK m \in Messages : m = Head(fromJudge[c]) /\ m = fromJudge[c][1]
      BY <1>1, EmptySeq, HeadTailProperties DEF Types
<1>5. 1 \in 1..Len(fromJudge[c]) /\ Tail(fromJudge[c]) \in Seq(Messages)
      BY <1>1, EmptySeq, HeadTailProperties DEF Types
<1>6. Verdict(c, m) BY <1>1, <1>3, <1>4, <1>5 DEF Own, Afterwards
<1>7. m.of \in Programs BY <1>6 DEF Verdict, Verdicts
<1>8. /\ submitter'[c] = "gone" /\ verdict'[c] = Append(verdict[c], m.of)
      /\ \A d \in Submitters \ {c} :
            UNCHANGED <<submitter[d], request[d], file[d], next[d], toJudge[d], fromJudge[d],
                        hung[d], verdict[d]>>
      BY <1>1, <1>4 DEF Types, JudgeTypeOK
<1>9. Append(verdict[c], m.of) \in Seq(Programs) BY <1>1, <1>7 DEF Types, JudgeTypeOK
<1>10. Types' BY <1>1, <1>4, <1>5, <1>9 DEF Types, JudgeTypeOK, judgeOnly
<1>11. Own(c)'
  <2>1. AtHome(c)' BY <1>8 DEF AtHome
  <2>2. Asked(c)' BY <1>1, <1>2 DEF Asked, judgeOnly
  <2>3. Submitted(c)' BY <1>2, <1>3 DEF Submitted
  <2>4. Afterwards(c)' BY <1>8 DEF Afterwards
  <2>5. Progress(c)' BY <1>8 DEF Progress
  <2> QED BY <2>1, <2>2, <2>3, <2>4, <2>5 DEF Own
<1>12. \A k \in 1..Len(verdict'[c]) : Good(c, verdict[c][k])'
  <2>1. verdict[c] \in Seq(Programs) BY <1>1 DEF Types, JudgeTypeOK
  <2>2. \A k \in 1..Len(verdict'[c]) :
            verdict'[c][k] = m.of \/ (k \in 1..Len(verdict[c]) /\ verdict'[c][k] = verdict[c][k])
        BY <1>7, <1>8, <2>1
  <2>3. \A k \in 1..Len(verdict[c]) : Good(c, verdict[c][k])
        BY JudgedIsGood DEF JudgeInv
  <2>4. Good(c, m.of) BY <1>6 DEF Verdict
  <2>5. \A v : Good(c, v) => Good(c, v)' BY DEF Good
  <2>6. SUFFICES ASSUME NEW k \in 1..Len(verdict'[c]) PROVE Good(c, verdict[c][k])' OBVIOUS
  <2>7. Good(c, verdict'[c][k]) BY <2>2, <2>3, <2>4, <2>6
  <2> QED BY <2>7 DEF Good
<1> QED BY <1>2, <1>8, <1>10, <1>11, <1>12, ClientKeeps

\* One more record is on its way behind those the server has not read.
LEMMA Sending ==
    ASSUME Types, NEW c \in Submitters, submitter[c] = "sending", next[c] < Len(file[c]) + 2,
           next'[c] = next[c] + 1, file'[c] = file[c],
           toJudge'[c] = Append(toJudge[c], Rec(c, next[c] + 1)),
           NEW r \in Nat, Unread(c, r)
    PROVE  Unread(c, r)'
<1>1. toJudge[c] \in Seq(Items) /\ next[c] \in Nat BY DEF Types, JudgeTypeOK
<1>2. /\ r <= next[c] /\ Len(toJudge[c]) = next[c] - r
      /\ \A k \in 1..Len(toJudge[c]) : toJudge[c][k] = Rec(c, r + k)
      BY DEF Unread
<1>3. /\ Len(toJudge'[c]) = Len(toJudge[c]) + 1
      /\ \A k \in 1..Len(toJudge[c]) + 1 :
            toJudge'[c][k] = IF k <= Len(toJudge[c]) THEN toJudge[c][k] ELSE Rec(c, next[c] + 1)
      BY <1>1
<1>4. \A k : Rec(c, k)' = Rec(c, k) BY DEF Rec
<1>5. ASSUME NEW k \in 1..Len(toJudge'[c]) PROVE toJudge'[c][k] = Rec(c, r + k)'
  <2>1. CASE k <= Len(toJudge[c]) BY <1>2, <1>3, <1>4, <1>5, <2>1
  <2>2. CASE k = Len(toJudge[c]) + 1
    <3>1. r + k = next[c] + 1 BY <1>1, <1>2, <2>2
    <3> QED BY <1>1, <1>2, <1>3, <1>4, <2>2, <3>1
  <2> QED BY <1>1, <1>2, <1>3, <1>5, <2>1, <2>2
<1>6. r <= next'[c] /\ Len(toJudge'[c]) = next'[c] - r BY <1>1, <1>2, <1>3
<1> QED BY <1>5, <1>6 DEF Unread

LEMMA SendsRecordKeeps ==
    ASSUME JudgeInv, NEW c \in Submitters, SendsRecord(c) PROVE JudgeInv'
<1> DEFINE all == <<Starting>> \o file[c] \o <<Ending>>
<1>1. Types /\ Own(c) /\ ~Waiting(c) /\ ~(Served(c) /\ judge = "request")
      BY NotAwaited DEF JudgeInv, SendsRecord
<1>2. /\ Len(all) = Len(file[c]) + 2
      /\ \A k \in 1..Len(file[c]) + 2 : all[k] = Rec(c, k) /\ all[k] \in Items
      BY <1>1, SentIsRec
<1> HIDE DEF all
<1>3. /\ submitter[c] = "sending"
      /\ UNCHANGED <<judgeOnly, request, file, verdict, arrived, fromJudge, hung, inVain>>
      /\ \/ /\ next' = [next EXCEPT ![c] = @ + 1]
            /\ toJudge' = [toJudge EXCEPT ![c] = IF hung[c] THEN @ ELSE Append(@, all[next'[c]])]
            /\ submitter' = [submitter EXCEPT ![c] = IF next'[c] = Len(all) THEN "awaiting" ELSE @]
         \/ /\ submitter' = [submitter EXCEPT ![c] = "gone"] /\ UNCHANGED <<next, toJudge>>
      BY DEF SendsRecord, all
<1>4. CASE submitter' = [submitter EXCEPT ![c] = "gone"] /\ UNCHANGED <<next, toJudge>>
      BY <1>3, <1>4, LeavingKeeps DEF Live
<1>5. CASE /\ next' = [next EXCEPT ![c] = @ + 1]
           /\ toJudge' = [toJudge EXCEPT ![c] = IF hung[c] THEN @ ELSE Append(@, all[next'[c]])]
           /\ submitter' = [submitter EXCEPT ![c] = IF next'[c] = Len(all) THEN "awaiting" ELSE @]
  <2>1. /\ Queue' /\ (Receiving' <=> Receiving)
        /\ \A d : (Waiting(d)' <=> Waiting(d)) /\ (Served(d)' <=> Served(d))
        BY <1>3, PlacesKept
  <2>2. /\ next[c] \in Nat /\ next[c] < Len(file[c]) + 2 /\ Len(file[c]) \in Nat
        BY <1>1, <1>3, FileIsSource DEF Types, JudgeTypeOK, Own, Progress
  <2>3. next'[c] = next[c] + 1 BY <1>1, <1>5 DEF Types, JudgeTypeOK
  <2>4. all[next'[c]] = Rec(c, next[c] + 1) /\ all[next'[c]] \in Items BY <1>2, <2>2, <2>3
  <2>5. /\ toJudge'[c] = IF hung[c] THEN toJudge[c] ELSE Append(toJudge[c], Rec(c, next[c] + 1))
        /\ submitter'[c] = IF next'[c] = Len(file[c]) + 2 THEN "awaiting" ELSE "sending"
        BY <1>1, <1>2, <1>3, <1>5, <2>4 DEF Types, JudgeTypeOK
  <2>6. \A d \in Submitters \ {c} :
            UNCHANGED <<submitter[d], request[d], file[d], next[d], toJudge[d], fromJudge[d],
                        hung[d], verdict[d]>>
        BY <1>1, <1>3, <1>5 DEF Types, JudgeTypeOK
  <2>7. Types'
    <3>1. Append(toJudge[c], all[next'[c]]) \in Seq(Items) BY <1>1, <2>4 DEF Types
    <3>2. toJudge' \in [Submitters -> Seq(Items)] BY <1>1, <1>5, <3>1 DEF Types
    <3>3. next' \in [Submitters -> Nat] BY <1>1, <1>5, <2>2 DEF Types, JudgeTypeOK
    <3>4. submitter' \in [Submitters ->
                            {"home", "asking", "sending", "awaiting", "over", "gone"}]
          BY <1>1, <1>5 DEF Types, JudgeTypeOK
    <3> QED BY <1>1, <1>3, <3>2, <3>3, <3>4 DEF Types, JudgeTypeOK, judgeOnly
  <2>8. Own(c)'
    <3>1. AtHome(c)' BY <2>5 DEF AtHome
    <3>2. Asked(c)' BY <1>1, <1>3, <2>1 DEF Asked, judgeOnly
    <3>3. Submitted(c)'
      <4>1. ASSUME Served(c), Receiving
            PROVE  HasRead(c)' /\ request[c] = "program" /\ ~hung[c] /\ fromJudge[c] = <<>>
        <5>1. HasRead(c) /\ request[c] = "program" /\ ~hung[c] /\ fromJudge[c] = <<>>
              BY <1>1, <1>3, <4>1 DEF Own, Submitted
        <5>2. toJudge'[c] = Append(toJudge[c], Rec(c, next[c] + 1)) BY <2>5, <5>1
        <5>3. \A r \in Nat : Unread(c, r) => Unread(c, r)'
              BY <1>1, <1>3, <2>2, <2>3, <5>2, Sending
        <5>4. \A k : Rec(c, k)' = Rec(c, k) BY <1>3 DEF Rec
        <5>5. Live(c) /\ submitter[c] # "gone" BY <1>3 DEF Live
        <5>6. \A r \in Nat \ {0, 1} : KeepsBack(c, r) => KeepsBack(c, r)'
          <6>1. SUFFICES ASSUME NEW r \in Nat \ {0, 1}, KeepsBack(c, r)
                         PROVE  KeepsBack(c, r)'
                OBVIOUS
          <6>2. Unread(c, r)' BY <5>3, <6>1 DEF KeepsBack
          <6>4. /\ temp = Str[Rec(c, r)] /\ r <= Len(file[c]) + 1 /\ Len(programFile) = r - 2
                /\ \A k \in 1..r - 2 : programFile[k] = Str[file[c][k]]
                BY <5>5, <6>1 DEF KeepsBack
          <6> QED BY <1>3, <5>4, <6>2, <6>4 DEF KeepsBack, judgeOnly
        <5>7. \A v : Good(c, v) => Good(c, v)' BY <1>3 DEF Good
        <5>8. HasRead(c)'
              BY <1>3, <5>1, <5>3, <5>5, <5>6, <5>7 DEF HasRead, judgeOnly
        <5> QED BY <5>1, <5>8
      <4> QED BY <1>3, <2>1, <2>5, <4>1 DEF Submitted
    <3>4. Afterwards(c)'
      <4>1. \A m : Verdict(c, m) => Verdict(c, m)' BY <1>3 DEF Verdict, Good
      <4>2. ~Served(c) => \A k \in 1..Len(fromJudge[c]) : Verdict(c, fromJudge[c][k])
            BY <1>1, <1>3 DEF Own, Afterwards
      <4>3. fromJudge' = fromJudge /\ submitter'[c] # "asking" BY <1>3, <2>5
      <4>4. ~Served(c) => \A k \in 1..Len(fromJudge'[c]) : Verdict(c, fromJudge[c][k])'
            BY <1>3, <4>2, <4>3 DEF Verdict, Good
      <4> QED BY <2>1, <4>3, <4>4, Zenon DEF Afterwards
    <3>5. Progress(c)' BY <1>3, <2>2, <2>3, <2>5 DEF Progress
    <3> QED BY <3>1, <3>2, <3>3, <3>4, <3>5 DEF Own
  <2>9. \A k \in 1..Len(verdict'[c]) : Good(c, verdict[c][k])'
    <3>1. \A k \in 1..Len(verdict[c]) : Good(c, verdict[c][k]) BY JudgedIsGood DEF JudgeInv
    <3> QED BY <1>3, <3>1 DEF Good
  <2> QED BY <1>3, <2>1, <2>6, <2>7, <2>8, <2>9, ClientKeeps
<1> QED BY <1>3, <1>4, <1>5

-----------------------------------------------------------------------------
\* The invariant is inductive.
LEMMA JudgeInit_Inv == JudgeInit => JudgeInv
<1> SUFFICES ASSUME JudgeInit PROVE JudgeInv OBVIOUS
<1> USE DEF JudgeInit
<1>1. Types
  <2>1. /\ <<>> \in Seq(Items) /\ <<>> \in Seq(Messages) /\ <<>> \in Seq(Submitters)
        /\ <<>> \in Programs /\ <<>> \in Seq(Programs) /\ <<>> \in Files
        BY JudgeAssumption DEF Programs
  <2>2. "other" \in Requests /\ Str[Blank] \in Strings BY DEF Requests, Strings
  <2> QED BY <2>1, <2>2 DEF Types, JudgeTypeOK
<1>2. Len(arrived) = 0 /\ \A c \in Submitters : ~Waiting(c) /\ ~Served(c)
      BY DEF Waiting, Served, Receiving
<1>3. Queue BY <1>2 DEF Queue, Receiving
<1>4. ASSUME NEW c \in Submitters PROVE Own(c)
      BY <1>2 DEF Own, AtHome, Asked, Submitted, Afterwards, Progress
<1>5. JudgedAsSent
  <2>1. \A c \in Submitters : verdict[c] = <<>> OBVIOUS
  <2>2. 1..Len(<<>>) = {} OBVIOUS
  <2>3. \A c \in Submitters : 1..Len(verdict[c]) = {} BY <2>1, <2>2, Zenon
  <2> QED BY <2>3, JudgedIsGood
<1> QED BY <1>1, <1>3, <1>4, <1>5 DEF JudgeInv

LEMMA JudgeStutter == ASSUME JudgeInv, UNCHANGED judgeVars PROVE JudgeInv'
<1> USE DEF judgeVars, judgeOnly, submitterOnly
<1>1. Types' BY DEF JudgeInv, Types, JudgeTypeOK
<1>2. Queue' BY PlacesKept DEF judgeOnly
<1>3. \A d : (Waiting(d)' <=> Waiting(d)) /\ (Served(d)' <=> Served(d)) BY PlacesKept
<1>4. ASSUME NEW c \in Submitters PROVE Own(c)'
  <2>1. Own(c) BY DEF JudgeInv
  <2> QED BY <1>3, <2>1, OthersKept DEF Ended
<1>5. JudgedAsSent' BY DEF JudgeInv, JudgedAsSent
<1> QED BY <1>1, <1>2, <1>4, <1>5 DEF JudgeInv

LEMMA JudgeNext_Inv == JudgeInv /\ [JudgeNext]_judgeVars => JudgeInv'
<1> SUFFICES ASSUME JudgeInv, [JudgeNext]_judgeVars PROVE JudgeInv' OBVIOUS
<1>1. CASE JudgeServer
  <2>1. CASE Accepts BY <2>1, AcceptsKeeps
  <2>2. CASE ReadsRequest BY <2>2, ReadsRequestKeeps
  <2>3. CASE ReadsStart BY <2>3, ReadsStartKeeps
  <2>4. CASE ReadsFirst BY <2>4, ReadsFirstKeeps
  <2>5. CASE ReadsRecord BY <2>5, ReadsRecordKeeps
  <2>6. CASE Compiles BY <2>6, CompilesKeeps
  <2>7. CASE CompileFails BY <2>7, CompileFailsKeeps
  <2>8. CASE Runs BY <2>8, RunsKeeps
  <2> QED BY <1>1, <2>1, <2>2, <2>3, <2>4, <2>5, <2>6, <2>7, <2>8 DEF JudgeServer
<1>2. ASSUME NEW c \in Submitters, Submitter(c) PROVE JudgeInv'
  <2>1. CASE Submits(c) BY <2>1, SubmitsKeeps
  <2>2. CASE ReadsAnswer(c) BY <2>2, ReadsAnswerKeeps
  <2>3. CASE SendsRecord(c) BY <2>3, SendsRecordKeeps
  <2>4. CASE ReadsVerdict(c) BY <2>4, ReadsVerdictKeeps
  <2>5. CASE IsCutOff(c) \/ Vanishes(c) BY <2>5, LeavesKeeps
  <2> QED BY <1>2, <2>1, <2>2, <2>3, <2>4, <2>5 DEF Submitter
<1>3. CASE UNCHANGED judgeVars BY <1>3, JudgeStutter
<1> QED BY <1>1, <1>2, <1>3 DEF JudgeNext

\* What the server and its clients hold keeps its type (server.c and client.c
\* of 28-01-22-NITW-GDB).
THEOREM JudgeTypeCorrect == JudgeSpec => []JudgeTypeOK
<1>1. JudgeInv => JudgeTypeOK BY DEF JudgeInv, Types
<1> QED BY <1>1, JudgeInit_Inv, JudgeNext_Inv, PTL DEF JudgeSpec

\* A verdict is about the program its reader sent, or a beginning of it if a
\* record of it reads like a mark (recieveFile and main of server.c,
\* sendProgram of client.c), for any clients and any files.
THEOREM JudgedAsSentAlways == JudgeSpec => []JudgedAsSent
<1>1. JudgeInv => JudgedAsSent BY DEF JudgeInv
<1> QED BY <1>1, JudgeInit_Inv, JudgeNext_Inv, PTL DEF JudgeSpec

=============================================================================
