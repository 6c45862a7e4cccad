------------------------- MODULE SignalRingProofs --------------------------
(***************************************************************************)
(* Theorems about the rings of 14-01-22-signal-sem-shm (SignalRing.tla):    *)
(* signals/P1.c to P4.c and group-signaling/P1.c to P4.c.                   *)
(*                                                                         *)
(* Every call of the eight programs has a name.  The argument counts how    *)
(* often each process has made each of them: what one process has done      *)
(* bounds what its neighbours can have done, and a semaphore, a message or a*)
(* signal is the difference between two such counts.                        *)
(***************************************************************************)
EXTENDS SignalRingProperties, FiniteSetTheorems, SequenceTheorems, TLAPS

-----------------------------------------------------------------------------
(* The calls by name *)

\* Those of the loops end in the number of their semaphores, 1 forward and 2 back.
Calls ==
    {"unlink", "remove", "block", "open", "get", "introduce", "mask0", "take", "unmask0",
     "again", "learn", "meet", "wake", "close", "change", "open1", "say", "collect1",
     "collect2", "collect3", "again2", "tell2", "tell3", "tell4", "join", "mask1", "kill1",
     "post1", "wait1", "unmask1", "open2", "mask2", "kill2", "post2", "wait2", "unmask2"}

\* Where P1, P2, P3 and P4 of the ring make a call, counted from 1 in its part of the
\* program; 0 if they do not make it.
InRing ==
    [unlink |-> <<0, 1, 0, 0>>, remove |-> <<0, 2, 0, 0>>, block |-> <<0, 0, 0, 0>>,
     open |-> <<1, 3, 1, 1>>, get |-> <<2, 4, 2, 2>>, introduce |-> <<0, 5, 3, 3>>,
     mask0 |-> <<0, 0, 0, 0>>, take |-> <<6, 6, 4, 4>>, unmask0 |-> <<0, 0, 0, 0>>,
     again |-> <<0, 7, 5, 5>>, learn |-> <<3, 8, 6, 6>>, meet |-> <<4, 9, 7, 7>>,
     wake |-> <<5, 10, 8, 8>>, close |-> <<0, 11, 0, 0>>, change |-> <<7, 12, 9, 9>>,
     open1 |-> <<8, 13, 10, 10>>, say |-> <<0, 0, 0, 0>>, collect1 |-> <<0, 0, 0, 0>>,
     collect2 |-> <<0, 0, 0, 0>>, collect3 |-> <<0, 0, 0, 0>>, again2 |-> <<0, 0, 0, 0>>,
     tell2 |-> <<0, 0, 0, 0>>, tell3 |-> <<0, 0, 0, 0>>, tell4 |-> <<0, 0, 0, 0>>,
     join |-> <<0, 0, 0, 0>>, mask1 |-> <<1, 1, 1, 1>>, kill1 |-> <<2, 3, 3, 3>>,
     post1 |-> <<3, 5, 5, 5>>, wait1 |-> <<4, 2, 2, 2>>, unmask1 |-> <<5, 4, 4, 4>>,
     open2 |-> <<1, 1, 1, 1>>, mask2 |-> <<1, 1, 1, 1>>, kill2 |-> <<2, 4, 3, 3>>,
     post2 |-> <<3, 5, 5, 5>>, wait2 |-> <<4, 2, 2, 2>>, unmask2 |-> <<5, 3, 4, 4>>]

\* The same in the group.
InGroup ==
    [unlink |-> <<0, 1, 0, 0>>, remove |-> <<0, 2, 0, 0>>, block |-> <<1, 3, 1, 1>>,
     open |-> <<2, 4, 2, 2>>, get |-> <<3, 5, 3, 3>>, introduce |-> <<0, 6, 4, 4>>,
     mask0 |-> <<7, 7, 5, 5>>, take |-> <<8, 8, 6, 6>>, unmask0 |-> <<9, 9, 7, 7>>,
     again |-> <<10, 10, 9, 9>>, learn |-> <<4, 11, 10, 10>>, meet |-> <<5, 12, 11, 11>>,
     wake |-> <<6, 13, 12, 12>>, close |-> <<0, 14, 0, 0>>, change |-> <<0, 0, 0, 0>>,
     open1 |-> <<0, 0, 0, 0>>, say |-> <<0, 15, 8, 8>>, collect1 |-> <<11, 0, 0, 0>>,
     collect2 |-> <<12, 0, 0, 0>>, collect3 |-> <<13, 0, 0, 0>>, again2 |-> <<14, 0, 0, 0>>,
     tell2 |-> <<15, 0, 0, 0>>, tell3 |-> <<16, 0, 0, 0>>, tell4 |-> <<17, 0, 0, 0>>,
     join |-> <<0, 16, 13, 13>>, mask1 |-> <<0, 0, 0, 0>>, kill1 |-> <<0, 0, 0, 0>>,
     post1 |-> <<0, 0, 0, 0>>, wait1 |-> <<0, 0, 0, 0>>, unmask1 |-> <<0, 0, 0, 0>>,
     open2 |-> <<0, 0, 0, 0>>, mask2 |-> <<0, 0, 0, 0>>, kill2 |-> <<0, 0, 0, 0>>,
     post2 |-> <<0, 0, 0, 0>>, wait2 |-> <<0, 0, 0, 0>>, unmask2 |-> <<0, 0, 0, 0>>]

Index(p, c) == IF grouped THEN InGroup[c][p] ELSE InRing[c][p]

Part(c) ==
    CASE c \in {"mask1", "kill1", "post1", "wait1", "unmask1"} -> "forward"
      [] c = "open2" -> "turn"
      [] c \in {"mask2", "kill2", "post2", "wait2", "unmask2"} -> "back"
      [] OTHER -> "meet"

Neighbours(p) == {getPreviousProcess(p), p, getNextProcess(p)}

Open(p, j) == [op |-> "open", sems |-> Neighbours(p) \X {j}]

\* What p calls under a name.
Meaning(p, c) ==
    CASE c = "unlink" -> [op |-> "unlink", sems |-> Names]
      [] c = "remove" -> Call("remove")
      [] c = "open" -> Open(p, 0)
      [] c = "open1" -> Open(p, 1)
      [] c = "open2" -> Open(p, 2)
      [] c \in {"get", "again", "again2"} -> Call("msgget")
      [] c \in {"mask0", "mask1"} -> Mask("USR1")
      [] c \in {"block", "mask2"} -> Mask("USR2")
      [] c \in {"unmask0", "unmask1"} -> Unmask("USR1")
      [] c = "unmask2" -> Unmask("USR2")
      [] c = "introduce" -> Send(p, "own")
      [] c = "close" -> Send(1, "left")
      [] c = "say" -> Send(18, "own")
      [] c = "tell2" -> Send(2, "own")
      [] c = "tell3" -> Send(3, "own")
      [] c = "tell4" -> Send(4, "own")
      [] c = "learn" -> Receive(getNextProcess(p), "right")
      [] c \in {"collect1", "collect2", "collect3"} -> Receive(18, "all")
      [] c = "join" -> Receive(p, "group")
      [] c \in {"meet", "kill1"} -> Kill("right", "USR1")
      [] c = "kill2" -> Kill("left", "USR2")
      [] c = "take" -> Wait(p, 0)
      [] c = "wait1" -> Wait(getPreviousProcess(p), 1)
      [] c = "wait2" -> Wait(getNextProcess(p), 2)
      [] c = "wake" -> Post(getNextProcess(p), 0)
      [] c = "post1" -> Post(p, 1)
      [] c = "post2" -> Post(p, 2)
      [] c = "change" -> Call("change")

\* Every call of a part has a name.
AllNamed(p, part) ==
    \A k \in 1..Len(Program[p][part]) :
        \E c \in Calls : /\ Program[p][part][k] = Meaning(p, c)
                       /\ Part(c) = part /\ Index(p, c) = k

LEMMA Around ==
  /\ getNextProcess(1) = 2 /\ getPreviousProcess(1) = 4
  /\ getNextProcess(2) = 3 /\ getPreviousProcess(2) = 1
  /\ getNextProcess(3) = 4 /\ getPreviousProcess(3) = 2
  /\ getNextProcess(4) = 1 /\ getPreviousProcess(4) = 3
  BY DEF getNextProcess, getPreviousProcess

LEMMA Meet1 ==
  ASSUME ~grouped
  PROVE  /\ Len(Program[1]["meet"]) = 8
         /\ AllNamed(1, "meet")
  <1> DEFINE n == <<"open", "get", "learn", "meet", "wake", "take", "change", "open1">>
  <1>1. Program[1]["meet"] =
          <<Meaning(1, n[1])>> \o
          <<Meaning(1, n[2]), Meaning(1, n[3]), Meaning(1, n[4]), Meaning(1, n[5])>> \o
          <<Meaning(1, n[6]), Meaning(1, n[7])>> \o <<Meaning(1, n[8])>>
    BY Around DEF Program, P1, InitSems, GetRight, Neighbours, Meaning, Call, Kill, Open, Post, Receive, Wait
  <1>2. \A k \in 1..8 : n[k] \in Calls /\ Part(n[k]) = "meet" /\ Index(1, n[k]) = k
    BY DEF Calls, Part, Index, InRing
  <1> HIDE DEF n
  <1>3. Len(Program[1]["meet"]) = 8 /\ \A k \in 1..8 : Program[1]["meet"][k] = Meaning(1, n[k])
    BY <1>1
  <1>. QED
    BY <1>2, <1>3 DEF AllNamed

LEMMA Meet2 ==
  ASSUME ~grouped
  PROVE  /\ Len(Program[2]["meet"]) = 13
         /\ AllNamed(2, "meet")
  <1> DEFINE n == <<"unlink", "remove", "open", "get", "introduce", "take", "again",
                    "learn", "meet", "wake", "close", "change", "open1">>
  <1>1. Program[2]["meet"] =
          <<Meaning(2, n[1]), Meaning(2, n[2])>> \o <<Meaning(2, n[3])>> \o
          <<Meaning(2, n[4]), Meaning(2, n[5]), Meaning(2, n[6])>> \o
          <<Meaning(2, n[7]), Meaning(2, n[8]), Meaning(2, n[9]), Meaning(2, n[10])>> \o
          <<Meaning(2, n[11]), Meaning(2, n[12])>> \o <<Meaning(2, n[13])>>
    BY Around DEF Program, P2, CleanUp, InitSems, GetRight, Neighbours, Meaning, Call, Kill, Open, Post, Receive, Send, Wait
  <1>2. \A k \in 1..13 : n[k] \in Calls /\ Part(n[k]) = "meet" /\ Index(2, n[k]) = k
    BY DEF Calls, Part, Index, InRing
  <1> HIDE DEF n
  <1>3. Len(Program[2]["meet"]) = 13 /\ \A k \in 1..13 : Program[2]["meet"][k] = Meaning(2, n[k])
    BY <1>1
  <1>. QED
    BY <1>2, <1>3 DEF AllNamed

LEMMA Meet3 ==
  ASSUME ~grouped
  PROVE  /\ Len(Program[3]["meet"]) = 10
         /\ AllNamed(3, "meet")
  <1> DEFINE n == <<"open", "get", "introduce", "take", "again", "learn", "meet", "wake",
                    "change", "open1">>
  <1>1. Program[3]["meet"] =
          <<Meaning(3, n[1])>> \o <<Meaning(3, n[2]), Meaning(3, n[3]), Meaning(3, n[4])>> \o
          <<Meaning(3, n[5]), Meaning(3, n[6]), Meaning(3, n[7]), Meaning(3, n[8])>> \o
          <<Meaning(3, n[9])>> \o <<Meaning(3, n[10])>>
    BY Around DEF Program, P3, Follower, InitSems, GetRight, Neighbours, Meaning, Call, Kill, Open, Post, Receive, Send, Wait
  <1>2. \A k \in 1..10 : n[k] \in Calls /\ Part(n[k]) = "meet" /\ Index(3, n[k]) = k
    BY DEF Calls, Part, Index, InRing
  <1> HIDE DEF n
  <1>3. Len(Program[3]["meet"]) = 10 /\ \A k \in 1..10 : Program[3]["meet"][k] = Meaning(3, n[k])
    BY <1>1
  <1>. QED
    BY <1>2, <1>3 DEF AllNamed

LEMMA Meet4 ==
  ASSUME ~grouped
  PROVE  /\ Len(Program[4]["meet"]) = 10
         /\ AllNamed(4, "meet")
  <1> DEFINE n == <<"open", "get", "introduce", "take", "again", "learn", "meet", "wake",
                    "change", "open1">>
  <1>1. Program[4]["meet"] =
          <<Meaning(4, n[1])>> \o <<Meaning(4, n[2]), Meaning(4, n[3]), Meaning(4, n[4])>> \o
          <<Meaning(4, n[5]), Meaning(4, n[6]), Meaning(4, n[7]), Meaning(4, n[8])>> \o
          <<Meaning(4, n[9])>> \o <<Meaning(4, n[10])>>
    BY Around DEF Program, P4, Follower, InitSems, GetRight, Neighbours, Meaning, Call, Kill, Open, Post, Receive, Send, Wait
  <1>2. \A k \in 1..10 : n[k] \in Calls /\ Part(n[k]) = "meet" /\ Index(4, n[k]) = k
    BY DEF Calls, Part, Index, InRing
  <1> HIDE DEF n
  <1>3. Len(Program[4]["meet"]) = 10 /\ \A k \in 1..10 : Program[4]["meet"][k] = Meaning(4, n[k])
    BY <1>1
  <1>. QED
    BY <1>2, <1>3 DEF AllNamed

LEMMA Forward1 ==
  ASSUME ~grouped
  PROVE  /\ Len(Program[1]["forward"]) = 5
         /\ AllNamed(1, "forward")
  <1> DEFINE n == <<"mask1", "kill1", "post1", "wait1", "unmask1">>
  <1>1. Program[1]["forward"] =
          <<Meaning(1, n[1]), Meaning(1, n[2]), Meaning(1, n[3]), Meaning(1, n[4]), Meaning(1, n[5])>>
    BY Around DEF Program, P1, InitSems, Neighbours, Meaning, Kill, Mask, Post, Unmask, Wait
  <1>2. \A k \in 1..5 : n[k] \in Calls /\ Part(n[k]) = "forward" /\ Index(1, n[k]) = k
    BY DEF Calls, Part, Index, InRing
  <1> HIDE DEF n
  <1>3. Len(Program[1]["forward"]) = 5 /\ \A k \in 1..5 : Program[1]["forward"][k] = Meaning(1, n[k])
    BY <1>1
  <1>. QED
    BY <1>2, <1>3 DEF AllNamed

LEMMA Back1 ==
  ASSUME ~grouped
  PROVE  /\ Len(Program[1]["back"]) = 5
         /\ AllNamed(1, "back")
  <1> DEFINE n == <<"mask2", "kill2", "post2", "wait2", "unmask2">>
  <1>1. Program[1]["back"] =
          <<Meaning(1, n[1]), Meaning(1, n[2]), Meaning(1, n[3]), Meaning(1, n[4]), Meaning(1, n[5])>>
    BY Around DEF Program, P1, InitSems, Neighbours, Meaning, Kill, Mask, Post, Unmask, Wait
  <1>2. \A k \in 1..5 : n[k] \in Calls /\ Part(n[k]) = "back" /\ Index(1, n[k]) = k
    BY DEF Calls, Part, Index, InRing
  <1> HIDE DEF n
  <1>3. Len(Program[1]["back"]) = 5 /\ \A k \in 1..5 : Program[1]["back"][k] = Meaning(1, n[k])
    BY <1>1
  <1>. QED
    BY <1>2, <1>3 DEF AllNamed

LEMMA Forward2 ==
  ASSUME ~grouped
  PROVE  /\ Len(Program[2]["forward"]) = 5
         /\ AllNamed(2, "forward")
  <1> DEFINE n == <<"mask1", "wait1", "kill1", "unmask1", "post1">>
  <1>1. Program[2]["forward"] =
          <<Meaning(2, n[1]), Meaning(2, n[2]), Meaning(2, n[3]), Meaning(2, n[4]), Meaning(2, n[5])>>
    BY Around DEF Program, P2, CleanUp, InitSems, Neighbours, Meaning, Kill, Mask, Post, Unmask, Wait
  <1>2. \A k \in 1..5 : n[k] \in Calls /\ Part(n[k]) = "forward" /\ Index(2, n[k]) = k
    BY DEF Calls, Part, Index, InRing
  <1> HIDE DEF n
  <1>3. Len(Program[2]["forward"]) = 5 /\ \A k \in 1..5 : Program[2]["forward"][k] = Meaning(2, n[k])
    BY <1>1
  <1>. QED
    BY <1>2, <1>3 DEF AllNamed

LEMMA Back2 ==
  ASSUME ~grouped
  PROVE  /\ Len(Program[2]["back"]) = 5
         /\ AllNamed(2, "back")
  <1> DEFINE n == <<"mask2", "wait2", "unmask2", "kill2", "post2">>
  <1>1. Program[2]["back"] =
          <<Meaning(2, n[1]), Meaning(2, n[2]), Meaning(2, n[3]), Meaning(2, n[4]), Meaning(2, n[5])>>
    BY Around DEF Program, P2, CleanUp, InitSems, Neighbours, Meaning, Kill, Mask, Post, Unmask, Wait
  <1>2. \A k \in 1..5 : n[k] \in Calls /\ Part(n[k]) = "back" /\ Index(2, n[k]) = k
    BY DEF Calls, Part, Index, InRing
  <1> HIDE DEF n
  <1>3. Len(Program[2]["back"]) = 5 /\ \A k \in 1..5 : Program[2]["back"][k] = Meaning(2, n[k])
    BY <1>1
  <1>. QED
    BY <1>2, <1>3 DEF AllNamed

LEMMA Forward3 ==
  ASSUME ~grouped
  PROVE  /\ Len(Program[3]["forward"]) = 5
         /\ AllNamed(3, "forward")
  <1> DEFINE n == <<"mask1", "wait1", "kill1", "unmask1", "post1">>
  <1>1. Program[3]["forward"] =
          <<Meaning(3, n[1]), Meaning(3, n[2]), Meaning(3, n[3]), Meaning(3, n[4]), Meaning(3, n[5])>>
    BY Around DEF Program, P3, Follower, InitSems, Neighbours, Meaning, Kill, Mask, Post, Unmask, Wait
  <1>2. \A k \in 1..5 : n[k] \in Calls /\ Part(n[k]) = "forward" /\ Index(3, n[k]) = k
    BY DEF Calls, Part, Index, InRing
  <1> HIDE DEF n
  <1>3. Len(Program[3]["forward"]) = 5 /\ \A k \in 1..5 : Program[3]["forward"][k] = Meaning(3, n[k])
    BY <1>1
  <1>. QED
    BY <1>2, <1>3 DEF AllNamed

LEMMA Back3 ==
  ASSUME ~grouped
  PROVE  /\ Len(Program[3]["back"]) = 5
         /\ AllNamed(3, "back")
  <1> DEFINE n == <<"mask2", "wait2", "kill2", "unmask2", "post2">>
  <1>1. Program[3]["back"] =
          <<Meaning(3, n[1]), Meaning(3, n[2]), Meaning(3, n[3]), Meaning(3, n[4]), Meaning(3, n[5])>>
    BY Around DEF Program, P3, Follower, InitSems, Neighbours, Meaning, Kill, Mask, Post, Unmask, Wait
  <1>2. \A k \in 1..5 : n[k] \in Calls /\ Part(n[k]) = "back" /\ Index(3, n[k]) = k
    BY DEF Calls, Part, Index, InRing
  <1> HIDE DEF n
  <1>3. Len(Program[3]["back"]) = 5 /\ \A k \in 1..5 : Program[3]["back"][k] = Meaning(3, n[k])
    BY <1>1
  <1>. QED
    BY <1>2, <1>3 DEF AllNamed

LEMMA Forward4 ==
  ASSUME ~grouped
  PROVE  /\ Len(Program[4]["forward"]) = 5
         /\ AllNamed(4, "forward")
  <1> DEFINE n == <<"mask1", "wait1", "kill1", "unmask1", "post1">>
  <1>1. Program[4]["forward"] =
          <<Meaning(4, n[1]), Meaning(4, n[2]), Meaning(4, n[3]), Meaning(4, n[4]), Meaning(4, n[5])>>
    BY Around DEF Program, P4, Follower, InitSems, Neighbours, Meaning, Kill, Mask, Post, Unmask, Wait
  <1>2. \A k \in 1..5 : n[k] \in Calls /\ Part(n[k]) = "forward" /\ Index(4, n[k]) = k
    BY DEF Calls, Part, Index, InRing
  <1> HIDE DEF n
  <1>3. Len(Program[4]["forward"]) = 5 /\ \A k \in 1..5 : Program[4]["forward"][k] = Meaning(4, n[k])
    BY <1>1
  <1>. QED
    BY <1>2, <1>3 DEF AllNamed

LEMMA Back4 ==
  ASSUME ~grouped
  PROVE  /\ Len(Program[4]["back"]) = 5
         /\ AllNamed(4, "back")
  <1> DEFINE n == <<"mask2", "wait2", "kill2", "unmask2", "post2">>
  <1>1. Program[4]["back"] =
          <<Meaning(4, n[1]), Meaning(4, n[2]), Meaning(4, n[3]), Meaning(4, n[4]), Meaning(4, n[5])>>
    BY Around DEF Program, P4, Follower, InitSems, Neighbours, Meaning, Kill, Mask, Post, Unmask, Wait
  <1>2. \A k \in 1..5 : n[k] \in Calls /\ Part(n[k]) = "back" /\ Index(4, n[k]) = k
    BY DEF Calls, Part, Index, InRing
  <1> HIDE DEF n
  <1>3. Len(Program[4]["back"]) = 5 /\ \A k \in 1..5 : Program[4]["back"][k] = Meaning(4, n[k])
    BY <1>1
  <1>. QED
    BY <1>2, <1>3 DEF AllNamed

LEMMA Group1 ==
  ASSUME grouped
  PROVE  /\ Len(Program[1]["meet"]) = 17
         /\ AllNamed(1, "meet")
  <1> DEFINE n == <<"block", "open", "get", "learn", "meet", "wake", "mask0", "take",
                    "unmask0", "again", "collect1", "collect2", "collect3", "again2",
                    "tell2", "tell3", "tell4">>
  <1>1. Program[1]["meet"] =
          <<Meaning(1, n[1])>> \o <<Meaning(1, n[2])>> \o
          <<Meaning(1, n[3]), Meaning(1, n[4]), Meaning(1, n[5]), Meaning(1, n[6])>> \o
          <<Meaning(1, n[7]), Meaning(1, n[8]), Meaning(1, n[9])>> \o
          <<Meaning(1, n[10]), Meaning(1, n[11]), Meaning(1, n[12]), Meaning(1, n[13])>> \o
          <<Meaning(1, n[14]), Meaning(1, n[15]), Meaning(1, n[16]), Meaning(1, n[17])>>
    BY Around DEF Program, G1, MakeGroup, SendGroupID, GetLeft, InitSems, GetRight, Neighbours, Meaning, Call, Kill, Mask, Open, Post, Receive, Send, Unmask, Wait
  <1>2. \A k \in 1..17 : n[k] \in Calls /\ Part(n[k]) = "meet" /\ Index(1, n[k]) = k
    BY DEF Calls, Part, Index, InGroup
  <1> HIDE DEF n
  <1>3. Len(Program[1]["meet"]) = 17 /\ \A k \in 1..17 : Program[1]["meet"][k] = Meaning(1, n[k])
    BY <1>1
  <1>. QED
    BY <1>2, <1>3 DEF AllNamed

LEMMA Group2 ==
  ASSUME grouped
  PROVE  /\ Len(Program[2]["meet"]) = 16
         /\ AllNamed(2, "meet")
  <1> DEFINE n == <<"unlink", "remove", "block", "open", "get", "introduce", "mask0",
                    "take", "unmask0", "again", "learn", "meet", "wake", "close", "say",
                    "join">>
  <1>1. Program[2]["meet"] =
          <<Meaning(2, n[1]), Meaning(2, n[2])>> \o <<Meaning(2, n[3])>> \o <<Meaning(2, n[4])>> \o
          <<Meaning(2, n[5]), Meaning(2, n[6])>> \o
          <<Meaning(2, n[7]), Meaning(2, n[8]), Meaning(2, n[9])>> \o
          <<Meaning(2, n[10]), Meaning(2, n[11]), Meaning(2, n[12]), Meaning(2, n[13])>> \o
          <<Meaning(2, n[14]), Meaning(2, n[15]), Meaning(2, n[16])>>
    BY Around DEF Program, G2, CleanUp, GetLeft, InitSems, GetRight, Neighbours, Meaning, Call, Kill, Mask, Open, Post, Receive, Send, Unmask, Wait
  <1>2. \A k \in 1..16 : n[k] \in Calls /\ Part(n[k]) = "meet" /\ Index(2, n[k]) = k
    BY DEF Calls, Part, Index, InGroup
  <1> HIDE DEF n
  <1>3. Len(Program[2]["meet"]) = 16 /\ \A k \in 1..16 : Program[2]["meet"][k] = Meaning(2, n[k])
    BY <1>1
  <1>. QED
    BY <1>2, <1>3 DEF AllNamed

LEMMA Group3 ==
  ASSUME grouped
  PROVE  /\ Len(Program[3]["meet"]) = 13
         /\ AllNamed(3, "meet")
  <1> DEFINE n == <<"block", "open", "get", "introduce", "mask0", "take", "unmask0", "say",
                    "again", "learn", "meet", "wake", "join">>
  <1>1. Program[3]["meet"] =
          <<Meaning(3, n[1])>> \o <<Meaning(3, n[2])>> \o <<Meaning(3, n[3]), Meaning(3, n[4])>> \o
          <<Meaning(3, n[5]), Meaning(3, n[6]), Meaning(3, n[7])>> \o <<Meaning(3, n[8])>> \o
          <<Meaning(3, n[9]), Meaning(3, n[10]), Meaning(3, n[11]), Meaning(3, n[12])>> \o
          <<Meaning(3, n[13])>>
    BY Around DEF Program, G3, Member, GetLeft, InitSems, GetRight, Neighbours, Meaning, Call, Kill, Mask, Open, Post, Receive, Send, Unmask, Wait
  <1>2. \A k \in 1..13 : n[k] \in Calls /\ Part(n[k]) = "meet" /\ Index(3, n[k]) = k
    BY DEF Calls, Part, Index, InGroup
  <1> HIDE DEF n
  <1>3. Len(Program[3]["meet"]) = 13 /\ \A k \in 1..13 : Program[3]["meet"][k] = Meaning(3, n[k])
    BY <1>1
  <1>. QED
    BY <1>2, <1>3 DEF AllNamed

LEMMA Group4 ==
  ASSUME grouped
  PROVE  /\ Len(Program[4]["meet"]) = 13
         /\ AllNamed(4, "meet")
  <1> DEFINE n == <<"block", "open", "get", "introduce", "mask0", "take", "unmask0", "say",
                    "again", "learn", "meet", "wake", "join">>
  <1>1. Program[4]["meet"] =
          <<Meaning(4, n[1])>> \o <<Meaning(4, n[2])>> \o <<Meaning(4, n[3]), Meaning(4, n[4])>> \o
          <<Meaning(4, n[5]), Meaning(4, n[6]), Meaning(4, n[7])>> \o <<Meaning(4, n[8])>> \o
          <<Meaning(4, n[9]), Meaning(4, n[10]), Meaning(4, n[11]), Meaning(4, n[12])>> \o
          <<Meaning(4, n[13])>>
    BY Around DEF Program, G4, Member, GetLeft, InitSems, GetRight, Neighbours, Meaning, Call, Kill, Mask, Open, Post, Receive, Send, Unmask, Wait
  <1>2. \A k \in 1..13 : n[k] \in Calls /\ Part(n[k]) = "meet" /\ Index(4, n[k]) = k
    BY DEF Calls, Part, Index, InGroup
  <1> HIDE DEF n
  <1>3. Len(Program[4]["meet"]) = 13 /\ \A k \in 1..13 : Program[4]["meet"][k] = Meaning(4, n[k])
    BY <1>1
  <1>. QED
    BY <1>2, <1>3 DEF AllNamed

LEMMA Turning ==
  ASSUME ~grouped, NEW p \in Procs
  PROVE  Len(Program[p]["turn"]) = 1 /\ AllNamed(p, "turn")
  <1>1. p \in {1, 2, 3, 4}
    BY DEF Procs
  <1>2. Program[p]["turn"] = <<Open(p, 2)>>
    <2>1. InitSems(p, 2) = <<Open(p, 2)>>
      BY DEF InitSems, Neighbours, Open
    <2>2. /\ P1["turn"] = InitSems(1, 2) /\ P2["turn"] = InitSems(2, 2)
          /\ P3["turn"] = InitSems(3, 2) /\ P4["turn"] = InitSems(4, 2)
      BY DEF P1, P2, P3, P4, Follower
    <2>. QED
      BY <1>1, <2>1, <2>2 DEF Program
  <1>3. "open2" \in Calls /\ Part("open2") = "turn" /\ Index(p, "open2") = 1
        /\ Meaning(p, "open2") = Open(p, 2)
    BY <1>1 DEF Calls, Part, Index, InRing, Meaning
  <1>. QED
    BY <1>2, <1>3 DEF AllNamed

\* The place of a process: at its call c.
AtCall(p, c) == phase[p] = Part(c) /\ at[p] = Index(p, c)

InPlace ==
    \A p \in Procs :
        /\ phase[p] \in {"off", "meet", "turn", "done"} => i[p] = 0
        /\ phase[p] = "off" => at[p] = 1
        /\ grouped => phase[p] \in {"off", "meet", "done"}

\* A process that runs is at one of its calls.
LEMMA Named ==
  ASSUME TypeOK, InPlace, NEW p \in Procs, Running(p)
  PROVE  \E c \in Calls : AtCall(p, c) /\ Now(p) = Meaning(p, c)
  <1>1. p \in {1, 2, 3, 4}
    BY DEF Procs
  <1>2. at[p] \in 1..Len(Program[p][phase[p]])
    BY DEF TypeOK
  <1>3. phase[p] \in {"meet", "forward", "turn", "back"} /\ (grouped => phase[p] = "meet")
    BY DEF InPlace, Running
  <1>4. AllNamed(p, phase[p])
    <2>1. CASE grouped
      BY <1>1, <1>3, <2>1, Group1, Group2, Group3, Group4
    <2>2. CASE ~grouped
      BY <1>1, <1>3, <2>2, Meet1, Meet2, Meet3, Meet4, Forward1, Forward2, Forward3, Forward4,
         Turning, Back1, Back2, Back3, Back4
    <2>. QED
      BY <2>1, <2>2
  <1>. QED
    BY <1>2, <1>4 DEF AllNamed, AtCall, Now

\* At only one.
LEMMA OneCall ==
  ASSUME NEW p \in Procs, NEW c \in Calls, NEW d \in Calls, AtCall(p, c), AtCall(p, d),
         at[p] \in Nat \ {0}
  PROVE  c = d
  <1>1. p \in {1, 2, 3, 4}
    BY DEF Procs
  <1>2. CASE grouped
    BY <1>1, <1>2 DEF AtCall, Calls, Part, Index, InGroup
  <1>3. CASE ~grouped
    BY <1>1, <1>3 DEF AtCall, Calls, Part, Index, InRing
  <1>. QED
    BY <1>2, <1>3

-----------------------------------------------------------------------------
(* How often a call was made *)

Later == [meet |-> {"forward", "turn", "back", "done"}, forward |-> {"turn", "back", "done"},
          turn |-> {"back", "done"}, back |-> {"done"}]

Times(part) == IF part \in {"forward", "back"} THEN Rounds ELSE 1

\* Once for each turn that is over, and once more when p is past it in this one.
Done(p, c) ==
    IF Index(p, c) = 0 THEN 0
    ELSE IF phase[p] = Part(c) THEN IF at[p] > Index(p, c) THEN i[p] + 1 ELSE i[p]
    ELSE IF phase[p] \in Later[Part(c)] THEN Times(Part(c)) ELSE 0

LEMMA Loops ==
  ASSUME ~grouped, NEW p \in Procs
  PROVE  /\ Len(Program[p]["forward"]) = 5 /\ Len(Program[p]["turn"]) = 1
         /\ Len(Program[p]["back"]) = 5
  <1>1. p \in {1, 2, 3, 4}
    BY DEF Procs
  <1>2. Len(Program[p]["forward"]) = 5
    BY <1>1, Forward1, Forward2, Forward3, Forward4
  <1>3. Len(Program[p]["back"]) = 5
    BY <1>1, Back1, Back2, Back3, Back4
  <1>. QED
    BY <1>2, <1>3, Turning

LEMMA Indexed ==
  ASSUME NEW p \in Procs, NEW c \in Calls
  PROVE  /\ Index(p, c) \in Nat
         /\ Part(c) \in {"meet", "forward", "turn", "back"}
         /\ Index(p, c) # 0 => /\ Index(p, c) <= Len(Program[p][Part(c)])
                               /\ grouped => Part(c) = "meet"
  <1>1. p \in {1, 2, 3, 4}
    BY DEF Procs
  <1>2. Part(c) \in {"meet", "forward", "turn", "back"}
    BY DEF Part
  <1>3. CASE grouped
    <2>1. /\ Index(p, c) \in Nat
          /\ Index(p, c) # 0 => /\ Part(c) = "meet"
                                /\ Index(p, c) <= <<17, 16, 13, 13>>[p]
      BY <1>1, <1>3 DEF Calls, Part, Index, InGroup
    <2>2. Len(Program[p]["meet"]) = <<17, 16, 13, 13>>[p]
      <3>1. CASE p = 1
        BY <3>1, <1>3, Group1
      <3>2. CASE p = 2
        BY <3>2, <1>3, Group2
      <3>3. CASE p = 3
        BY <3>3, <1>3, Group3
      <3>4. CASE p = 4
        BY <3>4, <1>3, Group4
      <3>. QED
        BY <1>1, <3>1, <3>2, <3>3, <3>4
    <2>. QED
      BY <1>2, <2>1, <2>2
  <1>4. CASE ~grouped
    <2>1. /\ Index(p, c) \in Nat
          /\ Part(c) = "meet" => Index(p, c) <= <<8, 13, 10, 10>>[p]
          /\ Part(c) \in {"forward", "back"} => Index(p, c) <= 5
          /\ Part(c) = "turn" => Index(p, c) <= 1
      BY <1>1, <1>4 DEF Calls, Part, Index, InRing
    <2>2. Len(Program[p]["meet"]) = <<8, 13, 10, 10>>[p]
      <3>1. CASE p = 1
        BY <3>1, <1>4, Meet1
      <3>2. CASE p = 2
        BY <3>2, <1>4, Meet2
      <3>3. CASE p = 3
        BY <3>3, <1>4, Meet3
      <3>4. CASE p = 4
        BY <3>4, <1>4, Meet4
      <3>. QED
        BY <1>1, <3>1, <3>2, <3>3, <3>4
    <2>. QED
      BY <1>2, <1>4, <2>1, <2>2, Loops
  <1>. QED
    BY <1>3, <1>4

LEMMA DoneType ==
  ASSUME TypeOK, InPlace, NEW p \in Procs, NEW c \in Calls
  PROVE  Done(p, c) \in Nat /\ Done(p, c) <= Times(Part(c)) /\ (Index(p, c) = 0 => Done(p, c) = 0)
  <1>1. i[p] \in Nat /\ i[p] < Rounds /\ Rounds \in Nat /\ Rounds >= 1
    BY RingAssumption DEF TypeOK
  <1>2. phase[p] \in {"meet", "turn"} => i[p] = 0
    BY DEF InPlace
  <1>. QED
    BY <1>1, <1>2, Indexed DEF Done, Times

\* A step of p's program makes the call p is at, and no other.
LEMMA DoneStep ==
  ASSUME TypeOK, InPlace, NEW p \in Procs, Running(p), Advance(p), UNCHANGED programs
  PROVE  /\ InPlace'
         /\ \A q \in Procs, c \in Calls :
               Done(q, c)' = IF q = p /\ AtCall(p, c) THEN Done(q, c) + 1 ELSE Done(q, c)
  <1> DEFINE last == at[p] = Len(Program[p][phase[p]])
             again == phase[p] \in {"forward", "back"} /\ i[p] + 1 < Rounds
  <1>1. /\ i[p] \in Nat /\ i[p] < Rounds /\ Rounds \in Nat /\ Rounds >= 1
        /\ at[p] \in Nat /\ at[p] >= 1 /\ at[p] <= Len(Program[p][phase[p]])
    BY RingAssumption DEF TypeOK
  <1>2. /\ phase \in [Procs -> {"off", "meet", "forward", "turn", "back", "done"}]
        /\ at \in [Procs -> Nat \ {0}] /\ i \in [Procs -> 0..Rounds - 1]
    BY DEF TypeOK
  <1>3. phase[p] \in {"meet", "forward", "turn", "back"} /\ (grouped => phase[p] = "meet")
        /\ (phase[p] \in {"meet", "turn"} => i[p] = 0)
    BY DEF Running, InPlace
  <1>4. grouped' <=> grouped
    BY DEF grouped
  <1>5. \A q \in Procs, c \in Calls : Index(q, c)' = Index(q, c)
    BY <1>4 DEF Index
  <1>6. \/ ~last /\ at' = [at EXCEPT ![p] = @ + 1] /\ phase' = phase /\ i' = i
        \/ /\ last /\ again
           /\ at' = [at EXCEPT ![p] = 1] /\ i' = [i EXCEPT ![p] = @ + 1] /\ phase' = phase
        \/ /\ last /\ ~again
           /\ at' = [at EXCEPT ![p] = 1] /\ i' = [i EXCEPT ![p] = 0]
           /\ phase' = [phase EXCEPT ![p] = After[@]]
    BY DEF Advance
  <1>7. InPlace'
    BY <1>2, <1>3, <1>4, <1>6 DEF InPlace, After
  <1>8. ASSUME NEW q \in Procs, NEW c \in Calls
        PROVE  Done(q, c)' = IF q = p /\ AtCall(p, c) THEN Done(q, c) + 1 ELSE Done(q, c)
    <2>1. CASE q # p
      <3>1. phase'[q] = phase[q] /\ at'[q] = at[q] /\ i'[q] = i[q]
        BY <1>2, <1>6, <2>1
      <3>. QED
        BY <1>5, <2>1, <3>1 DEF Done
    <2>2. CASE q = p /\ Index(p, c) = 0
      BY <1>1, <1>5, <2>2 DEF Done, AtCall
    <2>3. CASE q = p /\ Index(p, c) # 0
      <3> DEFINE k == Index(p, c)
      <3>1. /\ k \in Nat /\ k >= 1 /\ k <= Len(Program[p][Part(c)])
            /\ Part(c) \in {"meet", "forward", "turn", "back"} /\ (grouped => Part(c) = "meet")
        BY <2>3, Indexed
      <3>2. CASE ~last
        <4>1. phase'[p] = phase[p] /\ at'[p] = at[p] + 1 /\ i'[p] = i[p]
          BY <1>2, <1>6, <3>2
        <4>. QED
          BY <1>1, <1>5, <2>3, <3>1, <4>1 DEF Done, AtCall
      <3>3. CASE last /\ again
        <4>1. phase'[p] = phase[p] /\ at'[p] = 1 /\ i'[p] = i[p] + 1
          BY <1>2, <1>6, <3>3
        <4>. QED
          BY <1>1, <1>5, <2>3, <3>1, <3>3, <4>1 DEF Done, AtCall
      <3>4. CASE last /\ ~again
        <4>1. phase'[p] = After[phase[p]] /\ at'[p] = 1 /\ i'[p] = 0
          BY <1>2, <1>6, <3>4
        <4>2. phase[p] \in {"forward", "back"} => i[p] + 1 = Rounds
          BY <1>1, <3>4
        <4>3. CASE phase[p] = Part(c)
          <5>1. phase'[p] \in Later[Part(c)] /\ phase'[p] # Part(c)
            BY <1>3, <4>1, <4>3 DEF After, Later
          <5>. QED
            BY <1>1, <1>3, <1>5, <2>3, <3>1, <3>4, <4>2, <4>3, <5>1 DEF Done, AtCall, Times
        <4>4. CASE phase[p] # Part(c)
          <5>1. phase'[p] = Part(c) => phase[p] \notin Later[Part(c)]
            BY <1>3, <3>1, <4>1, <4>4 DEF After, Later
          <5>2. phase'[p] # Part(c) =>
                   (phase'[p] \in Later[Part(c)] <=> phase[p] \in Later[Part(c)])
            BY <1>3, <3>1, <4>1, <4>4 DEF After, Later
          <5>. QED
            BY <1>1, <1>5, <2>3, <3>1, <4>1, <4>4, <5>1, <5>2 DEF Done, AtCall
        <4>. QED
          BY <4>3, <4>4
      <3>. QED
        BY <3>2, <3>3, <3>4
    <2>. QED
      BY <2>1, <2>2, <2>3
  <1>. QED
    BY <1>7, <1>8

-----------------------------------------------------------------------------
(* In what order the calls are made *)

Atmost1(p) ==
    /\ Done(p, "unlink") \in {0, 1} /\ Done(p, "remove") \in {0, 1} /\ Done(p, "block") \in {0, 1}
    /\ Done(p, "open") \in {0, 1} /\ Done(p, "get") \in {0, 1} /\ Done(p, "introduce") \in {0, 1}
    /\ Done(p, "mask0") \in {0, 1} /\ Done(p, "take") \in {0, 1} /\ Done(p, "unmask0") \in {0, 1}
    /\ Done(p, "learn") \in {0, 1} /\ Done(p, "meet") \in {0, 1} /\ Done(p, "wake") \in {0, 1}
    /\ Done(p, "close") \in {0, 1} /\ Done(p, "change") \in {0, 1} /\ Done(p, "open1") \in {0, 1}
    /\ Done(p, "say") \in {0, 1} /\ Done(p, "collect1") \in {0, 1}
    /\ Done(p, "collect2") \in {0, 1} /\ Done(p, "collect3") \in {0, 1}
    /\ Done(p, "tell2") \in {0, 1} /\ Done(p, "tell3") \in {0, 1} /\ Done(p, "tell4") \in {0, 1}
    /\ Done(p, "join") \in {0, 1} /\ Done(p, "open2") \in {0, 1}

\* Up to the first signal and the post that goes with it.
MeetingOrder(p) ==
    /\ Atmost1(p)
    /\ Done(p, "get") <= Done(p, "open")
    /\ Done(p, "learn") <= Done(p, "get")
    /\ Done(p, "meet") <= Done(p, "learn")
    /\ Done(p, "wake") <= Done(p, "meet")
    /\ IF p = 1 THEN Done(p, "take") <= Done(p, "wake")
       ELSE /\ Done(p, "learn") <= Done(p, "take")
            /\ Done(p, "take") <= Done(p, "introduce")
            /\ Done(p, "introduce") <= Done(p, "get")
    /\ p = 2 => /\ Done(p, "remove") <= Done(p, "unlink")
                /\ Done(p, "open") <= Done(p, "remove")
                /\ Done(p, "close") <= Done(p, "wake")

\* The signals of the ring.
ForwardOrder(p) ==
    /\ Done(p, "mask1") \in Nat /\ Done(p, "kill1") \in Nat /\ Done(p, "post1") \in Nat
    /\ Done(p, "wait1") \in Nat /\ Done(p, "unmask1") \in Nat /\ Done(p, "mask1") <= Rounds
    /\ IF p = 1
       THEN /\ Done(p, "kill1") <= Done(p, "mask1") /\ Done(p, "post1") <= Done(p, "kill1")
            /\ Done(p, "wait1") <= Done(p, "post1") /\ Done(p, "unmask1") <= Done(p, "wait1")
            /\ Done(p, "mask1") <= Done(p, "unmask1") + 1
       ELSE /\ Done(p, "wait1") <= Done(p, "mask1") /\ Done(p, "kill1") <= Done(p, "wait1")
            /\ Done(p, "unmask1") <= Done(p, "kill1") /\ Done(p, "post1") <= Done(p, "unmask1")
            /\ Done(p, "mask1") <= Done(p, "post1") + 1
    /\ Done(p, "mask1") > 0 => Done(p, "open1") = 1

BackOrder(p) ==
    /\ Done(p, "mask2") \in Nat /\ Done(p, "kill2") \in Nat /\ Done(p, "post2") \in Nat
    /\ Done(p, "wait2") \in Nat /\ Done(p, "unmask2") \in Nat /\ Done(p, "mask2") <= Rounds
    /\ IF p = 1
       THEN /\ Done(p, "kill2") <= Done(p, "mask2") /\ Done(p, "post2") <= Done(p, "kill2")
            /\ Done(p, "wait2") <= Done(p, "post2") /\ Done(p, "unmask2") <= Done(p, "wait2")
            /\ Done(p, "mask2") <= Done(p, "unmask2") + 1
       ELSE IF p = 2
       THEN /\ Done(p, "wait2") <= Done(p, "mask2") /\ Done(p, "unmask2") <= Done(p, "wait2")
            /\ Done(p, "kill2") <= Done(p, "unmask2") /\ Done(p, "post2") <= Done(p, "kill2")
            /\ Done(p, "mask2") <= Done(p, "post2") + 1
       ELSE /\ Done(p, "wait2") <= Done(p, "mask2") /\ Done(p, "kill2") <= Done(p, "wait2")
            /\ Done(p, "unmask2") <= Done(p, "kill2") /\ Done(p, "post2") <= Done(p, "unmask2")
            /\ Done(p, "mask2") <= Done(p, "post2") + 1
    /\ Done(p, "mask2") > 0 => Done(p, "open2") = 1
    /\ Done(p, "open2") = 1 => /\ Done(p, "post1") = Rounds /\ Done(p, "unmask1") = Rounds
                               /\ Done(p, "kill1") = Rounds

RingOrder(p) ==
    /\ Done(p, "mask0") = 0 /\ Done(p, "unmask0") = 0 /\ Done(p, "say") = 0
    /\ Done(p, "collect1") = 0 /\ Done(p, "tell2") = 0 /\ Done(p, "join") = 0
    /\ Done(p, "tell3") = 0 /\ Done(p, "tell4") = 0 /\ Done(p, "block") = 0
    /\ Done(p, "change") <= Done(p, "take") /\ Done(p, "change") <= Done(p, "wake")
    /\ Done(p, "open1") <= Done(p, "change")
    /\ p = 2 => Done(p, "change") <= Done(p, "close")
    /\ phase[p] = "done" => Done(p, "post2") = Rounds /\ Done(p, "unmask2") = Rounds

\* The messages of the group.
GroupOrder(p) ==
    /\ Done(p, "change") = 0 /\ Done(p, "mask1") = 0 /\ Done(p, "open2") = 0
    /\ Done(p, "mask2") = 0 /\ Done(p, "open1") = 0
    /\ Done(p, "take") <= Done(p, "mask0") /\ Done(p, "unmask0") <= Done(p, "take")
    /\ IF p = 1
       THEN /\ Done(p, "mask0") <= Done(p, "wake")
            /\ Done(p, "collect1") <= Done(p, "unmask0")
            /\ Done(p, "collect2") <= Done(p, "collect1")
            /\ Done(p, "collect3") <= Done(p, "collect2")
            /\ Done(p, "tell2") <= Done(p, "collect3") /\ Done(p, "tell3") <= Done(p, "tell2")
            /\ Done(p, "tell4") <= Done(p, "tell3") /\ Done(p, "say") = 0 /\ Done(p, "join") = 0
       ELSE /\ Done(p, "mask0") <= Done(p, "introduce")
            /\ Done(p, "learn") <= Done(p, "unmask0") /\ Done(p, "say") <= Done(p, "unmask0")
            /\ Done(p, "join") <= Done(p, "say") /\ Done(p, "join") <= Done(p, "wake")
    /\ p = 2 => Done(p, "say") <= Done(p, "close")
    /\ phase[p] = "done" => Done(p, "wake") = 1 /\ Done(p, IF p = 1 THEN "tell4" ELSE "join") = 1

Ordered(p) ==
    /\ MeetingOrder(p) /\ ForwardOrder(p) /\ BackOrder(p)
    /\ IF grouped THEN GroupOrder(p) ELSE RingOrder(p)

LEMMA PartOf ==
  /\ "unlink" \in Calls /\ Part("unlink") = "meet"
  /\ "remove" \in Calls /\ Part("remove") = "meet"
  /\ "block" \in Calls /\ Part("block") = "meet"
  /\ "open" \in Calls /\ Part("open") = "meet"
  /\ "get" \in Calls /\ Part("get") = "meet"
  /\ "introduce" \in Calls /\ Part("introduce") = "meet"
  /\ "mask0" \in Calls /\ Part("mask0") = "meet"
  /\ "take" \in Calls /\ Part("take") = "meet"
  /\ "unmask0" \in Calls /\ Part("unmask0") = "meet"
  /\ "again" \in Calls /\ Part("again") = "meet"
  /\ "learn" \in Calls /\ Part("learn") = "meet"
  /\ "meet" \in Calls /\ Part("meet") = "meet"
  /\ "wake" \in Calls /\ Part("wake") = "meet"
  /\ "close" \in Calls /\ Part("close") = "meet"
  /\ "change" \in Calls /\ Part("change") = "meet"
  /\ "open1" \in Calls /\ Part("open1") = "meet"
  /\ "say" \in Calls /\ Part("say") = "meet"
  /\ "collect1" \in Calls /\ Part("collect1") = "meet"
  /\ "collect2" \in Calls /\ Part("collect2") = "meet"
  /\ "collect3" \in Calls /\ Part("collect3") = "meet"
  /\ "again2" \in Calls /\ Part("again2") = "meet"
  /\ "tell2" \in Calls /\ Part("tell2") = "meet"
  /\ "tell3" \in Calls /\ Part("tell3") = "meet"
  /\ "tell4" \in Calls /\ Part("tell4") = "meet"
  /\ "join" \in Calls /\ Part("join") = "meet"
  /\ "mask1" \in Calls /\ Part("mask1") = "forward"
  /\ "kill1" \in Calls /\ Part("kill1") = "forward"
  /\ "post1" \in Calls /\ Part("post1") = "forward"
  /\ "wait1" \in Calls /\ Part("wait1") = "forward"
  /\ "unmask1" \in Calls /\ Part("unmask1") = "forward"
  /\ "open2" \in Calls /\ Part("open2") = "turn"
  /\ "mask2" \in Calls /\ Part("mask2") = "back"
  /\ "kill2" \in Calls /\ Part("kill2") = "back"
  /\ "post2" \in Calls /\ Part("post2") = "back"
  /\ "wait2" \in Calls /\ Part("wait2") = "back"
  /\ "unmask2" \in Calls /\ Part("unmask2") = "back"
  BY DEF Calls, Part

\* Done for a call of a part, from the place alone.
LEMMA DoneByPlace ==
  ASSUME TypeOK, InPlace, NEW p \in Procs, NEW c \in Calls, Index(p, c) # 0
  PROVE  /\ Part(c) = "meet" =>
              Done(p, c) = IF phase[p] = "off" \/ (phase[p] = "meet" /\ at[p] <= Index(p, c))
                           THEN 0 ELSE 1
         /\ Part(c) = "forward" =>
              Done(p, c) = IF phase[p] \in {"off", "meet"} THEN 0
                           ELSE IF phase[p] = "forward"
                                THEN IF at[p] > Index(p, c) THEN i[p] + 1 ELSE i[p]
                                ELSE Rounds
         /\ Part(c) = "turn" =>
              Done(p, c) = IF phase[p] \in {"back", "done"} THEN 1 ELSE 0
         /\ Part(c) = "back" =>
              Done(p, c) = IF phase[p] = "done" THEN Rounds
                           ELSE IF phase[p] = "back"
                                THEN IF at[p] > Index(p, c) THEN i[p] + 1 ELSE i[p]
                                ELSE 0
  <1>1. /\ at[p] \in Nat /\ Index(p, c) \in Nat /\ i[p] \in Nat
        /\ phase[p] \in {"off", "meet", "forward", "turn", "back", "done"}
        /\ phase[p] \in {"meet", "turn"} => i[p] = 0
    BY Indexed DEF TypeOK, InPlace
  <1>2. Part(c) = "turn" /\ phase[p] = "turn" => at[p] <= Index(p, c)
    <2>1. Part(c) = "turn" => ~grouped /\ Index(p, c) >= 1
      BY Indexed
    <2>2. phase[p] = "turn" => at[p] <= Len(Program[p]["turn"])
      BY DEF TypeOK, Running
    <2>. QED
      BY <1>1, <2>1, <2>2, Turning
  <1>. QED
    BY <1>1, <1>2 DEF Done, Later, Times

LEMMA PlaceType ==
  ASSUME TypeOK, InPlace, NEW p \in Procs
  PROVE  /\ Rounds \in Nat /\ Rounds >= 1
         /\ i[p] \in Nat /\ i[p] < Rounds /\ at[p] \in Nat /\ at[p] >= 1
         /\ phase[p] \in {"off", "meet", "forward", "turn", "back", "done"}
         /\ grouped => phase[p] \in {"off", "meet", "done"}
         /\ phase[p] \in {"off", "meet", "turn", "done"} => i[p] = 0
  <1>1. at \in [Procs -> Nat \ {0}] /\ i \in [Procs -> 0..Rounds - 1]
    BY DEF TypeOK
  <1>2. phase[p] \in {"off", "meet", "forward", "turn", "back", "done"}
    BY DEF TypeOK
  <1>3. Rounds \in Nat /\ Rounds >= 1
    BY RingAssumption
  <1>. QED
    BY <1>1, <1>2, <1>3 DEF InPlace

LEMMA RingOrderOf1 ==
  ASSUME TypeOK, InPlace, ~grouped
  PROVE  Ordered(1)
  <1>1. /\ Index(1, "open") = 1 /\ Index(1, "get") = 2 /\ Index(1, "take") = 6 /\
           Index(1, "learn") = 3 /\ Index(1, "meet") = 4 /\ Index(1, "wake") = 5 /\
           Index(1, "change") = 7 /\ Index(1, "open1") = 8 /\ Index(1, "mask1") = 1 /\
           Index(1, "kill1") = 2 /\ Index(1, "post1") = 3 /\ Index(1, "wait1") = 4 /\
           Index(1, "unmask1") = 5 /\ Index(1, "open2") = 1 /\ Index(1, "mask2") = 1 /\
           Index(1, "kill2") = 2 /\ Index(1, "post2") = 3 /\ Index(1, "wait2") = 4 /\
           Index(1, "unmask2") = 5
        /\ Index(1, "unlink") = 0 /\ Index(1, "remove") = 0 /\ Index(1, "block") = 0 /\
           Index(1, "introduce") = 0 /\ Index(1, "mask0") = 0 /\ Index(1, "unmask0") = 0 /\
           Index(1, "again") = 0 /\ Index(1, "close") = 0 /\ Index(1, "say") = 0 /\
           Index(1, "collect1") = 0 /\ Index(1, "collect2") = 0 /\
           Index(1, "collect3") = 0 /\ Index(1, "again2") = 0 /\ Index(1, "tell2") = 0 /\
           Index(1, "tell3") = 0 /\ Index(1, "tell4") = 0 /\ Index(1, "join") = 0
    BY DEF Index, InRing
  <1>2. \A c \in Calls : Index(1, c) = 0 => Done(1, c) = 0
    BY DEF Done
  <1>3. 1 \in Procs
    BY DEF Procs
  <1>. QED
    BY <1>1, <1>2, <1>3, PlaceType, PartOf, DoneByPlace
       DEF Ordered, MeetingOrder, Atmost1, ForwardOrder, BackOrder, RingOrder

LEMMA RingOrderOf2 ==
  ASSUME TypeOK, InPlace, ~grouped
  PROVE  Ordered(2)
  <1>1. /\ Index(2, "unlink") = 1 /\ Index(2, "remove") = 2 /\ Index(2, "open") = 3 /\
           Index(2, "get") = 4 /\ Index(2, "introduce") = 5 /\ Index(2, "take") = 6 /\
           Index(2, "again") = 7 /\ Index(2, "learn") = 8 /\ Index(2, "meet") = 9 /\
           Index(2, "wake") = 10 /\ Index(2, "close") = 11 /\ Index(2, "change") = 12 /\
           Index(2, "open1") = 13 /\ Index(2, "mask1") = 1 /\ Index(2, "kill1") = 3 /\
           Index(2, "post1") = 5 /\ Index(2, "wait1") = 2 /\ Index(2, "unmask1") = 4 /\
           Index(2, "open2") = 1 /\ Index(2, "mask2") = 1 /\ Index(2, "kill2") = 4 /\
           Index(2, "post2") = 5 /\ Index(2, "wait2") = 2 /\ Index(2, "unmask2") = 3
        /\ Index(2, "block") = 0 /\ Index(2, "mask0") = 0 /\ Index(2, "unmask0") = 0 /\
           Index(2, "say") = 0 /\ Index(2, "collect1") = 0 /\ Index(2, "collect2") = 0 /\
           Index(2, "collect3") = 0 /\ Index(2, "again2") = 0 /\ Index(2, "tell2") = 0 /\
           Index(2, "tell3") = 0 /\ Index(2, "tell4") = 0 /\ Index(2, "join") = 0
    BY DEF Index, InRing
  <1>2. \A c \in Calls : Index(2, c) = 0 => Done(2, c) = 0
    BY DEF Done
  <1>3. 2 \in Procs
    BY DEF Procs
  <1>. QED
    BY <1>1, <1>2, <1>3, PlaceType, PartOf, DoneByPlace
       DEF Ordered, MeetingOrder, Atmost1, ForwardOrder, BackOrder, RingOrder

LEMMA RingOrderOf3 ==
  ASSUME TypeOK, InPlace, ~grouped
  PROVE  Ordered(3)
  <1>1. /\ Index(3, "open") = 1 /\ Index(3, "get") = 2 /\ Index(3, "introduce") = 3 /\
           Index(3, "take") = 4 /\ Index(3, "again") = 5 /\ Index(3, "learn") = 6 /\
           Index(3, "meet") = 7 /\ Index(3, "wake") = 8 /\ Index(3, "change") = 9 /\
           Index(3, "open1") = 10 /\ Index(3, "mask1") = 1 /\ Index(3, "kill1") = 3 /\
           Index(3, "post1") = 5 /\ Index(3, "wait1") = 2 /\ Index(3, "unmask1") = 4 /\
           Index(3, "open2") = 1 /\ Index(3, "mask2") = 1 /\ Index(3, "kill2") = 3 /\
           Index(3, "post2") = 5 /\ Index(3, "wait2") = 2 /\ Index(3, "unmask2") = 4
        /\ Index(3, "unlink") = 0 /\ Index(3, "remove") = 0 /\ Index(3, "block") = 0 /\
           Index(3, "mask0") = 0 /\ Index(3, "unmask0") = 0 /\ Index(3, "close") = 0 /\
           Index(3, "say") = 0 /\ Index(3, "collect1") = 0 /\ Index(3, "collect2") = 0 /\
           Index(3, "collect3") = 0 /\ Index(3, "again2") = 0 /\ Index(3, "tell2") = 0 /\
           Index(3, "tell3") = 0 /\ Index(3, "tell4") = 0 /\ Index(3, "join") = 0
    BY DEF Index, InRing
  <1>2. \A c \in Calls : Index(3, c) = 0 => Done(3, c) = 0
    BY DEF Done
  <1>3. 3 \in Procs
    BY DEF Procs
  <1>. QED
    BY <1>1, <1>2, <1>3, PlaceType, PartOf, DoneByPlace
       DEF Ordered, MeetingOrder, Atmost1, ForwardOrder, BackOrder, RingOrder

LEMMA RingOrderOf4 ==
  ASSUME TypeOK, InPlace, ~grouped
  PROVE  Ordered(4)
  <1>1. /\ Index(4, "open") = 1 /\ Index(4, "get") = 2 /\ Index(4, "introduce") = 3 /\
           Index(4, "take") = 4 /\ Index(4, "again") = 5 /\ Index(4, "learn") = 6 /\
           Index(4, "meet") = 7 /\ Index(4, "wake") = 8 /\ Index(4, "change") = 9 /\
           Index(4, "open1") = 10 /\ Index(4, "mask1") = 1 /\ Index(4, "kill1") = 3 /\
           Index(4, "post1") = 5 /\ Index(4, "wait1") = 2 /\ Index(4, "unmask1") = 4 /\
           Index(4, "open2") = 1 /\ Index(4, "mask2") = 1 /\ Index(4, "kill2") = 3 /\
           Index(4, "post2") = 5 /\ Index(4, "wait2") = 2 /\ Index(4, "unmask2") = 4
        /\ Index(4, "unlink") = 0 /\ Index(4, "remove") = 0 /\ Index(4, "block") = 0 /\
           Index(4, "mask0") = 0 /\ Index(4, "unmask0") = 0 /\ Index(4, "close") = 0 /\
           Index(4, "say") = 0 /\ Index(4, "collect1") = 0 /\ Index(4, "collect2") = 0 /\
           Index(4, "collect3") = 0 /\ Index(4, "again2") = 0 /\ Index(4, "tell2") = 0 /\
           Index(4, "tell3") = 0 /\ Index(4, "tell4") = 0 /\ Index(4, "join") = 0
    BY DEF Index, InRing
  <1>2. \A c \in Calls : Index(4, c) = 0 => Done(4, c) = 0
    BY DEF Done
  <1>3. 4 \in Procs
    BY DEF Procs
  <1>. QED
    BY <1>1, <1>2, <1>3, PlaceType, PartOf, DoneByPlace
       DEF Ordered, MeetingOrder, Atmost1, ForwardOrder, BackOrder, RingOrder

LEMMA GroupOrderOf1 ==
  ASSUME TypeOK, InPlace, grouped
  PROVE  Ordered(1)
  <1>1. /\ Index(1, "block") = 1 /\ Index(1, "open") = 2 /\ Index(1, "get") = 3 /\
           Index(1, "mask0") = 7 /\ Index(1, "take") = 8 /\ Index(1, "unmask0") = 9 /\
           Index(1, "again") = 10 /\ Index(1, "learn") = 4 /\ Index(1, "meet") = 5 /\
           Index(1, "wake") = 6 /\ Index(1, "collect1") = 11 /\
           Index(1, "collect2") = 12 /\ Index(1, "collect3") = 13 /\
           Index(1, "again2") = 14 /\ Index(1, "tell2") = 15 /\ Index(1, "tell3") = 16 /\
           Index(1, "tell4") = 17
        /\ Index(1, "unlink") = 0 /\ Index(1, "remove") = 0 /\ Index(1, "introduce") = 0 /\
           Index(1, "close") = 0 /\ Index(1, "change") = 0 /\ Index(1, "open1") = 0 /\
           Index(1, "say") = 0 /\ Index(1, "join") = 0 /\ Index(1, "mask1") = 0 /\
           Index(1, "kill1") = 0 /\ Index(1, "post1") = 0 /\ Index(1, "wait1") = 0 /\
           Index(1, "unmask1") = 0 /\ Index(1, "open2") = 0 /\ Index(1, "mask2") = 0 /\
           Index(1, "kill2") = 0 /\ Index(1, "post2") = 0 /\ Index(1, "wait2") = 0 /\
           Index(1, "unmask2") = 0
    BY DEF Index, InGroup
  <1>2. \A c \in Calls : Index(1, c) = 0 => Done(1, c) = 0
    BY DEF Done
  <1>3. 1 \in Procs
    BY DEF Procs
  <1>. QED
    BY <1>1, <1>2, <1>3, PlaceType, PartOf, DoneByPlace
       DEF Ordered, MeetingOrder, Atmost1, ForwardOrder, BackOrder, GroupOrder

LEMMA GroupOrderOf2 ==
  ASSUME TypeOK, InPlace, grouped
  PROVE  Ordered(2)
  <1>1. /\ Index(2, "unlink") = 1 /\ Index(2, "remove") = 2 /\ Index(2, "block") = 3 /\
           Index(2, "open") = 4 /\ Index(2, "get") = 5 /\ Index(2, "introduce") = 6 /\
           Index(2, "mask0") = 7 /\ Index(2, "take") = 8 /\ Index(2, "unmask0") = 9 /\
           Index(2, "again") = 10 /\ Index(2, "learn") = 11 /\ Index(2, "meet") = 12 /\
           Index(2, "wake") = 13 /\ Index(2, "close") = 14 /\ Index(2, "say") = 15 /\
           Index(2, "join") = 16
        /\ Index(2, "change") = 0 /\ Index(2, "open1") = 0 /\ Index(2, "collect1") = 0 /\
           Index(2, "collect2") = 0 /\ Index(2, "collect3") = 0 /\
           Index(2, "again2") = 0 /\ Index(2, "tell2") = 0 /\ Index(2, "tell3") = 0 /\
           Index(2, "tell4") = 0 /\ Index(2, "mask1") = 0 /\ Index(2, "kill1") = 0 /\
           Index(2, "post1") = 0 /\ Index(2, "wait1") = 0 /\ Index(2, "unmask1") = 0 /\
           Index(2, "open2") = 0 /\ Index(2, "mask2") = 0 /\ Index(2, "kill2") = 0 /\
           Index(2, "post2") = 0 /\ Index(2, "wait2") = 0 /\ Index(2, "unmask2") = 0
    BY DEF Index, InGroup
  <1>2. \A c \in Calls : Index(2, c) = 0 => Done(2, c) = 0
    BY DEF Done
  <1>3. 2 \in Procs
    BY DEF Procs
  <1>. QED
    BY <1>1, <1>2, <1>3, PlaceType, PartOf, DoneByPlace
       DEF Ordered, MeetingOrder, Atmost1, ForwardOrder, BackOrder, GroupOrder

LEMMA GroupOrderOf3 ==
  ASSUME TypeOK, InPlace, grouped
  PROVE  Ordered(3)
  <1>1. /\ Index(3, "block") = 1 /\ Index(3, "open") = 2 /\ Index(3, "get") = 3 /\
           Index(3, "introduce") = 4 /\ Index(3, "mask0") = 5 /\ Index(3, "take") = 6 /\
           Index(3, "unmask0") = 7 /\ Index(3, "again") = 9 /\ Index(3, "learn") = 10 /\
           Index(3, "meet") = 11 /\ Index(3, "wake") = 12 /\ Index(3, "say") = 8 /\
           Index(3, "join") = 13
        /\ Index(3, "unlink") = 0 /\ Index(3, "remove") = 0 /\ Index(3, "close") = 0 /\
           Index(3, "change") = 0 /\ Index(3, "open1") = 0 /\ Index(3, "collect1") = 0 /\
           Index(3, "collect2") = 0 /\ Index(3, "collect3") = 0 /\
           Index(3, "again2") = 0 /\ Index(3, "tell2") = 0 /\ Index(3, "tell3") = 0 /\
           Index(3, "tell4") = 0 /\ Index(3, "mask1") = 0 /\ Index(3, "kill1") = 0 /\
           Index(3, "post1") = 0 /\ Index(3, "wait1") = 0 /\ Index(3, "unmask1") = 0 /\
           Index(3, "open2") = 0 /\ Index(3, "mask2") = 0 /\ Index(3, "kill2") = 0 /\
           Index(3, "post2") = 0 /\ Index(3, "wait2") = 0 /\ Index(3, "unmask2") = 0
    BY DEF Index, InGroup
  <1>2. \A c \in Calls : Index(3, c) = 0 => Done(3, c) = 0
    BY DEF Done
  <1>3. 3 \in Procs
    BY DEF Procs
  <1>. QED
    BY <1>1, <1>2, <1>3, PlaceType, PartOf, DoneByPlace
       DEF Ordered, MeetingOrder, Atmost1, ForwardOrder, BackOrder, GroupOrder

LEMMA GroupOrderOf4 ==
  ASSUME TypeOK, InPlace, grouped
  PROVE  Ordered(4)
  <1>1. /\ Index(4, "block") = 1 /\ Index(4, "open") = 2 /\ Index(4, "get") = 3 /\
           Index(4, "introduce") = 4 /\ Index(4, "mask0") = 5 /\ Index(4, "take") = 6 /\
           Index(4, "unmask0") = 7 /\ Index(4, "again") = 9 /\ Index(4, "learn") = 10 /\
           Index(4, "meet") = 11 /\ Index(4, "wake") = 12 /\ Index(4, "say") = 8 /\
           Index(4, "join") = 13
        /\ Index(4, "unlink") = 0 /\ Index(4, "remove") = 0 /\ Index(4, "close") = 0 /\
           Index(4, "change") = 0 /\ Index(4, "open1") = 0 /\ Index(4, "collect1") = 0 /\
           Index(4, "collect2") = 0 /\ Index(4, "collect3") = 0 /\
           Index(4, "again2") = 0 /\ Index(4, "tell2") = 0 /\ Index(4, "tell3") = 0 /\
           Index(4, "tell4") = 0 /\ Index(4, "mask1") = 0 /\ Index(4, "kill1") = 0 /\
           Index(4, "post1") = 0 /\ Index(4, "wait1") = 0 /\ Index(4, "unmask1") = 0 /\
           Index(4, "open2") = 0 /\ Index(4, "mask2") = 0 /\ Index(4, "kill2") = 0 /\
           Index(4, "post2") = 0 /\ Index(4, "wait2") = 0 /\ Index(4, "unmask2") = 0
    BY DEF Index, InGroup
  <1>2. \A c \in Calls : Index(4, c) = 0 => Done(4, c) = 0
    BY DEF Done
  <1>3. 4 \in Procs
    BY DEF Procs
  <1>. QED
    BY <1>1, <1>2, <1>3, PlaceType, PartOf, DoneByPlace
       DEF Ordered, MeetingOrder, Atmost1, ForwardOrder, BackOrder, GroupOrder


LEMMA Order ==
  ASSUME TypeOK, InPlace
  PROVE  \A p \in Procs : Ordered(p)
  <1>1. \A p \in Procs : p \in {1, 2, 3, 4}
    BY DEF Procs
  <1>. QED
    BY <1>1, RingOrderOf1, RingOrderOf2, RingOrderOf3, RingOrderOf4, GroupOrderOf1, GroupOrderOf2,
       GroupOrderOf3, GroupOrderOf4

-----------------------------------------------------------------------------
(* Types *)

LEMMA AdvanceType ==
  ASSUME TypeOK, InPlace, NEW p \in Procs, Running(p), Advance(p), UNCHANGED programs
  PROVE  /\ phase' \in [Procs -> {"off", "meet", "forward", "turn", "back", "done"}]
         /\ at' \in [Procs -> Nat \ {0}] /\ i' \in [Procs -> 0..Rounds - 1]
         /\ \A q \in Procs : Running(q)' => at'[q] <= Len(Program'[q][phase'[q]])
  <1>1. /\ phase \in [Procs -> {"off", "meet", "forward", "turn", "back", "done"}]
        /\ at \in [Procs -> Nat \ {0}] /\ i \in [Procs -> 0..Rounds - 1]
        /\ \A q \in Procs : Running(q) => at[q] <= Len(Program[q][phase[q]])
        /\ Rounds \in Nat /\ Rounds >= 1
    BY RingAssumption DEF TypeOK
  <1>2. Program' = Program
    BY DEF Program, grouped
  <1>3. phase[p] \in {"meet", "forward", "turn", "back"}
    BY DEF Running
  <1>4. After[phase[p]] \in {"forward", "turn", "back", "done"}
    BY <1>3 DEF After
  <1>5. After[phase[p]] # "done" => Len(Program[p][After[phase[p]]]) >= 1
    <2>1. After[phase[p]] # "done" => ~grouped
      BY <1>3 DEF After, InPlace
    <2>2. ASSUME ~grouped, NEW part \in {"forward", "turn", "back"}
          PROVE  Len(Program[p][part]) = 1 \/ Len(Program[p][part]) = 5
      BY <2>2, Loops, Zenon
    <2>3. ASSUME After[phase[p]] # "done"
          PROVE  Len(Program[p][After[phase[p]]]) = 1 \/ Len(Program[p][After[phase[p]]]) = 5
      BY <1>4, <2>1, <2>2, <2>3, Zenon
    <2>4. \A n : n = 1 \/ n = 5 => n >= 1
      OBVIOUS
    <2>. QED
      BY <2>3, <2>4, Zenon
  <1> USE DEF Running
  <1>6. CASE /\ at[p] # Len(Program[p][phase[p]])
             /\ at' = [at EXCEPT ![p] = @ + 1] /\ UNCHANGED <<phase, i>>
    <2>1. at[p] + 1 <= Len(Program[p][phase[p]])
      BY <1>1, <1>3, <1>6
    <2>. QED
      BY <1>1, <1>2, <1>6, <2>1
  <1>7. CASE /\ at' = [at EXCEPT ![p] = 1] /\ i' = [i EXCEPT ![p] = @ + 1]
             /\ phase[p] \in {"forward", "back"} /\ i[p] + 1 < Rounds
             /\ UNCHANGED phase
    <2>1. 1 <= Len(Program[p][phase[p]])
      BY <1>1, <1>3
    <2>2. i[p] + 1 \in 0..Rounds - 1
      BY <1>1, <1>7
    <2>. QED
      BY <1>1, <1>2, <1>7, <2>1, <2>2
  <1>8. CASE /\ at' = [at EXCEPT ![p] = 1] /\ i' = [i EXCEPT ![p] = 0]
             /\ phase' = [phase EXCEPT ![p] = After[@]]
    BY <1>1, <1>2, <1>4, <1>5, <1>8
  <1>. QED
    BY <1>6, <1>7, <1>8 DEF Advance

\* What the calls of a program change, apart from its place.
Data == <<left, right, handler, mask, pending, unlinked, sees, sem, queue, qid, current,
          allPIDs, group, stale, sends, told>>

DataOK ==
    /\ programs \in {"signals", "group-signaling"}
    /\ group \in [Procs -> Pids] /\ allPIDs \in Seq(Pids)
    /\ left \in [Procs -> 0..4] /\ right \in [Procs -> Pids]
    /\ handler \in [Procs -> {"initHandler", "circularHandler"}]
    /\ mask \in [Procs -> SUBSET Signals]
    /\ pending \in [Procs -> [Signals -> 0..4]]
    /\ unlinked \in SUBSET Names /\ sees \in [Procs -> [Names -> {0, 1}]]
    /\ sem \in [Names -> [{0, 1} -> Nat]]
    /\ queue \in [{0, 1} -> [MsgTypes -> Seq(Pids)]] /\ qid \in [Procs -> {0, 1}]
    /\ current \in {0, 1} /\ stale \in SUBSET Procs
    /\ sends \in Seq([from : Procs, to : Pids, sig : Signals])
    /\ told \in [Procs -> Seq({"intro", "left", "right"})]

LEMMA TypeData == TypeOK => DataOK
  BY DEF TypeOK, DataOK

LEMMA DataType ==
  ASSUME DataOK',
         phase' \in [Procs -> {"off", "meet", "forward", "turn", "back", "done"}],
         at' \in [Procs -> Nat \ {0}], i' \in [Procs -> 0..Rounds - 1],
         \A q \in Procs : Running(q)' => at'[q] <= Len(Program'[q][phase'[q]])
  PROVE  TypeOK'
  BY DEF TypeOK, DataOK

\* What each call is, by its operation.
LEMMA Operations ==
  ASSUME TypeOK, InPlace, NEW p \in Procs, NEW op, At(p, op)
  PROVE  \E c \in Calls : AtCall(p, c) /\ Now(p) = Meaning(p, c) /\ Meaning(p, c).op = op
  BY Named DEF At

LEMMA Meanings ==
  ASSUME NEW p \in Procs
  PROVE  /\ Meaning(p, "unlink") = [op |-> "unlink", sems |-> Names]
         /\ Meaning(p, "remove") = Call("remove")
         /\ Meaning(p, "block") = Mask("USR2")
         /\ Meaning(p, "open") = Open(p, 0)
         /\ Meaning(p, "get") = Call("msgget")
         /\ Meaning(p, "introduce") = Send(p, "own")
         /\ Meaning(p, "mask0") = Mask("USR1")
         /\ Meaning(p, "take") = Wait(p, 0)
         /\ Meaning(p, "unmask0") = Unmask("USR1")
         /\ Meaning(p, "again") = Call("msgget")
         /\ Meaning(p, "learn") = Receive(getNextProcess(p), "right")
         /\ Meaning(p, "meet") = Kill("right", "USR1")
         /\ Meaning(p, "wake") = Post(getNextProcess(p), 0)
         /\ Meaning(p, "close") = Send(1, "left")
         /\ Meaning(p, "change") = Call("change")
         /\ Meaning(p, "open1") = Open(p, 1)
         /\ Meaning(p, "say") = Send(18, "own")
         /\ Meaning(p, "collect1") = Receive(18, "all")
         /\ Meaning(p, "collect2") = Receive(18, "all")
         /\ Meaning(p, "collect3") = Receive(18, "all")
         /\ Meaning(p, "again2") = Call("msgget")
         /\ Meaning(p, "tell2") = Send(2, "own")
         /\ Meaning(p, "tell3") = Send(3, "own")
         /\ Meaning(p, "tell4") = Send(4, "own")
         /\ Meaning(p, "join") = Receive(p, "group")
         /\ Meaning(p, "mask1") = Mask("USR1")
         /\ Meaning(p, "kill1") = Kill("right", "USR1")
         /\ Meaning(p, "post1") = Post(p, 1)
         /\ Meaning(p, "wait1") = Wait(getPreviousProcess(p), 1)
         /\ Meaning(p, "unmask1") = Unmask("USR1")
         /\ Meaning(p, "open2") = Open(p, 2)
         /\ Meaning(p, "mask2") = Mask("USR2")
         /\ Meaning(p, "kill2") = Kill("left", "USR2")
         /\ Meaning(p, "post2") = Post(p, 2)
         /\ Meaning(p, "wait2") = Wait(getNextProcess(p), 2)
         /\ Meaning(p, "unmask2") = Unmask("USR2")
  BY DEF Meaning

LEMMA OpOf ==
  ASSUME NEW p \in Procs
  PROVE  /\ Meaning(p, "unlink").op = "unlink"
         /\ Meaning(p, "remove").op = "remove"
         /\ Meaning(p, "block").op = "mask"
         /\ Meaning(p, "open").op = "open"
         /\ Meaning(p, "get").op = "msgget"
         /\ Meaning(p, "introduce").op = "send"
         /\ Meaning(p, "mask0").op = "mask"
         /\ Meaning(p, "take").op = "wait"
         /\ Meaning(p, "unmask0").op = "unmask"
         /\ Meaning(p, "again").op = "msgget"
         /\ Meaning(p, "learn").op = "receive"
         /\ Meaning(p, "meet").op = "kill"
         /\ Meaning(p, "wake").op = "post"
         /\ Meaning(p, "close").op = "send"
         /\ Meaning(p, "change").op = "change"
         /\ Meaning(p, "open1").op = "open"
         /\ Meaning(p, "say").op = "send"
         /\ Meaning(p, "collect1").op = "receive"
         /\ Meaning(p, "collect2").op = "receive"
         /\ Meaning(p, "collect3").op = "receive"
         /\ Meaning(p, "again2").op = "msgget"
         /\ Meaning(p, "tell2").op = "send"
         /\ Meaning(p, "tell3").op = "send"
         /\ Meaning(p, "tell4").op = "send"
         /\ Meaning(p, "join").op = "receive"
         /\ Meaning(p, "mask1").op = "mask"
         /\ Meaning(p, "kill1").op = "kill"
         /\ Meaning(p, "post1").op = "post"
         /\ Meaning(p, "wait1").op = "wait"
         /\ Meaning(p, "unmask1").op = "unmask"
         /\ Meaning(p, "open2").op = "open"
         /\ Meaning(p, "mask2").op = "mask"
         /\ Meaning(p, "kill2").op = "kill"
         /\ Meaning(p, "post2").op = "post"
         /\ Meaning(p, "wait2").op = "wait"
         /\ Meaning(p, "unmask2").op = "unmask"
  BY Meanings DEF Call, Kill, Mask, Open, Post, Receive, Send, Unmask, Wait

\* What a call is, by its operation.
LEMMA Unlinking ==
  ASSUME TypeOK, InPlace, NEW p \in Procs, At(p, "unlink")
  PROVE  AtCall(p, "unlink") /\ Now(p) = [op |-> "unlink", sems |-> Names]
  <1>1. PICK c \in Calls : AtCall(p, c) /\ Now(p) = Meaning(p, c) /\ Meaning(p, c).op = "unlink"
    BY Operations
  <1>2. c \in {"unlink"}
    BY <1>1, OpOf DEF Calls
  <1>. QED
    BY <1>1, <1>2, Meanings

LEMMA Removing ==
  ASSUME TypeOK, InPlace, NEW p \in Procs, At(p, "remove")
  PROVE  AtCall(p, "remove") /\ Now(p) = Call("remove")
  <1>1. PICK c \in Calls : AtCall(p, c) /\ Now(p) = Meaning(p, c) /\ Meaning(p, c).op = "remove"
    BY Operations
  <1>2. c \in {"remove"}
    BY <1>1, OpOf DEF Calls
  <1>. QED
    BY <1>1, <1>2, Meanings

LEMMA Opening ==
  ASSUME TypeOK, InPlace, NEW p \in Procs, At(p, "open")
  PROVE  \/ AtCall(p, "open") /\ Now(p) = Open(p, 0)
         \/ AtCall(p, "open1") /\ Now(p) = Open(p, 1)
         \/ AtCall(p, "open2") /\ Now(p) = Open(p, 2)
  <1>1. PICK c \in Calls : AtCall(p, c) /\ Now(p) = Meaning(p, c) /\ Meaning(p, c).op = "open"
    BY Operations
  <1>2. c \in {"open", "open1", "open2"}
    BY <1>1, OpOf DEF Calls
  <1>. QED
    BY <1>1, <1>2, Meanings

LEMMA Sending ==
  ASSUME TypeOK, InPlace, NEW p \in Procs, At(p, "send")
  PROVE  \/ AtCall(p, "introduce") /\ Now(p) = Send(p, "own")
         \/ AtCall(p, "close") /\ Now(p) = Send(1, "left")
         \/ AtCall(p, "say") /\ Now(p) = Send(18, "own")
         \/ AtCall(p, "tell2") /\ Now(p) = Send(2, "own")
         \/ AtCall(p, "tell3") /\ Now(p) = Send(3, "own")
         \/ AtCall(p, "tell4") /\ Now(p) = Send(4, "own")
  <1>1. PICK c \in Calls : AtCall(p, c) /\ Now(p) = Meaning(p, c) /\ Meaning(p, c).op = "send"
    BY Operations
  <1>2. c \in {"introduce", "close", "say", "tell2", "tell3", "tell4"}
    BY <1>1, OpOf DEF Calls
  <1>. QED
    BY <1>1, <1>2, Meanings

LEMMA Receiving ==
  ASSUME TypeOK, InPlace, NEW p \in Procs, At(p, "receive")
  PROVE  \/ AtCall(p, "learn") /\ Now(p) = Receive(getNextProcess(p), "right")
         \/ AtCall(p, "collect1") /\ Now(p) = Receive(18, "all")
         \/ AtCall(p, "collect2") /\ Now(p) = Receive(18, "all")
         \/ AtCall(p, "collect3") /\ Now(p) = Receive(18, "all")
         \/ AtCall(p, "join") /\ Now(p) = Receive(p, "group")
  <1>1. PICK c \in Calls : AtCall(p, c) /\ Now(p) = Meaning(p, c) /\ Meaning(p, c).op = "receive"
    BY Operations
  <1>2. c \in {"learn", "collect1", "collect2", "collect3", "join"}
    BY <1>1, OpOf DEF Calls
  <1>. QED
    BY <1>1, <1>2, Meanings

LEMMA Killing ==
  ASSUME TypeOK, InPlace, NEW p \in Procs, At(p, "kill")
  PROVE  \/ AtCall(p, "meet") /\ Now(p) = Kill("right", "USR1")
         \/ AtCall(p, "kill1") /\ Now(p) = Kill("right", "USR1")
         \/ AtCall(p, "kill2") /\ Now(p) = Kill("left", "USR2")
  <1>1. PICK c \in Calls : AtCall(p, c) /\ Now(p) = Meaning(p, c) /\ Meaning(p, c).op = "kill"
    BY Operations
  <1>2. c \in {"meet", "kill1", "kill2"}
    BY <1>1, OpOf DEF Calls
  <1>. QED
    BY <1>1, <1>2, Meanings

LEMMA Posting ==
  ASSUME TypeOK, InPlace, NEW p \in Procs, At(p, "post")
  PROVE  \/ AtCall(p, "wake") /\ Now(p) = Post(getNextProcess(p), 0)
         \/ AtCall(p, "post1") /\ Now(p) = Post(p, 1)
         \/ AtCall(p, "post2") /\ Now(p) = Post(p, 2)
  <1>1. PICK c \in Calls : AtCall(p, c) /\ Now(p) = Meaning(p, c) /\ Meaning(p, c).op = "post"
    BY Operations
  <1>2. c \in {"wake", "post1", "post2"}
    BY <1>1, OpOf DEF Calls
  <1>. QED
    BY <1>1, <1>2, Meanings

LEMMA Waiting ==
  ASSUME TypeOK, InPlace, NEW p \in Procs, At(p, "wait")
  PROVE  \/ AtCall(p, "take") /\ Now(p) = Wait(p, 0)
         \/ AtCall(p, "wait1") /\ Now(p) = Wait(getPreviousProcess(p), 1)
         \/ AtCall(p, "wait2") /\ Now(p) = Wait(getNextProcess(p), 2)
  <1>1. PICK c \in Calls : AtCall(p, c) /\ Now(p) = Meaning(p, c) /\ Meaning(p, c).op = "wait"
    BY Operations
  <1>2. c \in {"take", "wait1", "wait2"}
    BY <1>1, OpOf DEF Calls
  <1>. QED
    BY <1>1, <1>2, Meanings

LEMMA Changing ==
  ASSUME TypeOK, InPlace, NEW p \in Procs, At(p, "change")
  PROVE  AtCall(p, "change") /\ Now(p) = Call("change")
  <1>1. PICK c \in Calls : AtCall(p, c) /\ Now(p) = Meaning(p, c) /\ Meaning(p, c).op = "change"
    BY Operations
  <1>2. c \in {"change"}
    BY <1>1, OpOf DEF Calls
  <1>. QED
    BY <1>1, <1>2, Meanings

LEMMA Masking ==
  ASSUME TypeOK, InPlace, NEW p \in Procs, At(p, "mask")
  PROVE  \/ AtCall(p, "block") /\ Now(p) = Mask("USR2")
         \/ AtCall(p, "mask0") /\ Now(p) = Mask("USR1")
         \/ AtCall(p, "mask1") /\ Now(p) = Mask("USR1")
         \/ AtCall(p, "mask2") /\ Now(p) = Mask("USR2")
  <1>1. PICK c \in Calls : AtCall(p, c) /\ Now(p) = Meaning(p, c) /\ Meaning(p, c).op = "mask"
    BY Operations
  <1>2. c \in {"block", "mask0", "mask1", "mask2"}
    BY <1>1, OpOf DEF Calls
  <1>. QED
    BY <1>1, <1>2, Meanings

LEMMA Unmasking ==
  ASSUME TypeOK, InPlace, NEW p \in Procs, At(p, "unmask")
  PROVE  \/ AtCall(p, "unmask0") /\ Now(p) = Unmask("USR1")
         \/ AtCall(p, "unmask1") /\ Now(p) = Unmask("USR1")
         \/ AtCall(p, "unmask2") /\ Now(p) = Unmask("USR2")
  <1>1. PICK c \in Calls : AtCall(p, c) /\ Now(p) = Meaning(p, c) /\ Meaning(p, c).op = "unmask"
    BY Operations
  <1>2. c \in {"unmask0", "unmask1", "unmask2"}
    BY <1>1, OpOf DEF Calls
  <1>. QED
    BY <1>1, <1>2, Meanings


\* Who makes a call that not all of the programs make.
LEMMA Whose ==
  ASSUME TypeOK, InPlace, NEW p \in Procs, NEW c \in Calls, AtCall(p, c)
  PROVE  /\ Index(p, c) # 0
         /\ c \in {"unlink", "remove", "close"} => p = 2
         /\ c \in {"collect1", "collect2", "collect3", "again2", "tell2", "tell3", "tell4"} => p = 1
         /\ c \in {"introduce", "say", "join"} => p # 1
         /\ c \in {"collect1", "collect2", "collect3", "again2", "tell2", "tell3", "tell4", "say",
                   "join", "block", "mask0", "unmask0"} => grouped
         /\ c \in {"change", "open1", "open2", "mask1", "kill1", "post1", "wait1", "unmask1", "mask2",
                   "kill2", "post2", "wait2", "unmask2"} => ~grouped
  <1>1. Index(p, c) # 0
    BY PlaceType DEF AtCall
  <1>2. p \in {1, 2, 3, 4}
    BY DEF Procs
  <1>3. CASE grouped
    BY <1>1, <1>2, <1>3 DEF Index, InGroup
  <1>4. CASE ~grouped
    BY <1>1, <1>2, <1>4 DEF Index, InRing
  <1>. QED
    BY <1>3, <1>4

LEMMA NamesOf ==
  ASSUME NEW p \in Procs
  PROVE  /\ getNextProcess(p) \in Procs /\ getPreviousProcess(p) \in Procs
         /\ Neighbours(p) \subseteq Procs
         /\ \A q \in Procs : <<q, 0>> \in Names /\ <<q, 1>> \in Names /\ <<q, 2>> \in Names
  <1>1. p \in {1, 2, 3, 4}
    BY DEF Procs
  <1>2. getNextProcess(p) \in Procs /\ getPreviousProcess(p) \in Procs
    BY <1>1, Around DEF Procs
  <1>3. \A q \in Procs : <<q, 0>> \in Names /\ <<q, 1>> \in Names /\ <<q, 2>> \in Names
    BY DEF Names
  <1>. QED
    BY <1>2, <1>3 DEF Neighbours

LEMMA SemOf ==
  ASSUME TypeOK, InPlace, NEW p \in Procs, At(p, "post") \/ At(p, "wait")
  PROVE  Now(p).sem \in Names
  <1>1. /\ <<getNextProcess(p), 0>> \in Names /\ <<p, 1>> \in Names /\ <<p, 2>> \in Names
        /\ <<p, 0>> \in Names /\ <<getPreviousProcess(p), 1>> \in Names
        /\ <<getNextProcess(p), 2>> \in Names
    BY NamesOf
  <1>2. CASE At(p, "post")
    BY <1>1, <1>2, Posting DEF Post
  <1>3. CASE At(p, "wait")
    BY <1>1, <1>3, Waiting DEF Wait
  <1>. QED
    BY <1>2, <1>3

LEMMA SigOf ==
  ASSUME TypeOK, InPlace, NEW p \in Procs, At(p, "kill") \/ At(p, "mask") \/ At(p, "unmask")
  PROVE  Now(p).sig \in Signals
  BY Killing, Masking, Unmasking DEF Kill, Mask, Unmask, Signals

LEMMA TypeOf ==
  ASSUME TypeOK, InPlace, NEW p \in Procs, At(p, "send") \/ At(p, "receive")
  PROVE  Now(p).type \in MsgTypes
  <1>1. p \in 1..4 /\ getNextProcess(p) \in 1..4
    BY NamesOf DEF Procs
  <1>. QED
    BY <1>1, Sending, Receiving DEF Send, Receive, MsgTypes

LEMMA HandleType ==
  ASSUME DataOK, NEW p \in Procs, NEW s \in Signals, Handle(p, s)
  PROVE  /\ left' \in [Procs -> 0..4] /\ pending' \in [Procs -> [Signals -> 0..4]]
         /\ told' \in [Procs -> Seq({"intro", "left", "right"})]
  <1>1. pending[p][s] \in 0..4 /\ told[p] \in Seq({"intro", "left", "right"})
    BY DEF DataOK
  <1>2. \A w \in {"intro", "left", "right"} :
           Append(told[p], w) \in Seq({"intro", "left", "right"})
    BY <1>1
  <1>. QED
    BY <1>1, <1>2 DEF DataOK, Handle

LEMMA LearnsType ==
  ASSUME DataOK, NEW p \in Procs, NEW pid \in Pids, Learns(p, pid)
  PROVE  right' \in [Procs -> Pids] /\ allPIDs' \in Seq(Pids) /\ group' \in [Procs -> Pids]
  <1>1. Append(allPIDs, pid) \in Seq(Pids)
    BY DEF DataOK
  <1>2. CASE right' = [right EXCEPT ![p] = pid] /\ UNCHANGED <<allPIDs, group>>
    BY <1>2 DEF DataOK
  <1>3. CASE allPIDs' = Append(allPIDs, pid) /\ UNCHANGED <<right, group>>
    BY <1>1, <1>3 DEF DataOK
  <1>4. CASE group' = [group EXCEPT ![p] = pid] /\ UNCHANGED <<right, allPIDs>>
    BY <1>4 DEF DataOK
  <1>. QED
    BY <1>2, <1>3, <1>4 DEF Learns

LEMMA StepType ==
  ASSUME TypeOK, InPlace, NEW p \in Procs, Step(p)
  PROVE  TypeOK' /\ Advance(p) /\ Running(p) /\ UNCHANGED programs
  <1>1. Advance(p) /\ Running(p) /\ UNCHANGED programs
    BY DEF Step, SemOpen, SemUnlink, SemPost, SemWait, RemoveQueue, MsgGet, MsgSnd, MsgRcv, MsgRcvFails,
       SendSignal, ChangeHandler, MaskSignal, UnmaskSignal, Does, At
  <1>2. DataOK
    BY TypeData
  <1>. SUFFICES DataOK'
    BY <1>1, AdvanceType, DataType
  <1> USE DEF signalVars, nameVars, queueVars, knownVars, Does
  <1>3. CASE SemOpen(p)
    <2>1. stale' \in SUBSET Procs
      BY <1>2, <1>3 DEF DataOK, SemOpen
    <2>2. sees' \in [Procs -> [Names -> {0, 1}]]
      BY <1>2, <1>3 DEF DataOK, SemOpen
    <2>. QED
      BY <1>1, <1>2, <1>3, <2>1, <2>2 DEF DataOK, SemOpen
  <1>4. CASE SemUnlink(p)
    <2>1. Now(p).sems \subseteq Names
      BY <1>4, Unlinking DEF SemUnlink
    <2>. QED
      BY <1>1, <1>2, <1>4, <2>1 DEF DataOK, SemUnlink
  <1>5. CASE SemPost(p) \/ SemWait(p)
    <2>1. Now(p).sem \in Names
      BY <1>5, SemOf DEF SemPost, SemWait
    <2>2. sees[p][Now(p).sem] \in {0, 1}
      BY <1>2, <2>1 DEF DataOK
    <2>3. sem' \in [Names -> [{0, 1} -> Nat]]
      <3>1. sem[Now(p).sem] \in [{0, 1} -> Nat]
        BY <1>2, <2>1 DEF DataOK
      <3>2. CASE SemPost(p)
        BY <1>2, <2>1, <2>2, <3>1, <3>2 DEF DataOK, SemPost
      <3>3. CASE SemWait(p)
        <4>1. sem[Now(p).sem][sees[p][Now(p).sem]] - 1 \in Nat
          BY <2>2, <3>1, <3>3 DEF SemWait
        <4>. QED
          BY <1>2, <2>1, <2>2, <3>1, <3>3, <4>1 DEF DataOK, SemWait
      <3>. QED
        BY <1>5, <3>2, <3>3
    <2>. QED
      BY <1>1, <1>2, <1>5, <2>3 DEF DataOK, SemPost, SemWait
  <1>6. CASE RemoveQueue(p) \/ MsgGet(p)
    BY <1>1, <1>2, <1>6 DEF DataOK, RemoveQueue, MsgGet
  <1>7. CASE MsgSnd(p)
    <2>1. Now(p).type \in MsgTypes
      BY <1>7, TypeOf DEF MsgSnd
    <2>2. p \in Pids /\ left[p] \in Pids
      BY <1>2 DEF DataOK, Pids, Procs
    <2>3. queue' \in [{0, 1} -> [MsgTypes -> Seq(Pids)]]
      <3>1. \A pid \in Pids : Append(queue[qid[p]][Now(p).type], pid) \in Seq(Pids)
        BY <1>2, <2>1 DEF DataOK
      <3>. QED
        BY <1>2, <1>7, <2>1, <2>2, <3>1 DEF DataOK, MsgSnd
    <2>. QED
      BY <1>1, <1>2, <1>7, <2>3 DEF DataOK, MsgSnd
  <1>8. ASSUME NEW pid \in Pids, Learns(p, pid)
        PROVE  right' \in [Procs -> Pids] /\ allPIDs' \in Seq(Pids) /\ group' \in [Procs -> Pids]
    BY <1>2, <1>8, LearnsType
  <1>9. CASE MsgRcv(p)
    <2>1. Now(p).type \in MsgTypes
      BY <1>9, TypeOf DEF MsgRcv
    <2>2. queue[qid[p]][Now(p).type] \in Seq(Pids) /\ qid[p] \in {0, 1}
      BY <1>2, <2>1 DEF DataOK
    <2>3. Head(queue[qid[p]][Now(p).type]) \in Pids
      BY <1>9, <2>2 DEF MsgRcv
    <2>4. right' \in [Procs -> Pids] /\ allPIDs' \in Seq(Pids) /\ group' \in [Procs -> Pids]
      BY <1>8, <1>9, <2>3 DEF MsgRcv
    <2>5. Tail(queue[qid[p]][Now(p).type]) \in Seq(Pids)
      BY <1>9, <2>2 DEF MsgRcv
    <2>6. queue' \in [{0, 1} -> [MsgTypes -> Seq(Pids)]]
      BY <1>2, <1>9, <2>1, <2>2, <2>5 DEF DataOK, MsgRcv
    <2>. QED
      BY <1>1, <1>2, <1>9, <2>4, <2>6 DEF DataOK, MsgRcv
  <1>10. CASE MsgRcvFails(p)
    <2>1. right' \in [Procs -> Pids] /\ allPIDs' \in Seq(Pids) /\ group' \in [Procs -> Pids]
      BY <1>8, <1>10 DEF MsgRcvFails, Garbage, Pids
    <2>. QED
      BY <1>1, <1>2, <1>10, <2>1 DEF DataOK, MsgRcvFails
  <1>11. CASE SendSignal(p)
    <2>1. Now(p).sig \in Signals
      BY <1>11, SigOf DEF SendSignal
    <2> DEFINE pid == IF Now(p).to = "right" THEN right[p] ELSE left[p]
               q == IF pid = 0 THEN p ELSE pid
    <2>2. q \in Pids
      BY <1>2 DEF DataOK, Pids, Procs
    <2>3. sends' = Append(sends, [from |-> p, to |-> q, sig |-> Now(p).sig])
      BY <1>11 DEF SendSignal
    <2>4. pending' = IF q \in Procs /\ Running(q) /\ pending[q][Now(p).sig] = 0
                     THEN [pending EXCEPT ![q][Now(p).sig] = p] ELSE pending
      BY <1>11 DEF SendSignal
    <2> HIDE DEF q
    <2>5. sends' \in Seq([from : Procs, to : Pids, sig : Signals])
      BY <1>2, <2>1, <2>2, <2>3 DEF DataOK
    <2>6. pending' \in [Procs -> [Signals -> 0..4]]
      BY <1>2, <2>1, <2>4 DEF DataOK, Procs
    <2>. QED
      BY <1>1, <1>2, <1>11, <2>5, <2>6 DEF DataOK, SendSignal
  <1>12. CASE ChangeHandler(p)
    BY <1>1, <1>2, <1>12 DEF DataOK, ChangeHandler
  <1>13. CASE MaskSignal(p)
    <2>1. Now(p).sig \in Signals
      BY <1>13, SigOf DEF MaskSignal
    <2>. QED
      BY <1>1, <1>2, <1>13, <2>1 DEF DataOK, MaskSignal
  <1>14. CASE UnmaskSignal(p)
    <2>1. Now(p).sig \in Signals
      BY <1>14, SigOf DEF UnmaskSignal
    <2>2. left' \in [Procs -> 0..4] /\ pending' \in [Procs -> [Signals -> 0..4]]
          /\ told' \in [Procs -> Seq({"intro", "left", "right"})]
      BY <1>2, <1>14, <2>1, HandleType DEF DataOK, UnmaskSignal
    <2>. QED
      BY <1>1, <1>2, <1>14, <2>1, <2>2 DEF DataOK, UnmaskSignal
  <1>. QED
    BY <1>3, <1>4, <1>5, <1>6, <1>7, <1>9, <1>10, <1>11, <1>12, <1>13, <1>14 DEF Step

LEMMA InterruptType ==
  ASSUME TypeOK, InPlace, NEW p \in Procs, NEW s \in Signals, Deliver(p, s), UNCHANGED programs
  PROVE  TypeOK' /\ Running(p) /\ (Advance(p) \/ UNCHANGED progressVars)
  <1>1. Running(p) /\ (Advance(p) \/ UNCHANGED progressVars)
    BY DEF Deliver, Deliverable
  <1>2. DataOK
    BY TypeData
  <1>3. DataOK'
    <2>1. left' \in [Procs -> 0..4] /\ pending' \in [Procs -> [Signals -> 0..4]]
          /\ told' \in [Procs -> Seq({"intro", "left", "right"})]
      BY <1>2, HandleType DEF Deliver
    <2>2. right' \in [Procs -> Pids] /\ allPIDs' \in Seq(Pids) /\ group' \in [Procs -> Pids]
      <3>1. CASE UNCHANGED knownVars
        BY <1>2, <3>1 DEF DataOK, knownVars
      <3>2. CASE \E pid \in Garbage : Learns(p, pid)
        BY <1>2, <3>2, LearnsType DEF Garbage, Pids
      <3>. QED
        BY <3>1, <3>2 DEF Deliver
    <2>. QED
      BY <1>2, <2>1, <2>2 DEF DataOK, Deliver, nameVars, queueVars
  <1>4. CASE Advance(p)
    BY <1>1, <1>3, <1>4, AdvanceType, DataType
  <1>5. CASE UNCHANGED progressVars
    <2>1. Program' = Program
      BY DEF Program, grouped
    <2>2. /\ phase \in [Procs -> {"off", "meet", "forward", "turn", "back", "done"}]
          /\ at \in [Procs -> Nat \ {0}] /\ i \in [Procs -> 0..Rounds - 1]
          /\ \A q \in Procs : Running(q) => at[q] <= Len(Program[q][phase[q]])
      BY DEF TypeOK
    <2>3. phase' = phase /\ at' = at /\ i' = i
      BY <1>5 DEF progressVars
    <2>4. \A q \in Procs : Running(q)' => at'[q] <= Len(Program'[q][phase'[q]])
      BY <2>1, <2>2, <2>3 DEF Running
    <2>5. /\ phase' \in [Procs -> {"off", "meet", "forward", "turn", "back", "done"}]
          /\ at' \in [Procs -> Nat \ {0}] /\ i' \in [Procs -> 0..Rounds - 1]
      BY <2>2, <2>3
    <2>. QED
      BY <1>1, <1>3, <2>4, <2>5, DataType
  <1>. QED
    BY <1>1, <1>4, <1>5

LEMMA LaunchType ==
  ASSUME TypeOK, InPlace, NEW p \in Procs, Launch(p)
  PROVE  TypeOK' /\ InPlace' /\ UNCHANGED <<programs, Data>>
         /\ phase[p] = "off" /\ phase' = [phase EXCEPT ![p] = "meet"] /\ at' = at /\ i' = i
  <1>1. /\ phase[p] = "off" /\ phase' = [phase EXCEPT ![p] = "meet"] /\ at' = at /\ i' = i
        /\ UNCHANGED <<programs, Data>>
    BY DEF Launch, Data, signalVars, nameVars, queueVars, knownVars
  <1>2. DataOK'
    BY <1>1, TypeData DEF DataOK, Data
  <1>3. /\ phase \in [Procs -> {"off", "meet", "forward", "turn", "back", "done"}]
        /\ at \in [Procs -> Nat \ {0}] /\ i \in [Procs -> 0..Rounds - 1]
        /\ \A q \in Procs : Running(q) => at[q] <= Len(Program[q][phase[q]])
    BY DEF TypeOK
  <1>4. Program' = Program
    BY <1>1 DEF Program, grouped
  <1>5. at[p] = 1 /\ Len(Program[p]["meet"]) >= 1
    <2>1. p \in {1, 2, 3, 4}
      BY DEF Procs
    <2>2. at[p] = 1
      BY <1>1 DEF InPlace
    <2>3. \A n \in {8, 10, 13, 16, 17} : n >= 1
      OBVIOUS
    <2>4. CASE grouped
      BY <2>1, <2>2, <2>3, <2>4, Group1, Group2, Group3, Group4, Zenon
    <2>5. CASE ~grouped
      BY <2>1, <2>2, <2>3, <2>5, Meet1, Meet2, Meet3, Meet4, Zenon
    <2>. QED
      BY <2>4, <2>5
  <1>6. \A q \in Procs : Running(q)' => at'[q] <= Len(Program'[q][phase'[q]])
    <2>. SUFFICES ASSUME NEW q \in Procs, Running(q)'
                 PROVE  at[q] <= Len(Program[q][phase'[q]])
      BY <1>1, <1>4
    <2>1. CASE q = p
      BY <1>1, <1>3, <1>5, <2>1, Zenon
    <2>2. CASE q # p
      <3>1. phase'[q] = phase[q]
        BY <1>1, <1>3, <2>2
      <3>. QED
        BY <1>3, <3>1 DEF Running
    <2>. QED
      BY <2>1, <2>2
  <1>7. InPlace'
    BY <1>1, <1>3 DEF InPlace, grouped
  <1>. QED
    BY <1>1, <1>2, <1>3, <1>6, <1>7, DataType

LEMMA TypeInit == Init => TypeOK /\ InPlace
  <1>. SUFFICES ASSUME Init
               PROVE  TypeOK /\ InPlace
    OBVIOUS
  <1>1. DataOK
    <2>1. Rounds \in Nat /\ 0 \in Pids /\ Nobody \in Pids
      BY RingAssumption DEF Pids
    <2>2. sem \in [Names -> [{0, 1} -> Nat]]
      BY DEF Init
    <2>3. queue \in [{0, 1} -> [MsgTypes -> Seq(Pids)]]
      BY <2>1 DEF Init
    <2>. QED
      BY <2>1, <2>2, <2>3 DEF Init, DataOK
  <1>2. 0 \in 0..Rounds - 1
    BY RingAssumption
  <1>. QED
    BY <1>1, <1>2 DEF Init, InPlace, TypeOK, DataOK, Running


-----------------------------------------------------------------------------
(* Masks, handlers and what P2 has cleaned up *)

MaskedAt(p) ==
    /\ handler[p] = "circularHandler" <=> Done(p, "change") = 1
    /\ "USR1" \in mask[p]
          <=> Done(p, "mask0") + Done(p, "mask1") > Done(p, "unmask0") + Done(p, "unmask1")
    /\ "USR2" \in mask[p]
          <=> Done(p, "block") + Done(p, "mask2") > Done(p, "unmask2")

Masked == \A p \in Procs : MaskedAt(p)

CleanedUp ==
    /\ Done(2, "unlink") = 1 => unlinked = Names
    /\ current = 1 <=> Done(2, "remove") = 1

PlaceInv == TypeOK /\ InPlace /\ Masked /\ CleanedUp

LEMMA OrderAfter == (TypeOK /\ InPlace => \A p \in Procs : Ordered(p))'
  BY Order, PTL

\* p makes call c, and nothing else happens to the programs.
Moves(p, c) ==
    \A q \in Procs, d \in Calls :
        Done(q, d)' = IF q = p /\ d = c THEN Done(q, d) + 1 ELSE Done(q, d)

LEMMA Moving ==
  ASSUME TypeOK, InPlace, NEW p \in Procs, Running(p), Advance(p), UNCHANGED programs
  PROVE  InPlace' /\ \A c \in Calls : AtCall(p, c) => Moves(p, c)
  BY DoneStep, OneCall, PlaceType DEF Moves

\* The four actions of a process that only change its place, by the call they make.
LEMMA StepCall ==
  ASSUME TypeOK, InPlace, NEW p \in Procs, Step(p)
  PROVE  /\ TypeOK' /\ InPlace'
         /\ \E c \in Calls : AtCall(p, c) /\ Moves(p, c) /\ Now(p) = Meaning(p, c)
  BY StepType, Moving, Named

\* A signal is blocked once at a time, and not twice.
MaskOrder1(p) ==
    LET m1 == Done(p, "mask0") + Done(p, "mask1")
        u1 == Done(p, "unmask0") + Done(p, "unmask1")
        m2 == Done(p, "block") + Done(p, "mask2")
        u2 == Done(p, "unmask2")
    IN  /\ Done(p, "mask0") \in Nat /\ Done(p, "mask1") \in Nat /\ Done(p, "unmask0") \in Nat
        /\ Done(p, "unmask1") \in Nat /\ Done(p, "block") \in Nat /\ Done(p, "mask2") \in Nat
        /\ Done(p, "unmask2") \in Nat
        /\ u1 <= m1 /\ m1 <= u1 + 1 /\ u2 <= m2 /\ m2 <= u2 + 1
        /\ Done(p, "change") \in {0, 1}

LEMMA MaskOrder == \A p \in Procs : Ordered(p) => MaskOrder1(p)
  <1>. SUFFICES ASSUME NEW p \in Procs, Ordered(p)
               PROVE  MaskOrder1(p)
    OBVIOUS
  <1>1. CASE grouped
    BY <1>1 DEF Ordered, MeetingOrder, Atmost1, ForwardOrder, BackOrder, GroupOrder, MaskOrder1
  <1>2. CASE ~grouped
    BY <1>2 DEF Ordered, MeetingOrder, Atmost1, ForwardOrder, BackOrder, RingOrder, MaskOrder1
  <1>. QED
    BY <1>1, <1>2

LEMMA MaskOrderAfter == (\A p \in Procs : Ordered(p) => MaskOrder1(p))'
  BY MaskOrder, PTL

-----------------------------------------------------------------------------
(* The invariant of every start, clean or not *)

\* What an action other than those on signals leaves of what the calls of p decide.
LEMMA OtherCall ==
  ASSUME TypeOK, InPlace, NEW p \in Procs, Running(p),
         ~At(p, "mask"), ~At(p, "unmask"), ~At(p, "change"),
         NEW c \in {"block", "mask0", "mask1", "mask2", "unmask0", "unmask1", "unmask2", "change"}
  PROVE  ~AtCall(p, c)
  <1>1. PICK d \in Calls : AtCall(p, d) /\ Now(p) = Meaning(p, d)
    BY Named
  <1>2. d \notin {"block", "mask0", "mask1", "mask2", "unmask0", "unmask1", "unmask2", "change"}
    BY <1>1, OpOf DEF At
  <1>3. c \in Calls /\ at[p] \in Nat \ {0}
    BY DEF Calls, TypeOK
  <1>. QED
    BY <1>1, <1>2, <1>3, OneCall

\* The masks and the handler of a process whose calls on signals do not change.
LEMMA MaskedSame ==
  ASSUME NEW q \in Procs, MaskedAt(q), handler'[q] = handler[q], mask'[q] = mask[q],
         \A d \in {"block", "mask0", "mask1", "mask2", "unmask0", "unmask1", "unmask2", "change"} :
             Done(q, d)' = Done(q, d)
  PROVE  MaskedAt(q)'
  BY DEF MaskedAt

LEMMA MaskedStep ==
  ASSUME PlaceInv, NEW p \in Procs, Step(p)
  PROVE  Masked'
  <1>1. TypeOK /\ InPlace /\ Masked
    BY DEF PlaceInv
  <1>2. PICK c \in Calls : AtCall(p, c) /\ Moves(p, c) /\ Now(p) = Meaning(p, c)
    BY <1>1, StepCall
  <1>3. TypeOK' /\ InPlace' /\ Running(p)
    BY <1>1, StepCall, StepType
  <1>4. Ordered(p) /\ Ordered(p)'
    BY <1>1, <1>3, Order, OrderAfter
  <1>5. /\ handler \in [Procs -> {"initHandler", "circularHandler"}]
        /\ mask \in [Procs -> SUBSET Signals]
    BY <1>1 DEF TypeOK
  <1>6. MaskedAt(p)
    BY <1>1 DEF Masked
  <1>7. ASSUME NEW q \in Procs, q # p
        PROVE  MaskedAt(q)'
    <2>1. handler'[q] = handler[q] /\ mask'[q] = mask[q]
      BY <1>5, <1>7 DEF Step, SemOpen, SemUnlink, SemPost, SemWait, RemoveQueue, MsgGet, MsgSnd,
         MsgRcv, MsgRcvFails, SendSignal, ChangeHandler, MaskSignal, UnmaskSignal, signalVars
    <2>2. \A d \in Calls : Done(q, d)' = Done(q, d)
      BY <1>2, <1>7 DEF Moves
    <2>. QED
      BY <1>1, <2>1, <2>2, MaskedSame DEF Masked, Calls
  <1>8. MaskedAt(p)'
    <2> DEFINE S == {"block", "mask0", "mask1", "mask2", "unmask0", "unmask1", "unmask2", "change"}
    <2>1. CASE ChangeHandler(p)
      <3>1. c = "change"
        BY <1>1, <1>2, <2>1, Changing, OneCall DEF ChangeHandler, Does, TypeOK, Calls
      <3>2. handler'[p] = "circularHandler" /\ mask' = mask
        BY <1>5, <2>1 DEF ChangeHandler
      <3>3. \A d \in S : Done(p, d)' = IF d = "change" THEN Done(p, d) + 1 ELSE Done(p, d)
        BY <1>2, <3>1 DEF Moves, Calls
      <3>. QED
        BY <1>3, <1>4, <1>6, <3>2, <3>3, MaskOrder, MaskOrderAfter DEF MaskedAt, MaskOrder1
    <2>2. CASE MaskSignal(p)
      <3>1. handler' = handler
        BY <2>2 DEF MaskSignal
      <3>2. MaskOrder1(p) /\ MaskOrder1(p)'
        BY <1>4, MaskOrder, MaskOrderAfter
      <3>3. \A d \in S : Done(p, d)' = IF d = c THEN Done(p, d) + 1 ELSE Done(p, d)
        BY <1>2 DEF Moves, Calls
      <3>4. mask'[p] = mask[p] \cup {Now(p).sig}
        BY <1>5, <2>2 DEF MaskSignal
      <3>5. at[p] \in Nat \ {0} /\ At(p, "mask")
        BY <1>1, <2>2 DEF MaskSignal, Does, TypeOK
      <3>6. CASE AtCall(p, "block") /\ Now(p) = Mask("USR2")
        <4>1. c = "block"
          BY <1>2, <3>5, <3>6, OneCall DEF Calls
        <4>2. mask'[p] = mask[p] \cup {"USR2"}
          BY <3>4, <3>6 DEF Mask
        <4>3. \A d \in S : Done(p, d)' = IF d = "block" THEN Done(p, d) + 1 ELSE Done(p, d)
          BY <3>3, <4>1
        <4>4. "USR2" \in mask'[p] /\ ("USR1" \in mask'[p] <=> "USR1" \in mask[p])
          BY <4>2
        <4>. QED
          BY <1>6, <3>1, <3>2, <4>3, <4>4 DEF MaskedAt, MaskOrder1
      <3>7. CASE AtCall(p, "mask0") /\ Now(p) = Mask("USR1")
        <4>1. c = "mask0"
          BY <1>2, <3>5, <3>7, OneCall DEF Calls
        <4>2. mask'[p] = mask[p] \cup {"USR1"}
          BY <3>4, <3>7 DEF Mask
        <4>3. \A d \in S : Done(p, d)' = IF d = "mask0" THEN Done(p, d) + 1 ELSE Done(p, d)
          BY <3>3, <4>1
        <4>4. "USR1" \in mask'[p] /\ ("USR2" \in mask'[p] <=> "USR2" \in mask[p])
          BY <4>2
        <4>. QED
          BY <1>6, <3>1, <3>2, <4>3, <4>4 DEF MaskedAt, MaskOrder1
      <3>8. CASE AtCall(p, "mask1") /\ Now(p) = Mask("USR1")
        <4>1. c = "mask1"
          BY <1>2, <3>5, <3>8, OneCall DEF Calls
        <4>2. mask'[p] = mask[p] \cup {"USR1"}
          BY <3>4, <3>8 DEF Mask
        <4>3. \A d \in S : Done(p, d)' = IF d = "mask1" THEN Done(p, d) + 1 ELSE Done(p, d)
          BY <3>3, <4>1
        <4>4. "USR1" \in mask'[p] /\ ("USR2" \in mask'[p] <=> "USR2" \in mask[p])
          BY <4>2
        <4>. QED
          BY <1>6, <3>1, <3>2, <4>3, <4>4 DEF MaskedAt, MaskOrder1
      <3>9. CASE AtCall(p, "mask2") /\ Now(p) = Mask("USR2")
        <4>1. c = "mask2"
          BY <1>2, <3>5, <3>9, OneCall DEF Calls
        <4>2. mask'[p] = mask[p] \cup {"USR2"}
          BY <3>4, <3>9 DEF Mask
        <4>3. \A d \in S : Done(p, d)' = IF d = "mask2" THEN Done(p, d) + 1 ELSE Done(p, d)
          BY <3>3, <4>1
        <4>4. "USR2" \in mask'[p] /\ ("USR1" \in mask'[p] <=> "USR1" \in mask[p])
          BY <4>2
        <4>. QED
          BY <1>6, <3>1, <3>2, <4>3, <4>4 DEF MaskedAt, MaskOrder1
      <3>. QED
        BY <1>1, <3>5, <3>6, <3>7, <3>8, <3>9, Masking
    <2>4. CASE UnmaskSignal(p)
      <3>1. handler' = handler
        BY <2>4 DEF UnmaskSignal
      <3>2. MaskOrder1(p) /\ MaskOrder1(p)'
        BY <1>4, MaskOrder, MaskOrderAfter
      <3>3. \A d \in S : Done(p, d)' = IF d = c THEN Done(p, d) + 1 ELSE Done(p, d)
        BY <1>2 DEF Moves, Calls
      <3>4. mask'[p] = mask[p] \ {Now(p).sig}
        BY <1>5, <2>4 DEF UnmaskSignal
      <3>5. at[p] \in Nat \ {0} /\ At(p, "unmask")
        BY <1>1, <2>4 DEF UnmaskSignal, Does, TypeOK
      <3>6. CASE AtCall(p, "unmask0") /\ Now(p) = Unmask("USR1")
        <4>1. c = "unmask0"
          BY <1>2, <3>5, <3>6, OneCall DEF Calls
        <4>2. mask'[p] = mask[p] \ {"USR1"}
          BY <3>4, <3>6 DEF Unmask
        <4>3. \A d \in S : Done(p, d)' = IF d = "unmask0" THEN Done(p, d) + 1 ELSE Done(p, d)
          BY <3>3, <4>1
        <4>4. "USR1" \notin mask'[p] /\ ("USR2" \in mask'[p] <=> "USR2" \in mask[p])
          BY <4>2
        <4>. QED
          BY <1>6, <3>1, <3>2, <4>3, <4>4 DEF MaskedAt, MaskOrder1
      <3>7. CASE AtCall(p, "unmask1") /\ Now(p) = Unmask("USR1")
        <4>1. c = "unmask1"
          BY <1>2, <3>5, <3>7, OneCall DEF Calls
        <4>2. mask'[p] = mask[p] \ {"USR1"}
          BY <3>4, <3>7 DEF Unmask
        <4>3. \A d \in S : Done(p, d)' = IF d = "unmask1" THEN Done(p, d) + 1 ELSE Done(p, d)
          BY <3>3, <4>1
        <4>4. "USR1" \notin mask'[p] /\ ("USR2" \in mask'[p] <=> "USR2" \in mask[p])
          BY <4>2
        <4>. QED
          BY <1>6, <3>1, <3>2, <4>3, <4>4 DEF MaskedAt, MaskOrder1
      <3>8. CASE AtCall(p, "unmask2") /\ Now(p) = Unmask("USR2")
        <4>1. c = "unmask2"
          BY <1>2, <3>5, <3>8, OneCall DEF Calls
        <4>2. mask'[p] = mask[p] \ {"USR2"}
          BY <3>4, <3>8 DEF Unmask
        <4>3. \A d \in S : Done(p, d)' = IF d = "unmask2" THEN Done(p, d) + 1 ELSE Done(p, d)
          BY <3>3, <4>1
        <4>4. "USR2" \notin mask'[p] /\ ("USR1" \in mask'[p] <=> "USR1" \in mask[p])
          BY <4>2
        <4>. QED
          BY <1>6, <3>1, <3>2, <4>3, <4>4 DEF MaskedAt, MaskOrder1
      <3>. QED
        BY <1>1, <3>5, <3>6, <3>7, <3>8, Unmasking
    <2>3. CASE ~ChangeHandler(p) /\ ~MaskSignal(p) /\ ~UnmaskSignal(p)
      <3>1. ~At(p, "mask") /\ ~At(p, "unmask") /\ ~At(p, "change")
        BY <2>3 DEF Step, SemOpen, SemUnlink, SemPost, SemWait, RemoveQueue, MsgGet, MsgSnd,
           MsgRcv, MsgRcvFails, SendSignal, Does, At
      <3>2. c \notin S
        BY <1>1, <1>2, <1>3, <3>1, OtherCall
      <3>3. \A d \in S : Done(p, d)' = Done(p, d)
        BY <1>2, <3>2 DEF Moves, Calls
      <3>4. handler' = handler /\ mask' = mask
        BY <2>3 DEF Step, SemOpen, SemUnlink, SemPost, SemWait, RemoveQueue, MsgGet, MsgSnd,
           MsgRcv, MsgRcvFails, SendSignal, signalVars
      <3>. QED
        BY <1>6, <3>3, <3>4, MaskedSame
    <2>. QED
      BY <2>1, <2>2, <2>3, <2>4
  <1>. QED
    BY <1>7, <1>8 DEF Masked

\* Nobody makes a call.
Stays == \A q \in Procs, d \in Calls : Done(q, d)' = Done(q, d)

LEMMA StandStill ==
  ASSUME UNCHANGED <<programs, progressVars>>
  PROVE  Stays /\ (InPlace => InPlace')
  <1>1. (grouped' <=> grouped) /\ phase' = phase /\ at' = at /\ i' = i
    BY DEF grouped, progressVars
  <1>2. \A q \in Procs, c \in Calls : Index(q, c)' = Index(q, c)
    BY <1>1 DEF Index
  <1>3. Stays
    BY <1>1, <1>2 DEF Stays, Done
  <1>4. InPlace => InPlace'
    BY <1>1 DEF InPlace
  <1>. QED
    BY <1>3, <1>4

\* A process that is started has made no call.
LEMMA StartsOff ==
  ASSUME TypeOK, InPlace, NEW p \in Procs, Launch(p)
  PROVE  Stays
  <1>1. /\ phase[p] = "off" /\ phase' = [phase EXCEPT ![p] = "meet"] /\ at' = at /\ i' = i
        /\ UNCHANGED programs
    BY LaunchType
  <1>2. \A q \in Procs, c \in Calls : Index(q, c)' = Index(q, c)
    BY <1>1 DEF Index, grouped
  <1>3. phase \in [Procs -> {"off", "meet", "forward", "turn", "back", "done"}]
    BY DEF TypeOK
  <1>4. at[p] = 1 /\ i[p] = 0
    BY <1>1 DEF InPlace
  <1>5. ASSUME NEW q \in Procs, NEW d \in Calls
        PROVE  Done(q, d)' = Done(q, d)
    <2>1. CASE q # p
      <3>1. phase'[q] = phase[q]
        BY <1>1, <1>3, <2>1
      <3>. QED
        BY <1>1, <1>2, <3>1 DEF Done
    <2>2. CASE q = p
      <3>1. phase'[p] = "meet"
        BY <1>1, <1>3
      <3>2. Index(p, d) \in Nat /\ Part(d) \in {"meet", "forward", "turn", "back"}
        BY Indexed
      <3>3. Done(p, d) = 0
        BY <1>1, <3>2 DEF Done, Later
      <3>4. Done(p, d)' = 0
        BY <1>1, <1>2, <1>4, <3>1, <3>2 DEF Done, Later
      <3>. QED
        BY <2>2, <3>3, <3>4
    <2>. QED
      BY <2>1, <2>2
  <1>. QED
    BY <1>5 DEF Stays

LEMMA MaskedInterrupt ==
  ASSUME PlaceInv, NEW p \in Procs, NEW s \in Signals, Deliver(p, s), UNCHANGED programs
  PROVE  TypeOK' /\ InPlace' /\ Masked'
  <1>1. TypeOK /\ InPlace /\ Masked
    BY DEF PlaceInv
  <1>2. TypeOK' /\ Running(p) /\ handler' = handler /\ mask' = mask
    BY <1>1, InterruptType DEF Deliver
  <1>3. CASE UNCHANGED progressVars
    <2>1. Stays /\ InPlace'
      BY <1>1, <1>3, StandStill
    <2>. QED
      BY <1>1, <1>2, <2>1, MaskedSame DEF Stays, Masked, Calls
  <1>4. CASE Advance(p) /\ (At(p, "wait") \/ At(p, "receive"))
    <2>1. PICK c \in Calls : AtCall(p, c)
      BY <1>1, <1>2, Named
    <2>2. InPlace' /\ Moves(p, c)
      BY <1>1, <1>2, <1>4, <2>1, Moving
    <2>3. ~At(p, "mask") /\ ~At(p, "unmask") /\ ~At(p, "change")
      BY <1>4 DEF At
    <2>4. c \notin {"block", "mask0", "mask1", "mask2", "unmask0", "unmask1", "unmask2", "change"}
      BY <1>1, <1>2, <2>1, <2>3, OtherCall
    <2>. QED
      BY <1>1, <1>2, <2>2, <2>4, MaskedSame DEF Moves, Masked, Calls
  <1>. QED
    BY <1>3, <1>4 DEF Deliver

LEMMA MaskedLaunch ==
  ASSUME PlaceInv, NEW p \in Procs, Launch(p)
  PROVE  PlaceInv'
  <1>1. TypeOK /\ InPlace /\ Masked /\ CleanedUp
    BY DEF PlaceInv
  <1>2. TypeOK' /\ InPlace' /\ UNCHANGED <<programs, Data>> /\ Stays
    BY <1>1, LaunchType, StartsOff
  <1>3. handler' = handler /\ mask' = mask /\ current' = current /\ unlinked' = unlinked
    BY <1>2 DEF Data
  <1>4. Masked'
    BY <1>1, <1>2, <1>3, MaskedSame DEF Stays, Masked, Calls
  <1>5. CleanedUp'
    <2>1. "unlink" \in Calls /\ "remove" \in Calls /\ 2 \in Procs
      BY DEF Calls, Procs
    <2>. QED
      BY <1>1, <1>2, <1>3, <2>1 DEF Stays, CleanedUp
  <1>. QED
    BY <1>2, <1>4, <1>5 DEF PlaceInv

\* Only the calls of P2 that clean up change what is cleaned up.
LEMMA CleanedUpAfter ==
  ASSUME PlaceInv, NEW p \in Procs, NEW c \in Calls, AtCall(p, c), Moves(p, c), TypeOK', InPlace',
         \/ c = "unlink" /\ unlinked' = Names /\ current' = current
         \/ c = "remove" /\ unlinked' = unlinked /\ current' = 1
         \/ c \notin {"unlink", "remove"} /\ unlinked' = unlinked /\ current' = current
  PROVE  CleanedUp'
  <1>1. TypeOK /\ InPlace /\ CleanedUp
    BY DEF PlaceInv
  <1>2. c \in {"unlink", "remove"} => p = 2
    BY <1>1, Whose
  <1>3. 2 \in Procs /\ "unlink" \in Calls /\ "remove" \in Calls
    BY DEF Procs, Calls
  <1>4. /\ Done(2, "unlink") \in {0, 1} /\ Done(2, "remove") \in {0, 1}
        /\ Done(2, "unlink")' \in {0, 1} /\ Done(2, "remove")' \in {0, 1}
    BY <1>1, <1>3, Order, OrderAfter DEF Ordered, MeetingOrder, Atmost1
  <1>5. /\ Done(2, "unlink")' = IF p = 2 /\ c = "unlink" THEN Done(2, "unlink") + 1 ELSE Done(2, "unlink")
        /\ Done(2, "remove")' = IF p = 2 /\ c = "remove" THEN Done(2, "remove") + 1 ELSE Done(2, "remove")
    BY <1>3 DEF Moves
  <1>. QED
    BY <1>1, <1>2, <1>4, <1>5 DEF CleanedUp

LEMMA PlaceStep ==
  ASSUME PlaceInv, NEW p \in Procs, Step(p)
  PROVE  PlaceInv'
  <1>1. TypeOK /\ InPlace
    BY DEF PlaceInv
  <1>2. PICK c \in Calls : AtCall(p, c) /\ Moves(p, c) /\ Now(p) = Meaning(p, c)
    BY <1>1, StepCall
  <1>3. TypeOK' /\ InPlace' /\ Masked'
    BY <1>1, StepCall, MaskedStep
  <1>4. at[p] \in Nat \ {0} /\ "unlink" \in Calls /\ "remove" \in Calls /\ unlinked \in SUBSET Names
    BY <1>1 DEF TypeOK, Calls
  <1>5. CASE SemUnlink(p)
    <2>1. c = "unlink" /\ Now(p).sems = Names
      BY <1>1, <1>2, <1>4, <1>5, Unlinking, OneCall DEF SemUnlink, Does
    <2>2. unlinked' = Names /\ current' = current
      BY <1>4, <1>5, <2>1 DEF SemUnlink, queueVars
    <2>. QED
      BY <1>2, <1>3, <2>1, <2>2, CleanedUpAfter DEF PlaceInv
  <1>6. CASE RemoveQueue(p)
    <2>1. c = "remove"
      BY <1>1, <1>2, <1>4, <1>6, Removing, OneCall DEF RemoveQueue, Does
    <2>2. unlinked' = unlinked /\ current' = 1
      BY <1>6 DEF RemoveQueue, nameVars
    <2>. QED
      BY <1>2, <1>3, <2>1, <2>2, CleanedUpAfter DEF PlaceInv
  <1>7. CASE ~SemUnlink(p) /\ ~RemoveQueue(p)
    <2>1. unlinked' = unlinked /\ current' = current /\ ~At(p, "unlink") /\ ~At(p, "remove")
      BY <1>7 DEF Step, SemOpen, SemPost, SemWait, MsgGet, MsgSnd, MsgRcv, MsgRcvFails, SendSignal,
         ChangeHandler, MaskSignal, UnmaskSignal, Does, At, nameVars, queueVars
    <2>2. Running(p)
      BY <1>1, StepType
    <2>3. c \notin {"unlink", "remove"}
      BY <1>2, <2>1, <2>2, OpOf DEF At
    <2>. QED
      BY <1>2, <1>3, <2>1, <2>3, CleanedUpAfter DEF PlaceInv
  <1>. QED
    BY <1>5, <1>6, <1>7

LEMMA PlaceInterrupt ==
  ASSUME PlaceInv, NEW p \in Procs, NEW s \in Signals, Deliver(p, s), UNCHANGED programs
  PROVE  PlaceInv'
  <1>1. TypeOK /\ InPlace /\ CleanedUp
    BY DEF PlaceInv
  <1>2. TypeOK' /\ InPlace' /\ Masked'
    BY MaskedInterrupt
  <1>3. unlinked' = unlinked /\ current' = current
    BY DEF Deliver, nameVars, queueVars
  <1>4. CASE UNCHANGED progressVars
    <2>1. Stays /\ 2 \in Procs /\ "unlink" \in Calls /\ "remove" \in Calls
      BY <1>4, StandStill DEF Procs, Calls
    <2>. QED
      BY <1>1, <1>2, <1>3, <2>1 DEF Stays, CleanedUp, PlaceInv
  <1>5. CASE Advance(p) /\ (At(p, "wait") \/ At(p, "receive"))
    <2>1. PICK c \in Calls : AtCall(p, c) /\ Now(p) = Meaning(p, c)
      BY <1>1, <1>5, Named DEF At
    <2>2. Moves(p, c)
      BY <1>1, <1>5, <2>1, Moving DEF At
    <2>3. c \notin {"unlink", "remove"}
      BY <1>5, <2>1, OpOf DEF At
    <2>. QED
      BY <1>2, <1>3, <2>1, <2>2, <2>3, CleanedUpAfter DEF PlaceInv
  <1>. QED
    BY <1>4, <1>5 DEF Deliver

LEMMA PlaceInit == Init => PlaceInv
  <1>. SUFFICES ASSUME Init
               PROVE  PlaceInv
    OBVIOUS
  <1>1. TypeOK /\ InPlace
    BY TypeInit
  <1>2. \A p \in Procs, c \in Calls : Done(p, c) = 0
    <2>. SUFFICES ASSUME NEW p \in Procs, NEW c \in Calls
                 PROVE  Done(p, c) = 0
      OBVIOUS
    <2>1. Part(c) \in {"meet", "forward", "turn", "back"} /\ phase[p] = "off"
      BY Indexed DEF Init
    <2>. QED
      BY <2>1 DEF Done, Later
  <1>3. Masked
    BY <1>2 DEF Init, Masked, MaskedAt, Calls
  <1>4. CleanedUp
    BY <1>2 DEF Init, CleanedUp, Calls, Procs
  <1>. QED
    BY <1>1, <1>3, <1>4 DEF PlaceInv

LEMMA PlaceNext == PlaceInv /\ [Next]_vars => PlaceInv'
  <1>. SUFFICES ASSUME PlaceInv, [Next]_vars
               PROVE  PlaceInv'
    OBVIOUS
  <1>1. ASSUME NEW p \in Procs, Launch(p)
        PROVE  PlaceInv'
    BY <1>1, MaskedLaunch
  <1>2. ASSUME NEW p \in Procs, Step(p)
        PROVE  PlaceInv'
    BY <1>2, PlaceStep
  <1>3. ASSUME NEW p \in Procs, Interrupt(p)
        PROVE  PlaceInv'
    BY <1>3, PlaceInterrupt DEF Interrupt
  <1>4. CASE UNCHANGED vars
    <2>1. UNCHANGED <<programs, phase, at, i, Data>>
      BY <1>4 DEF vars, progressVars, signalVars, nameVars, queueVars, knownVars, Data
    <2>2. TypeOK /\ InPlace /\ Masked /\ CleanedUp
      BY DEF PlaceInv
    <2>3. Stays /\ InPlace'
      BY <2>1, <2>2, StandStill DEF progressVars
    <2>4. TypeOK'
      BY <2>1, <2>2 DEF Data, TypeOK, Running, Program, grouped
    <2>5. Masked'
      BY <2>1, <2>2, <2>3, MaskedSame DEF Data, Stays, Masked, Calls
    <2>6. CleanedUp'
      BY <2>1, <2>2, <2>3 DEF Data, Stays, CleanedUp, Calls, Procs
    <2>. QED
      BY <2>3, <2>4, <2>5, <2>6 DEF PlaceInv
  <1>. QED
    BY <1>1, <1>2, <1>3, <1>4 DEF Next

THEOREM SignalPlaces == Spec => []PlaceInv
  BY PlaceInit, PlaceNext, PTL DEF Spec

\* Every variable of the rings keeps its type, and no process runs past the end of a part of
\* its program, for any number of turns and however the programs are started.
THEOREM SignalTypeCorrect == Spec => []TypeOK
  <1>1. PlaceInv => TypeOK
    BY DEF PlaceInv
  <1>. QED
    BY <1>1, SignalPlaces, PTL

-----------------------------------------------------------------------------
(* The invariant of a clean start *)

Left(p) == getPreviousProcess(p)
Right(p) == getNextProcess(p)

\* The signals p has sent each way, those sent to it, and those it must have
\* handled to be where it is.
ToRight(p) == Done(p, "meet") + Done(p, "kill1")
ToLeft(p) == Done(p, "kill2")
Signalled(p) == ToRight(Left(p)) + ToLeft(Right(p))
Known(p) == IF grouped THEN Done(p, "unmask0") ELSE Done(p, "take")
Heard(p) == Known(p) + Done(p, "unmask1") + Done(p, "unmask2")

\* Everybody has the new semaphores and the new queue.
NewestAt(p) ==
    /\ \A q \in Neighbours(p) :
          /\ Done(p, "open") = 1 => sees[p][<<q, 0>>] = 1
          /\ Done(p, "open1") = 1 => sees[p][<<q, 1>>] = 1
          /\ Done(p, "open2") = 1 => sees[p][<<q, 2>>] = 1
    /\ Done(p, "get") = 1 => qid[p] = 1 /\ current = 1

\* A semaphore is what was posted and not taken.  The first one may stay up, when
\* the signal ended the wait for it.
CountedAt(p) ==
    /\ sem[<<p, 1>>][1] = Done(p, "post1") - Done(Right(p), "wait1")
    /\ sem[<<p, 2>>][1] = Done(p, "post2") - Done(Left(p), "wait2")
    /\ sem[<<p, 0>>][1] > 0 => Done(Left(p), "wake") = 1
    /\ Done(p, "take") <= Done(Left(p), "meet")

\* Who has put the pid of its right neighbour into the queue for p.
Announced(p) == IF p = 4 THEN Done(2, "close") ELSE Done(Right(p), "introduce")

\* The discovery: what is in the queue is what was put there and not taken.  Type p
\* carries the pid of p for its left neighbour, and later the id of the group for p.
Told(p) == IF p = 2 THEN Done(1, "tell2") ELSE IF p = 3 THEN Done(1, "tell3") ELSE Done(1, "tell4")

Waiting1 == IF Done(2, "close") = 1 /\ Done(4, "learn") = 0 THEN <<1>> ELSE <<>>

WaitingFor(p) ==
    IF Done(p, "introduce") = 1 /\ Done(Left(p), "learn") = 0 THEN <<p>>
    ELSE IF Told(p) = 1 /\ Done(p, "join") = 0 THEN <<1>> ELSE <<>>

InQueueAt(p) ==
    /\ queue[1][p] = IF p = 1 THEN Waiting1 ELSE WaitingFor(p)
    /\ Done(p, "learn") <= Announced(p)
    /\ Done(p, "learn") = 1 => right[p] = Right(p)
    /\ p # 1 /\ Done(p, "join") = 1 => group[p] = 1
    /\ p # 1 => Done(p, "join") <= Told(p)

\* What was said to P1: each of the others once.
Said == allPIDs \o queue[1][18]

Collected ==
    /\ Len(allPIDs) = Done(1, "collect1") + Done(1, "collect2") + Done(1, "collect3")
    /\ Len(allPIDs) + Len(queue[1][18]) = Done(2, "say") + Done(3, "say") + Done(4, "say")
    /\ \A k \in 1..Len(Said) : Said[k] \in {2, 3, 4}
    /\ \A p \in {2, 3, 4} : \A k \in 1..Len(Said) : Said[k] = p => Done(p, "say") = 1
    /\ \A j, k \in 1..Len(Said) : Said[j] = Said[k] => j = k

\* A signal that is pending is the last of those sent to p; what p has been told are the others.
InFlight(p) == IF pending[p]["USR1"] # 0 \/ pending[p]["USR2"] # 0 THEN 1 ELSE 0

ToldAt(p) ==
    /\ Len(told[p]) >= 1 => told[p][1] = "intro"
    /\ Len(told[p]) >= 2 => told[p][2] \in {"intro", "left"}
    /\ \A k \in 3..Len(told[p]) : told[p][k] = IF k <= Rounds + 1 THEN "left" ELSE "right"

OnTheWayAt(p) ==
    /\ pending[p]["USR1"] # 0 => pending[p]["USR1"] = Left(p) /\ ToLeft(Right(p)) = 0
    /\ pending[p]["USR2"] # 0 => pending[p]["USR2"] = Right(p) /\ ToLeft(Right(p)) > 0
    /\ Len(told[p]) + InFlight(p) = Signalled(p)
    /\ Heard(p) <= Len(told[p])
    /\ left[p] = IF told[p] = <<>> THEN 0 ELSE Left(p)
    /\ ToldAt(p)

\* Every signal was sent, and none but these.
Logged ==
    /\ Len(sends) = (ToRight(1) + ToRight(2) + ToRight(3) + ToRight(4))
                      + (ToLeft(1) + ToLeft(2) + ToLeft(3) + ToLeft(4))
    /\ \A p \in Procs : Cardinality(SentTo(p)) = Signalled(p)

Newest == \A p \in Procs : NewestAt(p)
Counted == \A p \in Procs : CountedAt(p)
InQueue == \A p \in Procs : InQueueAt(p)
OnTheWay == \A p \in Procs : OnTheWayAt(p)

CleanInv == Newest /\ Counted /\ InQueue /\ Collected /\ OnTheWay /\ Logged

SignalInv == PlaceInv /\ (Clean => CleanInv)

-----------------------------------------------------------------------------
(* What one process has done bounds what the others can have done *)

Links ==
    \A p \in Procs :
        /\ Done(Right(p), "wait1") <= Done(p, "post1")
        /\ Done(Left(p), "wait2") <= Done(p, "post2")
        /\ Done(p, "take") <= Done(Left(p), "meet")
        /\ Done(p, "learn") <= Announced(p)

LEMMA AroundProcs ==
  /\ Left(1) = 4 /\ Left(2) = 1 /\ Left(3) = 2 /\ Left(4) = 3
  /\ Right(1) = 2 /\ Right(2) = 3 /\ Right(3) = 4 /\ Right(4) = 1
  /\ Procs = {1, 2, 3, 4}
  BY Around DEF Left, Right, Procs

LEMMA LinksOf ==
  ASSUME TypeOK, InPlace, Counted, InQueue
  PROVE  Links
  <1>. SUFFICES ASSUME NEW p \in Procs
               PROVE  /\ Done(Right(p), "wait1") <= Done(p, "post1")
                      /\ Done(Left(p), "wait2") <= Done(p, "post2")
                      /\ Done(p, "take") <= Done(Left(p), "meet")
                      /\ Done(p, "learn") <= Announced(p)
    BY DEF Links
  <1>1. Left(p) \in Procs /\ Right(p) \in Procs
    BY NamesOf DEF Left, Right
  <1>2. /\ Done(Right(p), "wait1") \in Nat /\ Done(p, "post1") \in Nat
        /\ Done(Left(p), "wait2") \in Nat /\ Done(p, "post2") \in Nat
    BY <1>1, DoneType DEF Calls
  <1>3. sem[<<p, 1>>][1] \in Nat /\ sem[<<p, 2>>][1] \in Nat
    <2>1. <<p, 1>> \in Names /\ <<p, 2>> \in Names
      BY NamesOf
    <2>. QED
      BY <2>1 DEF TypeOK
  <1>4. /\ sem[<<p, 1>>][1] = Done(p, "post1") - Done(Right(p), "wait1")
        /\ sem[<<p, 2>>][1] = Done(p, "post2") - Done(Left(p), "wait2")
    BY DEF Counted, CountedAt
  <1>5. Done(p, "take") <= Done(Left(p), "meet") /\ Done(p, "learn") <= Announced(p)
    BY DEF Counted, CountedAt, InQueue, InQueueAt
  <1>. QED
    BY <1>2, <1>3, <1>4, <1>5

\* The discovery: P1 signals first, then the others in turn, and P4 knows P1 once it has.
LEMMA Discovery ==
  ASSUME \A p \in Procs : Ordered(p), Links
  PROVE  /\ Done(2, "take") <= Done(1, "meet") /\ Done(2, "meet") <= Done(2, "take")
         /\ Done(3, "take") <= Done(2, "meet") /\ Done(3, "meet") <= Done(3, "take")
         /\ Done(4, "take") <= Done(3, "meet") /\ Done(4, "meet") <= Done(4, "take")
         /\ Done(1, "take") <= Done(4, "meet") /\ Done(1, "take") <= Done(1, "meet")
         /\ Done(4, "learn") <= Done(2, "meet") /\ Done(4, "learn") <= Done(4, "take")
         /\ \A p \in Procs : /\ Done(p, "meet") <= Done(p, "learn")
                             /\ Done(p, "take") \in {0, 1} /\ Done(p, "meet") \in {0, 1}
                             /\ Done(p, "learn") \in {0, 1}
  <1>1. \A p \in Procs : MeetingOrder(p)
    BY DEF Ordered
  <1>2. Links
    OBVIOUS
  <1>. QED
    BY <1>1, <1>2, AroundProcs DEF MeetingOrder, Atmost1, Links, Announced

\* A turn of the first loop: P1 signals, then P2, P3, P4, each after the one before has
\* posted, and P1 takes the last post before its next signal.
LEMMA TurnForward ==
  ASSUME \A p \in Procs : Ordered(p), Links
  PROVE  /\ \A p \in Procs : Done(p, "kill1") \in Nat /\ Done(p, "unmask1") \in Nat
         /\ Done(1, "kill1") <= Done(1, "unmask1") + 1 /\ Done(1, "unmask1") <= Done(4, "unmask1")
         /\ Done(4, "unmask1") <= Done(4, "kill1") /\ Done(4, "kill1") <= Done(3, "unmask1")
         /\ Done(3, "unmask1") <= Done(3, "kill1") /\ Done(3, "kill1") <= Done(2, "unmask1")
         /\ Done(2, "unmask1") <= Done(2, "kill1") /\ Done(2, "kill1") <= Done(1, "kill1")
         /\ Done(1, "kill1") <= Rounds
         /\ Done(1, "kill1") > 0 => Done(1, "open1") = 1
  <1>1. \A p \in Procs : ForwardOrder(p)
    BY DEF Ordered
  <1>2. Links
    OBVIOUS
  <1>. QED
    BY <1>1, <1>2, AroundProcs, RingAssumption DEF ForwardOrder, Links

\* A turn of the second loop goes the other way.
LEMMA TurnBack ==
  ASSUME \A p \in Procs : Ordered(p), Links
  PROVE  /\ \A p \in Procs : Done(p, "kill2") \in Nat /\ Done(p, "unmask2") \in Nat
         /\ Done(1, "kill2") <= Done(1, "unmask2") + 1 /\ Done(1, "unmask2") <= Done(2, "kill2")
         /\ Done(2, "kill2") <= Done(2, "unmask2") /\ Done(2, "unmask2") <= Done(3, "unmask2")
         /\ Done(3, "unmask2") <= Done(3, "kill2") /\ Done(3, "kill2") <= Done(4, "unmask2")
         /\ Done(4, "unmask2") <= Done(4, "kill2") /\ Done(4, "kill2") <= Done(1, "kill2")
         /\ Done(1, "kill2") <= Rounds
         /\ Done(1, "kill2") > 0 => Done(1, "unmask1") = Rounds
  <1>1. \A p \in Procs : BackOrder(p)
    BY DEF Ordered
  <1>2. Links
    OBVIOUS
  <1>. QED
    BY <1>1, <1>2, AroundProcs, RingAssumption DEF BackOrder, Links

Begun ==
    /\ \A p, q \in Procs : Done(p, "kill1") > 0 => Done(q, "take") = 1 /\ Done(q, "meet") = 1
    /\ \A p, q \in Procs :
          Done(p, "kill2") > 0 => Done(q, "kill1") = Rounds /\ Done(q, "unmask1") = Rounds

Bounded ==
    \A p \in Procs :
        /\ Signalled(p) \in Nat /\ Heard(p) \in Nat /\ Signalled(p) <= Heard(p) + 1

LEMMA Chain ==
  ASSUME \A p \in Procs : Ordered(p), Links
  PROVE  Begun /\ Bounded
  <1>0. Rounds \in Nat /\ Rounds >= 1
    BY RingAssumption
  <1>1. CASE grouped
    <2>1. \A p \in Procs : /\ Done(p, "kill1") = 0 /\ Done(p, "unmask1") = 0
                           /\ Done(p, "kill2") = 0 /\ Done(p, "unmask2") = 0
                           /\ Done(p, "unmask0") \in {0, 1}
      <3>1. \A p \in Procs : GroupOrder(p) /\ ForwardOrder(p) /\ BackOrder(p) /\ MeetingOrder(p)
        BY <1>1 DEF Ordered
      <3>. QED
        BY <3>1 DEF GroupOrder, ForwardOrder, BackOrder, MeetingOrder, Atmost1
    <2>. QED
      BY <1>1, <2>1, Discovery, AroundProcs
         DEF Begun, Bounded, Signalled, Heard, Known, ToRight, ToLeft
  <1>2. CASE ~grouped
    <2>1. Done(1, "open1") = 1 => Done(1, "take") = 1
      BY <1>2, AroundProcs, Discovery DEF Ordered, RingOrder, MeetingOrder, Atmost1
    <2>2. Begun
      BY <1>0, <2>1, AroundProcs, Discovery, TurnForward, TurnBack DEF Begun
    <2>3. ASSUME NEW p \in Procs
          PROVE  /\ Done(p, "kill1") <= Done(Right(p), "unmask1") + 1
                 /\ Done(p, "kill2") <= Done(Left(p), "unmask2") + 1
      BY AroundProcs, TurnForward, TurnBack
    <2>4. ASSUME NEW p \in Procs
          PROVE  Signalled(p) \in Nat /\ Heard(p) \in Nat /\ Signalled(p) <= Heard(p) + 1
      <3>1. /\ Left(p) \in Procs /\ Right(p) \in Procs
            /\ Right(Left(p)) = p /\ Left(Right(p)) = p
        BY AroundProcs
      <3>2. /\ Done(Left(p), "meet") \in {0, 1} /\ Done(p, "take") \in {0, 1}
            /\ Done(Left(p), "kill1") \in Nat /\ Done(Right(p), "kill2") \in Nat
            /\ Done(p, "unmask1") \in Nat /\ Done(p, "unmask2") \in Nat
        BY <3>1, Discovery, TurnForward, TurnBack
      <3>3. /\ Done(Left(p), "kill1") <= Done(p, "unmask1") + 1
            /\ Done(Right(p), "kill2") <= Done(p, "unmask2") + 1
        BY <2>3, <3>1
      <3>4. Done(Left(p), "kill1") > 0 => Done(p, "take") = 1
        BY <2>2, <3>1 DEF Begun
      <3>5. Done(Right(p), "kill2") > 0 =>
               Done(Left(p), "kill1") = Rounds /\ Done(p, "unmask1") = Rounds
        BY <2>2, <3>1 DEF Begun
      <3>. QED
        BY <1>0, <1>2, <3>2, <3>3, <3>4, <3>5 DEF Signalled, Heard, Known, ToRight, ToLeft
    <2>. QED
      BY <2>2, <2>4 DEF Bounded
  <1>. QED
    BY <1>1, <1>2

\* The same after a step.
LEMMA ChainAfter ==
  (TypeOK /\ InPlace /\ Counted /\ InQueue => Begun /\ Bounded /\ Links)'
  <1>1. TypeOK /\ InPlace /\ Counted /\ InQueue => Begun /\ Bounded /\ Links
    BY Order, LinksOf, Chain
  <1>. QED
    BY <1>1, PTL

-----------------------------------------------------------------------------
(* The newest semaphores and the newest queue *)

LEMMA OnlyCall ==
  ASSUME TypeOK, InPlace, NEW p \in Procs, NEW c \in Calls, AtCall(p, c), NEW op, At(p, op)
  PROVE  Meaning(p, c).op = op
  <1>1. PICK d \in Calls : AtCall(p, d) /\ Now(p) = Meaning(p, d) /\ Meaning(p, d).op = op
    BY Operations
  <1>2. at[p] \in Nat \ {0}
    BY DEF TypeOK
  <1>. QED
    BY <1>1, <1>2, OneCall

LEMMA StaleGrows == [Next]_vars => stale \subseteq stale'
  BY DEF Next, vars, Launch, Step, Interrupt, Deliver, SemOpen, SemUnlink, SemPost, SemWait,
     RemoveQueue, MsgGet, MsgSnd, MsgRcv, MsgRcvFails, SendSignal, ChangeHandler, MaskSignal,
     UnmaskSignal

LEMMA NewestSame ==
  ASSUME NEW q \in Procs, NewestAt(q), sees'[q] = sees[q], qid'[q] = qid[q],
         current = 1 => current' = 1,
         \A d \in {"open", "open1", "open2", "get"} : Done(q, d)' = Done(q, d)
  PROVE  NewestAt(q)'
  BY DEF NewestAt

LEMMA NewestStep ==
  ASSUME PlaceInv, Newest, NEW p \in Procs, Step(p), stale' = {}
  PROVE  Newest'
  <1>1. TypeOK /\ InPlace
    BY DEF PlaceInv
  <1>2. PICK c \in Calls : AtCall(p, c) /\ Moves(p, c)
    BY <1>1, StepCall
  <1>3. /\ sees \in [Procs -> [Names -> {0, 1}]] /\ qid \in [Procs -> {0, 1}]
        /\ current \in {0, 1} /\ at[p] \in Nat \ {0}
    BY <1>1 DEF TypeOK
  <1>4. current = 1 => current' = 1
    BY <1>3 DEF Step, SemOpen, SemUnlink, SemPost, SemWait, RemoveQueue, MsgGet, MsgSnd, MsgRcv,
       MsgRcvFails, SendSignal, ChangeHandler, MaskSignal, UnmaskSignal, queueVars
  <1>5. ASSUME NEW q \in Procs, q # p
        PROVE  NewestAt(q)'
    <2>1. sees'[q] = sees[q] /\ qid'[q] = qid[q]
      BY <1>3, <1>5 DEF Step, SemOpen, SemUnlink, SemPost, SemWait, RemoveQueue, MsgGet, MsgSnd,
         MsgRcv, MsgRcvFails, SendSignal, ChangeHandler, MaskSignal, UnmaskSignal, queueVars, nameVars
    <2>2. \A d \in Calls : Done(q, d)' = Done(q, d)
      BY <1>2, <1>5 DEF Moves
    <2>. QED
      BY <1>4, <1>5, <2>1, <2>2, NewestSame DEF Newest, Calls
  <1>6. NewestAt(p)'
    <2>1. CASE SemOpen(p)
      <3>1. PICK j \in 0..2 : /\ Now(p) = Open(p, j)
                              /\ c = IF j = 0 THEN "open" ELSE IF j = 1 THEN "open1" ELSE "open2"
        <4>1. At(p, "open")
          BY <2>1 DEF SemOpen, Does
        <4>2. "open" \in Calls /\ "open1" \in Calls /\ "open2" \in Calls
          BY DEF Calls
        <4>. QED
          BY <1>1, <1>2, <1>3, <4>1, <4>2, Opening, OneCall
      <3>2. Now(p).sems = Neighbours(p) \X {j}
        BY <3>1 DEF Open
      <3>3. Neighbours(p) \X {j} \subseteq unlinked
        BY <2>1, <3>2 DEF SemOpen
      <3>4. \A n \in Names : sees'[p][n] = IF n \in Neighbours(p) \X {j} THEN 1 ELSE sees[p][n]
        BY <1>3, <2>1, <3>2, <3>3 DEF SemOpen
      <3>5. \A q \in Neighbours(p), k \in 0..2 :
               sees'[p][<<q, k>>] = IF k = j THEN 1 ELSE sees[p][<<q, k>>]
        <4>1. \A q \in Neighbours(p), k \in 0..2 : <<q, k>> \in Names
          BY NamesOf DEF Names
        <4>. QED
          BY <3>4, <4>1
      <3>6. qid' = qid /\ current' = current
        BY <2>1 DEF SemOpen, queueVars
      <3>7. NewestAt(p)
        BY DEF Newest
      <3>8. \A d \in {"open", "open1", "open2", "get"} :
               Done(p, d)' = IF d = c THEN Done(p, d) + 1 ELSE Done(p, d)
        BY <1>2 DEF Moves, Calls
      <3>9. CASE j = 0
        BY <3>1, <3>5, <3>6, <3>7, <3>8, <3>9 DEF NewestAt
      <3>10. CASE j = 1
        BY <3>1, <3>5, <3>6, <3>7, <3>8, <3>10 DEF NewestAt
      <3>11. CASE j = 2
        BY <3>1, <3>5, <3>6, <3>7, <3>8, <3>11 DEF NewestAt
      <3>. QED
        BY <3>9, <3>10, <3>11
    <2>2. CASE MsgGet(p)
      <3>1. current = 1 /\ qid'[p] = 1 /\ current' = 1 /\ sees' = sees
        BY <1>3, <2>2 DEF MsgGet, nameVars
      <3>2. c \notin {"open", "open1", "open2"}
        BY <1>1, <1>2, <2>2, OnlyCall, OpOf DEF MsgGet, Does
      <3>3. \A d \in {"open", "open1", "open2"} : Done(p, d)' = Done(p, d)
        BY <1>2, <3>2 DEF Moves, Calls
      <3>. QED
        BY <3>1, <3>3 DEF Newest, NewestAt
    <2>3. CASE ~SemOpen(p) /\ ~MsgGet(p)
      <3>1. sees' = sees /\ qid' = qid /\ ~At(p, "open") /\ ~At(p, "msgget") /\ Running(p)
        BY <2>3 DEF Step, SemUnlink, SemPost, SemWait, RemoveQueue, MsgSnd, MsgRcv,
           MsgRcvFails, SendSignal, ChangeHandler, MaskSignal, UnmaskSignal, queueVars, nameVars, Does, At
      <3>2. c \notin {"open", "open1", "open2", "get"}
        BY <1>1, <1>2, <1>3, <3>1, Named, OneCall, OpOf DEF At
      <3>3. \A d \in {"open", "open1", "open2", "get"} : Done(p, d)' = Done(p, d)
        BY <1>2, <3>2 DEF Moves, Calls
      <3>. QED
        BY <1>4, <3>1, <3>3, NewestSame DEF Newest
    <2>. QED
      BY <2>1, <2>2, <2>3
  <1>. QED
    BY <1>5, <1>6 DEF Newest

\* No other action changes any of it.
LEMMA NewestStays ==
  ASSUME Newest, Stays, sees' = sees, qid' = qid, current' = current
  PROVE  Newest'
  BY NewestSame DEF Newest, Stays, Calls

LEMMA NewestInterrupt ==
  ASSUME PlaceInv, Newest, NEW p \in Procs, NEW s \in Signals, Deliver(p, s), UNCHANGED programs
  PROVE  Newest'
  <1>1. TypeOK /\ InPlace
    BY DEF PlaceInv
  <1>2. sees' = sees /\ qid' = qid /\ current' = current
    BY DEF Deliver, nameVars, queueVars
  <1>3. CASE UNCHANGED progressVars
    BY <1>2, <1>3, StandStill, NewestStays
  <1>4. CASE Advance(p) /\ (At(p, "wait") \/ At(p, "receive"))
    <2>1. PICK c \in Calls : AtCall(p, c) /\ Now(p) = Meaning(p, c)
      BY <1>1, <1>4, Named DEF At
    <2>2. Moves(p, c)
      BY <1>1, <1>4, <2>1, Moving DEF At
    <2>3. c \notin {"open", "open1", "open2", "get"}
      BY <1>4, <2>1, OpOf DEF At
    <2>. QED
      BY <1>2, <2>2, <2>3, NewestSame DEF Moves, Newest, Calls
  <1>. QED
    BY <1>3, <1>4 DEF Deliver

-----------------------------------------------------------------------------
(* Which waits a signal can end *)

\* In the group nobody signals but to introduce itself.
LEMMA GroupQuiet ==
  ASSUME grouped, NEW p \in Procs, Ordered(p)
  PROVE  /\ Done(p, "kill1") = 0 /\ Done(p, "unmask1") = 0 /\ Done(p, "mask1") = 0
         /\ Done(p, "kill2") = 0 /\ Done(p, "unmask2") = 0
  <1>1. GroupOrder(p) /\ ForwardOrder(p) /\ BackOrder(p)
    BY DEF Ordered
  <1>. QED
    BY <1>1 DEF GroupOrder, ForwardOrder, BackOrder

\* Before it has signalled its right neighbour a process has been sent the introduction at
\* most, and P1 not even that.
LEMMA NotYet ==
  ASSUME \A p \in Procs : Ordered(p), Links, NEW p \in Procs, Done(p, "meet") = 0
  PROVE  /\ Signalled(p) = Done(Left(p), "meet") /\ Done(Left(p), "kill1") = 0
         /\ \A q \in Procs : Done(q, "kill1") = 0 /\ Done(q, "kill2") = 0
         /\ p = 1 => Signalled(p) = 0
  <1>1. Begun /\ Rounds \in Nat /\ Rounds >= 1
    BY Chain, RingAssumption
  <1>2. \A q \in Procs : Done(q, "kill1") \in Nat /\ Done(q, "kill2") \in Nat
    BY TurnForward, TurnBack
  <1>3. \A q \in Procs : Done(q, "kill1") = 0 /\ Done(q, "kill2") = 0
    BY <1>1, <1>2 DEF Begun
  <1>4. Left(p) \in Procs /\ Right(p) \in Procs
    BY AroundProcs
  <1>5. Done(Left(p), "meet") \in {0, 1}
    BY <1>4, Discovery
  <1>6. p = 1 => Done(Left(p), "meet") = 0
    BY AroundProcs, Discovery
  <1>. QED
    BY <1>3, <1>4, <1>5, <1>6 DEF Signalled, ToRight, ToLeft

LEMMA Heard1 ==
  ASSUME NEW p \in Procs, Ordered(p)
  PROVE  /\ Done(p, "unmask1") \in Nat /\ Done(p, "unmask2") \in Nat /\ Known(p) \in {0, 1}
  BY DEF Ordered, ForwardOrder, BackOrder, MeetingOrder, Atmost1, Known

LEMMA OnlyTheFirstWait ==
  ASSUME PlaceInv, Links, NEW p \in Procs, OnTheWayAt(p), NEW s \in Signals, Deliver(p, s), UNCHANGED programs,
         ~UNCHANGED progressVars
  PROVE  /\ AtCall(p, "take") /\ Moves(p, "take") /\ s = "USR1" /\ ~grouped /\ InPlace' /\ TypeOK'
         /\ Done(Left(p), "meet") = 1 /\ UNCHANGED knownVars
  <1>1. TypeOK /\ InPlace /\ MaskedAt(p)
    BY DEF PlaceInv, Masked
  <1>2. Running(p) /\ Advance(p) /\ ((At(p, "wait") /\ UNCHANGED knownVars) \/ At(p, "receive"))
    BY DEF Deliver, Deliverable
  <1>3. PICK c \in Calls : AtCall(p, c) /\ Moves(p, c) /\ Now(p) = Meaning(p, c)
    BY <1>1, <1>2, Named, Moving
  <1>4. TypeOK' /\ InPlace'
    BY <1>1, <1>2, InterruptType, Moving
  <1>5. /\ \A q \in Procs : Ordered(q)
        /\ \A q \in Procs : Ordered(q)'
    BY <1>1, <1>4, Order, OrderAfter
  <1>6. /\ s \notin mask[p] /\ pending[p][s] # 0
        /\ s \in {"USR1", "USR2"}
    BY DEF Deliver, Deliverable, Signals
  <1>7. Begun /\ Bounded /\ Rounds \in Nat /\ Rounds >= 1
    BY <1>5, Chain, RingAssumption
  <1>8. Heard(p) < Signalled(p)
    <2>1. InFlight(p) = 1
      BY <1>6 DEF InFlight
    <2>2. Len(told[p]) \in Nat
      BY <1>1 DEF TypeOK
    <2>. QED
      BY <1>7, <2>1, <2>2 DEF OnTheWayAt, Bounded
  <1>9. \A d \in Calls : Done(p, d)' = IF d = c THEN Done(p, d) + 1 ELSE Done(p, d)
    BY <1>3 DEF Moves
  <1>10. Left(p) \in Procs /\ Right(p) \in Procs
    BY AroundProcs
  <1>11. Done(p, "unmask1") \in Nat /\ Done(p, "unmask2") \in Nat /\ Known(p) \in {0, 1}
    BY <1>5, Heard1
  <1>12. s = "USR2" => Done(Right(p), "kill2") > 0 /\ Done(p, "unmask1") = Rounds /\ Done(p, "kill1") = Rounds
                       /\ Done(p, "take") = 1
    BY <1>6, <1>7, <1>10 DEF OnTheWayAt, ToLeft, Begun
  <1>13. c # "learn"
    <2>. SUFFICES ASSUME c = "learn"
                 PROVE  FALSE
      OBVIOUS
    <2>1. /\ Done(p, "learn")' = Done(p, "learn") + 1 /\ Done(p, "meet")' = Done(p, "meet")
          /\ Done(p, "take")' = Done(p, "take") /\ Done(p, "unmask0")' = Done(p, "unmask0")
      BY <1>9 DEF Calls
    <2>2. Done(p, "meet") = 0
      BY <1>5, <2>1 DEF Ordered, MeetingOrder, Atmost1
    <2>3. p # 1 => Known(p) = 1
      <3>1. (grouped' <=> grouped)
        BY DEF grouped
      <3>2. p # 1 /\ ~grouped => Done(p, "take") = 1
        BY <1>5, <2>1 DEF Ordered, MeetingOrder, Atmost1
      <3>3. p # 1 /\ grouped => Done(p, "unmask0") = 1
        BY <1>5, <2>1, <3>1 DEF Ordered, MeetingOrder, Atmost1, GroupOrder
      <3>. QED
        BY <3>2, <3>3 DEF Known
    <2>4. /\ Signalled(p) = Done(Left(p), "meet") /\ (p = 1 => Signalled(p) = 0)
          /\ Done(Left(p), "meet") \in {0, 1}
      BY <1>5, <1>10, <2>2, NotYet, Discovery
    <2>. QED
      BY <1>8, <1>11, <2>3, <2>4 DEF Heard
  <1>14. c \notin {"collect1", "collect2", "collect3", "join"}
    <2>. SUFFICES ASSUME c \in {"collect1", "collect2", "collect3", "join"}
                 PROVE  FALSE
      OBVIOUS
    <2>1. grouped /\ grouped' /\ (c = "join" => p # 1) /\ (c # "join" => p = 1)
      BY <1>1, <1>3, Whose DEF grouped
    <2>2. Done(p, "unmask0") = 1
      <3>1. Done(p, c)' = Done(p, c) + 1 /\ Done(p, "unmask0")' = Done(p, "unmask0")
        BY <1>9 DEF Calls
      <3>2. Done(p, "collect1")' <= Done(p, "unmask0")' \/ p # 1
        BY <1>5, <2>1 DEF Ordered, GroupOrder
      <3>. QED
        BY <1>5, <2>1, <3>1 DEF Ordered, GroupOrder, MeetingOrder, Atmost1
    <2>3. Signalled(p) <= 1
      BY <1>5, <1>10, <2>1, GroupQuiet, Discovery DEF Signalled, ToRight, ToLeft
    <2>. QED
      BY <1>7, <1>8, <1>11, <2>1, <2>2, <2>3 DEF Heard, Known, Bounded
  <1>15. c # "wait1"
    <2>. SUFFICES ASSUME c = "wait1"
                 PROVE  FALSE
      OBVIOUS
    <2>1. ~grouped
      BY <1>1, <1>3, Whose
    <2>2. /\ Done(p, "wait1")' = Done(p, "wait1") + 1 /\ Done(p, "unmask1")' = Done(p, "unmask1")
          /\ Done(p, "mask1")' = Done(p, "mask1") /\ Done(p, "kill1")' = Done(p, "kill1")
          /\ Done(p, "post1")' = Done(p, "post1")
      BY <1>9 DEF Calls
    <2>3. Done(p, "unmask1") < Done(p, "mask1") /\ Done(p, "mask1") <= Rounds /\ Done(p, "mask1") \in Nat
      BY <1>5, <1>7, <2>2 DEF Ordered, ForwardOrder
    <2>4. Done(p, "mask0") = 0 /\ Done(p, "unmask0") = 0
      BY <1>5, <2>1 DEF Ordered, RingOrder
    <2>. QED
      BY <1>1, <1>6, <1>7, <1>11, <1>12, <2>3, <2>4 DEF MaskedAt
  <1>16. c # "wait2"
    <2>. SUFFICES ASSUME c = "wait2"
                 PROVE  FALSE
      OBVIOUS
    <2>1. ~grouped
      BY <1>1, <1>3, Whose
    <2>2. /\ Done(p, "wait2")' = Done(p, "wait2") + 1 /\ Done(p, "unmask2")' = Done(p, "unmask2")
          /\ Done(p, "mask2")' = Done(p, "mask2") /\ Done(p, "kill2")' = Done(p, "kill2")
          /\ Done(p, "post2")' = Done(p, "post2")
      BY <1>9 DEF Calls
    <2>3. Done(p, "unmask2") < Done(p, "mask2") /\ Done(p, "mask2") \in Nat
      BY <1>5, <1>7, <2>2 DEF Ordered, BackOrder
    <2>4. Done(p, "block") = 0 /\ Done(p, "unmask1") = Rounds /\ Done(p, "kill1") = Rounds
      BY <1>5, <1>11, <2>1, <2>3 DEF Ordered, RingOrder, BackOrder
    <2>5. s = "USR1"
      BY <1>1, <1>6, <1>11, <2>3, <2>4 DEF MaskedAt
    <2>6. Done(Right(p), "kill2") = 0
      BY <1>6, <2>5 DEF OnTheWayAt, ToLeft
    <2>7. Done(p, "take") = 1 /\ Done(Left(p), "kill1") <= Rounds /\ Done(Left(p), "meet") <= 1
          /\ Done(Left(p), "kill1") \in Nat /\ Done(Left(p), "meet") \in Nat
      <3>1. Done(p, "take") = 1
        BY <1>7, <2>4 DEF Begun
      <3>2. \A q \in Procs : Done(q, "kill1") <= Rounds /\ Done(q, "kill1") \in Nat
        BY <1>5, <1>7, AroundProcs, TurnForward
      <3>3. \A q \in Procs : Done(q, "meet") \in {0, 1}
        BY <1>5, Discovery
      <3>. QED
        BY <1>10, <3>1, <3>2, <3>3
    <2>. QED
      BY <1>7, <1>8, <1>11, <2>1, <2>4, <2>6, <2>7 DEF Heard, Known, Signalled, ToRight, ToLeft
  <1>17. c = "take" /\ UNCHANGED knownVars
    <2>1. c \in {"learn", "collect1", "collect2", "collect3", "join", "take", "wait1", "wait2"}
      BY <1>2, <1>3, OpOf DEF Calls, At
    <2>2. c = "take"
      BY <1>13, <1>14, <1>15, <1>16, <2>1
    <2>3. ~At(p, "receive")
      BY <1>3, <2>2, OpOf DEF At
    <2>. QED
      BY <1>2, <2>2, <2>3
  <1>18. Done(p, "take") = 0
    BY <1>5, <1>9, <1>17 DEF Ordered, MeetingOrder, Atmost1
  <1>19. s = "USR1"
    BY <1>6, <1>12, <1>18
  <1>20. ~grouped
    <2>. SUFFICES ASSUME grouped
                 PROVE  FALSE
      OBVIOUS
    <2>1. Done(p, "mask0")' = Done(p, "mask0") /\ Done(p, "take")' = Done(p, "take") + 1 /\ grouped'
      BY <1>9, <1>17 DEF Calls, grouped
    <2>2. Done(p, "mask0") = 1 /\ Done(p, "unmask0") = 0
      BY <1>5, <1>18, <2>1 DEF Ordered, GroupOrder, MeetingOrder, Atmost1
    <2>3. Done(p, "mask1") = 0 /\ Done(p, "unmask1") = 0
      BY <1>5, GroupQuiet
    <2>. QED
      BY <1>1, <1>6, <1>19, <2>2, <2>3 DEF MaskedAt
  <1>21. Done(Left(p), "meet") = 1
    <2>1. Done(Right(p), "kill2") = 0
      BY <1>6, <1>19 DEF OnTheWayAt, ToLeft
    <2>2. Done(Left(p), "kill1") > 0 => Done(Left(p), "meet") = 1
      BY <1>7, <1>10 DEF Begun
    <2>3. Done(Left(p), "kill1") \in Nat /\ Done(Left(p), "meet") \in {0, 1}
      BY <1>5, <1>10, TurnForward, Discovery
    <2>. QED
      BY <1>7, <1>8, <2>1, <2>2, <2>3 DEF Signalled, ToRight, ToLeft, Bounded
  <1>. QED
    BY <1>3, <1>4, <1>17, <1>19, <1>20, <1>21

-----------------------------------------------------------------------------
(* The semaphores *)

LEMMA CountedFrame ==
  ASSUME TypeOK, InPlace, Counted, NEW p \in Procs, NEW c \in Calls, Moves(p, c), sem' = sem,
         c \notin {"post1", "post2", "wait1", "wait2", "take", "wake"}
  PROVE  Counted'
  <1>. SUFFICES ASSUME NEW q \in Procs
               PROVE  CountedAt(q)'
    BY DEF Counted
  <1>1. Left(q) \in Procs /\ Right(q) \in Procs
    BY AroundProcs
  <1>2. \A r \in Procs : /\ Done(r, "post1")' = Done(r, "post1") /\ Done(r, "post2")' = Done(r, "post2")
                         /\ Done(r, "wait1")' = Done(r, "wait1") /\ Done(r, "wait2")' = Done(r, "wait2")
                         /\ Done(r, "take")' = Done(r, "take") /\ Done(r, "wake")' = Done(r, "wake")
    BY DEF Moves, Calls
  <1>3. Done(Left(q), "meet") \in Nat /\ Done(q, "take") \in Nat
    BY <1>1, DoneType DEF Calls
  <1>4. Done(Left(q), "meet")' = Done(Left(q), "meet") \/ Done(Left(q), "meet")' = Done(Left(q), "meet") + 1
    BY <1>1 DEF Moves, Calls
  <1>5. CountedAt(q)
    BY DEF Counted
  <1>6. Done(q, "take")' <= Done(Left(q), "meet")'
    BY <1>1, <1>2, <1>3, <1>4, <1>5 DEF CountedAt
  <1>. QED
    BY <1>1, <1>2, <1>5, <1>6 DEF CountedAt

\* What p has opened before a post or a wait.
LEMMA Opened ==
  ASSUME TypeOK, InPlace, Newest, NEW p \in Procs, NEW c \in Calls, AtCall(p, c), Moves(p, c), InPlace', TypeOK',
         NEW q \in Neighbours(p)
  PROVE  /\ c \in {"take", "wake"} => sees[p][<<q, 0>>] = 1
         /\ c \in {"wait1", "post1"} => sees[p][<<q, 1>>] = 1
         /\ c \in {"wait2", "post2"} => sees[p][<<q, 2>>] = 1
  <1>1. Ordered(p) /\ Ordered(p)'
    BY Order, OrderAfter
  <1>2. \A d \in Calls : Done(p, d)' = IF d = c THEN Done(p, d) + 1 ELSE Done(p, d)
    BY DEF Moves
  <1>3. c \in {"take", "wake"} => Done(p, "open") = 1
    BY <1>1, <1>2 DEF Ordered, MeetingOrder, Atmost1, Calls
  <1>4. c \in {"wait1", "post1"} => Done(p, "open1") = 1
    <2>1. c \in {"wait1", "post1"} => Done(p, "mask1") > 0
      BY <1>1, <1>2 DEF Ordered, ForwardOrder, Calls
    <2>. QED
      BY <1>1, <2>1 DEF Ordered, ForwardOrder
  <1>5. c \in {"wait2", "post2"} => Done(p, "open2") = 1
    <2>1. c \in {"wait2", "post2"} => Done(p, "mask2") > 0
      BY <1>1, <1>2 DEF Ordered, BackOrder, Calls
    <2>. QED
      BY <1>1, <2>1 DEF Ordered, BackOrder
  <1>. QED
    BY <1>3, <1>4, <1>5 DEF Newest, NewestAt

LEMMA CountedStep ==
  ASSUME PlaceInv, Newest, Counted, NEW p \in Procs, Step(p)
  PROVE  Counted'
  <1>1. TypeOK /\ InPlace
    BY DEF PlaceInv
  <1>2. PICK c \in Calls : AtCall(p, c) /\ Moves(p, c) /\ Now(p) = Meaning(p, c)
    BY <1>1, StepCall
  <1>3. TypeOK' /\ InPlace'
    BY <1>1, StepCall
  <1>4. /\ Left(p) \in Procs /\ Right(p) \in Procs /\ Right(Left(p)) = p /\ Left(Right(p)) = p
        /\ {Left(p), p, Right(p)} = Neighbours(p)
    BY AroundProcs DEF Neighbours, Left, Right
  <1>5. \A q \in Procs : <<q, 0>> \in Names /\ <<q, 1>> \in Names /\ <<q, 2>> \in Names
    BY NamesOf
  <1>7. \A q \in Procs, d \in Calls : Done(q, d) \in Nat
    BY <1>1, DoneType
  <1>8. Ordered(p) /\ Ordered(p)'
    BY <1>1, <1>3, Order, OrderAfter
  <1>9. \A q \in Procs, d \in Calls :
           Done(q, d)' = IF q = p /\ d = c THEN Done(q, d) + 1 ELSE Done(q, d)
    BY <1>2 DEF Moves
  <1>10. CASE SemPost(p)
    <2>1. \/ c = "wake" /\ Now(p).sem = <<Right(p), 0>> /\ sees[p][Now(p).sem] = 1
          \/ c = "post1" /\ Now(p).sem = <<p, 1>> /\ sees[p][Now(p).sem] = 1
          \/ c = "post2" /\ Now(p).sem = <<p, 2>> /\ sees[p][Now(p).sem] = 1
      <3>1. c \in {"wake", "post1", "post2"}
        BY <1>1, <1>2, <1>10, OnlyCall, OpOf DEF SemPost, Does, Calls
      <3>. QED
        BY <1>1, <1>2, <1>3, <1>4, <3>1, Meanings, Opened DEF Post, Right
    <2>2. \A m \in Names : sem'[m][1] = IF m = Now(p).sem THEN sem[m][1] + 1 ELSE sem[m][1]
      <3>1. Now(p).sem \in Names
        BY <1>4, <1>5, <2>1
      <3>2. sem \in [Names -> [{0, 1} -> Nat]]
        BY <1>1 DEF TypeOK
      <3>3. sem' = [sem EXCEPT ![Now(p).sem][1] = @ + 1]
        BY <1>10, <2>1 DEF SemPost
      <3>. QED
        BY <3>1, <3>2, <3>3
    <2>. SUFFICES ASSUME NEW q \in Procs
                 PROVE  CountedAt(q)'
      BY DEF Counted
    <2>3. /\ CountedAt(q) /\ Left(q) \in Procs /\ Right(q) \in Procs
          /\ (q = Right(p) => Left(q) = p)
      BY <1>4, AroundProcs DEF Counted
    <2>4. CASE c = "wake"
      <3>1. /\ sem'[<<q, 1>>][1] = sem[<<q, 1>>][1] /\ sem'[<<q, 2>>][1] = sem[<<q, 2>>][1]
            /\ q # Right(p) => sem'[<<q, 0>>][1] = sem[<<q, 0>>][1]
        BY <1>5, <2>1, <2>2, <2>4
      <3>2. Done(p, "wake")' = 1
        BY <1>7, <1>8, <1>9, <2>4 DEF Ordered, MeetingOrder, Atmost1, Calls
      <3>3. /\ \A r \in Procs : r # p => Done(r, "wake")' = Done(r, "wake")
            /\ \A r \in Procs, d \in Calls : d # "wake" => Done(r, d)' = Done(r, d)
        BY <1>9, <2>4
      <3>. QED
        BY <2>3, <3>1, <3>2, <3>3 DEF CountedAt, Calls
    <2>5. CASE c = "post1"
      <3>1. /\ sem'[<<q, 0>>][1] = sem[<<q, 0>>][1] /\ sem'[<<q, 2>>][1] = sem[<<q, 2>>][1]
            /\ sem'[<<q, 1>>][1] = IF q = p THEN sem[<<q, 1>>][1] + 1 ELSE sem[<<q, 1>>][1]
        BY <1>5, <2>1, <2>2, <2>5
      <3>2. /\ \A r \in Procs : Done(r, "post1")' = IF r = p THEN Done(r, "post1") + 1 ELSE Done(r, "post1")
            /\ \A r \in Procs, d \in Calls : d # "post1" => Done(r, d)' = Done(r, d)
        BY <1>9, <2>5
      <3>. QED
        BY <1>7, <2>3, <3>1, <3>2 DEF CountedAt, Calls
    <2>6. CASE c = "post2"
      <3>1. /\ sem'[<<q, 0>>][1] = sem[<<q, 0>>][1] /\ sem'[<<q, 1>>][1] = sem[<<q, 1>>][1]
            /\ sem'[<<q, 2>>][1] = IF q = p THEN sem[<<q, 2>>][1] + 1 ELSE sem[<<q, 2>>][1]
        BY <1>5, <2>1, <2>2, <2>6
      <3>2. /\ \A r \in Procs : Done(r, "post2")' = IF r = p THEN Done(r, "post2") + 1 ELSE Done(r, "post2")
            /\ \A r \in Procs, d \in Calls : d # "post2" => Done(r, d)' = Done(r, d)
        BY <1>9, <2>6
      <3>. QED
        BY <1>7, <2>3, <3>1, <3>2 DEF CountedAt, Calls
    <2>. QED
      BY <2>1, <2>4, <2>5, <2>6
  <1>11. CASE SemWait(p)
    <2>1. \/ c = "take" /\ Now(p).sem = <<p, 0>> /\ sees[p][Now(p).sem] = 1
          \/ c = "wait1" /\ Now(p).sem = <<Left(p), 1>> /\ sees[p][Now(p).sem] = 1
          \/ c = "wait2" /\ Now(p).sem = <<Right(p), 2>> /\ sees[p][Now(p).sem] = 1
      <3>1. c \in {"take", "wait1", "wait2"}
        BY <1>1, <1>2, <1>11, OnlyCall, OpOf DEF SemWait, Does, Calls
      <3>2. p \in Neighbours(p) /\ Left(p) \in Neighbours(p) /\ Right(p) \in Neighbours(p)
        BY <1>4
      <3>3. /\ c = "take" => sees[p][<<p, 0>>] = 1
            /\ c = "wait1" => sees[p][<<Left(p), 1>>] = 1
            /\ c = "wait2" => sees[p][<<Right(p), 2>>] = 1
        BY <1>1, <1>2, <1>3, <3>2, Opened
      <3>4. /\ c = "take" => Now(p) = Wait(p, 0)
            /\ c = "wait1" => Now(p) = Wait(Left(p), 1)
            /\ c = "wait2" => Now(p) = Wait(Right(p), 2)
        BY <1>2, Meanings DEF Left, Right
      <3>. QED
        BY <3>1, <3>3, <3>4 DEF Wait
    <2>2. /\ \A m \in Names : sem'[m][1] = IF m = Now(p).sem THEN sem[m][1] - 1 ELSE sem[m][1]
          /\ sem[Now(p).sem][1] > 0 /\ \A m \in Names : sem[m][1] \in Nat
      <3>1. Now(p).sem \in Names
        BY <1>4, <1>5, <2>1
      <3>2. sem \in [Names -> [{0, 1} -> Nat]]
        BY <1>1 DEF TypeOK
      <3>3. sem' = [sem EXCEPT ![Now(p).sem][1] = @ - 1] /\ sem[Now(p).sem][1] > 0
        BY <1>11, <2>1 DEF SemWait
      <3>. QED
        BY <3>1, <3>2, <3>3
    <2>. SUFFICES ASSUME NEW q \in Procs
                 PROVE  CountedAt(q)'
      BY DEF Counted
    <2>3. /\ CountedAt(q) /\ Left(q) \in Procs /\ Right(q) \in Procs
          /\ (q = Right(p) <=> Left(q) = p) /\ (q = Left(p) <=> Right(q) = p)
      BY <1>4, AroundProcs DEF Counted
    <2>4. CASE c = "take"
      <3>1. /\ sem'[<<q, 1>>][1] = sem[<<q, 1>>][1] /\ sem'[<<q, 2>>][1] = sem[<<q, 2>>][1]
            /\ sem'[<<q, 0>>][1] > 0 => sem[<<q, 0>>][1] > 0
        BY <1>5, <2>1, <2>2, <2>4
      <3>2. /\ \A r \in Procs : Done(r, "take")' = IF r = p THEN Done(r, "take") + 1 ELSE Done(r, "take")
            /\ \A r \in Procs, d \in Calls : d # "take" => Done(r, d)' = Done(r, d)
        BY <1>9, <2>4
      <3>3. Done(p, "take")' = 1
        BY <1>7, <1>8, <3>2 DEF Ordered, MeetingOrder, Atmost1, Calls
      <3>4. Done(Left(p), "wake") = 1
        BY <2>1, <2>2, <2>4 DEF Counted, CountedAt
      <3>5. Done(Left(p), "meet") = 1
        BY <1>1, <1>4, <3>4, Order DEF Ordered, MeetingOrder, Atmost1
      <3>. QED
        BY <2>3, <3>1, <3>2, <3>3, <3>5 DEF CountedAt, Calls
    <2>5. CASE c = "wait1"
      <3>1. /\ sem'[<<q, 0>>][1] = sem[<<q, 0>>][1] /\ sem'[<<q, 2>>][1] = sem[<<q, 2>>][1]
            /\ sem'[<<q, 1>>][1] = IF q = Left(p) THEN sem[<<q, 1>>][1] - 1 ELSE sem[<<q, 1>>][1]
        BY <1>5, <2>1, <2>2, <2>5
      <3>2. /\ \A r \in Procs : Done(r, "wait1")' = IF r = p THEN Done(r, "wait1") + 1 ELSE Done(r, "wait1")
            /\ \A r \in Procs, d \in Calls : d # "wait1" => Done(r, d)' = Done(r, d)
        BY <1>9, <2>5
      <3>. QED
        BY <1>7, <2>3, <3>1, <3>2 DEF CountedAt, Calls
    <2>6. CASE c = "wait2"
      <3>1. /\ sem'[<<q, 0>>][1] = sem[<<q, 0>>][1] /\ sem'[<<q, 1>>][1] = sem[<<q, 1>>][1]
            /\ sem'[<<q, 2>>][1] = IF q = Right(p) THEN sem[<<q, 2>>][1] - 1 ELSE sem[<<q, 2>>][1]
        BY <1>5, <2>1, <2>2, <2>6
      <3>2. /\ \A r \in Procs : Done(r, "wait2")' = IF r = p THEN Done(r, "wait2") + 1 ELSE Done(r, "wait2")
            /\ \A r \in Procs, d \in Calls : d # "wait2" => Done(r, d)' = Done(r, d)
        BY <1>9, <2>6
      <3>. QED
        BY <1>7, <2>3, <3>1, <3>2 DEF CountedAt, Calls
    <2>. QED
      BY <2>1, <2>4, <2>5, <2>6
  <1>12. CASE ~SemPost(p) /\ ~SemWait(p)
    <2>1. sem' = sem /\ ~At(p, "post") /\ ~At(p, "wait") /\ Running(p)
      BY <1>12 DEF Step, SemOpen, SemUnlink, RemoveQueue, MsgGet, MsgSnd, MsgRcv, MsgRcvFails,
         SendSignal, ChangeHandler, MaskSignal, UnmaskSignal, nameVars, Does, At
    <2>2. c \notin {"post1", "post2", "wait1", "wait2", "take", "wake"}
      BY <1>2, <2>1, OpOf DEF At
    <2>. QED
      BY <1>1, <1>2, <2>1, <2>2, CountedFrame
  <1>. QED
    BY <1>10, <1>11, <1>12

LEMMA CountedStays ==
  ASSUME Counted, Stays, sem' = sem
  PROVE  Counted'
  <1>. SUFFICES ASSUME NEW q \in Procs
               PROVE  CountedAt(q)'
    BY DEF Counted
  <1>1. Left(q) \in Procs /\ Right(q) \in Procs /\ CountedAt(q)
    BY AroundProcs DEF Counted
  <1>. QED
    BY <1>1 DEF CountedAt, Stays, Calls

\* An interrupted wait takes nothing.
LEMMA CountedInterrupt ==
  ASSUME PlaceInv, Counted, InQueue, OnTheWay, NEW p \in Procs, NEW s \in Signals, Deliver(p, s), UNCHANGED programs
  PROVE  Counted'
  <1>1. TypeOK /\ InPlace /\ sem' = sem
    BY DEF PlaceInv, Deliver, nameVars
  <1>2. CASE UNCHANGED progressVars
    BY <1>1, <1>2, StandStill, CountedStays
  <1>3. CASE ~UNCHANGED progressVars
    <2>1. AtCall(p, "take") /\ Moves(p, "take") /\ Done(Left(p), "meet") = 1 /\ InPlace' /\ TypeOK'
      BY <1>1, <1>3, LinksOf, OnlyTheFirstWait DEF OnTheWay
    <2>2. /\ \A r \in Procs : r # p => Done(r, "take")' = Done(r, "take")
          /\ \A r \in Procs, d \in Calls : d # "take" => Done(r, d)' = Done(r, d)
      BY <2>1 DEF Moves, Calls
    <2>3. Done(p, "take")' <= 1
      BY <2>1, OrderAfter DEF Ordered, MeetingOrder, Atmost1
    <2>. SUFFICES ASSUME NEW q \in Procs
                 PROVE  CountedAt(q)'
      BY DEF Counted
    <2>4. Left(q) \in Procs /\ Right(q) \in Procs /\ CountedAt(q)
      BY AroundProcs DEF Counted
    <2>. QED
      BY <1>1, <2>1, <2>2, <2>3, <2>4 DEF CountedAt, Calls
  <1>. QED
    BY <1>2, <1>3

-----------------------------------------------------------------------------
(* The queue *)

LEMMA InQueueUnchanged ==
  ASSUME InQueue, Collected, UNCHANGED <<queue, right, allPIDs, group>>,
         \A r \in Procs : \A d \in {"introduce", "close", "say", "tell2", "tell3", "tell4", "learn", "collect1",
                                  "collect2", "collect3", "join"} : Done(r, d)' = Done(r, d)
  PROVE  InQueue' /\ Collected'
  <1>2. 1 \in Procs /\ 2 \in Procs /\ 3 \in Procs /\ 4 \in Procs
    BY DEF Procs
  <1>3. ASSUME NEW q \in Procs
        PROVE  InQueueAt(q)'
    <2>1. InQueueAt(q) /\ Left(q) \in Procs /\ Right(q) \in Procs
      BY AroundProcs DEF InQueue
    <2>. QED
      BY <1>2, <2>1 DEF InQueueAt, WaitingFor, Waiting1, Told, Announced
  <1>4. Collected'
    <2>2. Said' = Said /\ queue' = queue /\ allPIDs' = allPIDs
      BY DEF Said
    <2>3. \A q \in {2, 3, 4} : Done(q, "say")' = Done(q, "say")
      BY <1>2
    <2>4. /\ Done(1, "collect1")' = Done(1, "collect1") /\ Done(1, "collect2")' = Done(1, "collect2")
          /\ Done(1, "collect3")' = Done(1, "collect3") /\ Done(2, "say")' = Done(2, "say")
          /\ Done(3, "say")' = Done(3, "say") /\ Done(4, "say")' = Done(4, "say")
      BY <1>2
    <2>5. /\ Len(allPIDs') = Done(1, "collect1")' + Done(1, "collect2")' + Done(1, "collect3")'
          /\ Len(allPIDs') + Len(queue'[1][18]) = Done(2, "say")' + Done(3, "say")' + Done(4, "say")'
      BY <2>2, <2>4 DEF Collected
    <2>6. /\ \A k \in 1..Len(Said') : Said'[k] \in {2, 3, 4}
          /\ \A q \in {2, 3, 4} : \A k \in 1..Len(Said') : Said'[k] = q => Done(q, "say")' = 1
          /\ \A j, k \in 1..Len(Said') : Said'[j] = Said'[k] => j = k
      BY <2>2, <2>3 DEF Collected
    <2>. QED
      BY <2>2, <2>5, <2>6 DEF Collected
  <1>. QED
    BY <1>3, <1>4 DEF InQueue

LEMMA InQueueFrame ==
  ASSUME InQueue, Collected, NEW p \in Procs, NEW c \in Calls, Moves(p, c), UNCHANGED <<queue, right, allPIDs, group>>,
         c \notin {"introduce", "close", "say", "tell2", "tell3", "tell4", "learn", "collect1",
                   "collect2", "collect3", "join"}
  PROVE  InQueue' /\ Collected'
  <1>1. \A r \in Procs : \A d \in {"introduce", "close", "say", "tell2", "tell3", "tell4", "learn", "collect1",
                                   "collect2", "collect3", "join"} : Done(r, d)' = Done(r, d)
    BY DEF Moves, Calls
  <1>. QED
    BY <1>1, InQueueUnchanged

\* When P1 has collected what the others said, each has introduced itself to its left
\* neighbour too, and is known to it.
LEMMA Gathered ==
  ASSUME TypeOK, InPlace, Links, Collected, Done(1, "collect3") = 1
  PROVE  /\ \A q \in Procs \ {1} : Done(q, "introduce") = 1 /\ Done(Left(q), "learn") = 1
         /\ Len(allPIDs) = 3 /\ Done(2, "say") = 1 /\ Done(3, "say") = 1 /\ Done(4, "say") = 1
  <1>1. \A q \in Procs : Ordered(q) /\ Atmost1(q)
    BY Order DEF Ordered, MeetingOrder
  <1>2. 1 \in Procs /\ 2 \in Procs /\ 3 \in Procs /\ 4 \in Procs
    BY DEF Procs
  <1>3. grouped
    <2>1. CASE ~grouped
      <3>1. Done(1, "collect1") = 0
        BY <1>1, <1>2, <2>1 DEF Ordered, RingOrder
      <3>2. Index(1, "collect3") = 0 /\ "collect3" \in Calls
        BY <2>1 DEF Index, InRing, Calls
      <3>3. Done(1, "collect3") = 0
        BY <1>2, <3>2, DoneType
      <3>. QED
        BY <3>3
    <2>. QED
      BY <2>1
  <1>4. GroupOrder(1) /\ GroupOrder(2) /\ GroupOrder(3) /\ GroupOrder(4)
    BY <1>1, <1>2, <1>3 DEF Ordered
  <1>5. Done(1, "collect1") = 1 /\ Done(1, "collect2") = 1
    BY <1>1, <1>2, <1>4 DEF GroupOrder, Atmost1
  <1>6. Len(allPIDs) = 3 /\ Len(queue[1][18]) \in Nat
    BY <1>5 DEF Collected, TypeOK, MsgTypes
  <1>7. Done(2, "say") = 1 /\ Done(3, "say") = 1 /\ Done(4, "say") = 1
    <2>1. Len(allPIDs) + Len(queue[1][18]) = Done(2, "say") + Done(3, "say") + Done(4, "say")
      BY DEF Collected
    <2>2. Done(2, "say") \in {0, 1} /\ Done(3, "say") \in {0, 1} /\ Done(4, "say") \in {0, 1}
      BY <1>1, <1>2 DEF Atmost1
    <2>. QED
      BY <1>6, <2>1, <2>2
  <1>8. /\ Done(2, "introduce") = 1 /\ Done(3, "introduce") = 1 /\ Done(4, "introduce") = 1
        /\ Done(2, "take") = 1 /\ Done(3, "take") = 1 /\ Done(4, "take") = 1
    BY <1>1, <1>2, <1>4, <1>7 DEF GroupOrder, Atmost1
  <1>9. Done(1, "learn") = 1 /\ Done(2, "learn") = 1 /\ Done(3, "learn") = 1
    BY <1>1, <1>2, <1>8, Discovery
  <1>. QED
    BY <1>6, <1>7, <1>8, <1>9, AroundProcs

\* Who is told the id of the group has been gathered.
LEMMA ToldLate ==
  ASSUME TypeOK, InPlace, Links, Collected, NEW p \in Procs \ {1}, Told(p) # 0
  PROVE  /\ Done(p, "introduce") = 1 /\ Done(Left(p), "learn") = 1
         /\ Len(allPIDs) = 3 /\ Done(2, "say") = 1 /\ Done(3, "say") = 1 /\ Done(4, "say") = 1
  <1>1. Ordered(1) /\ Atmost1(1) /\ p \in {2, 3, 4}
    BY Order, AroundProcs DEF Ordered, MeetingOrder
  <1>2. grouped /\ GroupOrder(1)
    BY <1>1 DEF Told, Ordered, RingOrder
  <1>3. Done(1, "collect3") = 1
    BY <1>1, <1>2 DEF GroupOrder, Atmost1, Told
  <1>. QED
    BY <1>3, Gathered

\* A process that sends or receives has the newest queue.
LEMMA HasQueue ==
  ASSUME TypeOK, InPlace, Newest, NEW p \in Procs, NEW c \in Calls, AtCall(p, c), Moves(p, c), InPlace', TypeOK',
         UNCHANGED programs,
         c \in {"introduce", "close", "say", "tell2", "tell3", "tell4", "learn", "collect1",
                "collect2", "collect3", "join"}
  PROVE  qid[p] = 1 /\ current = 1
  <1>1. Ordered(p) /\ Ordered(p)' /\ (grouped' <=> grouped)
    BY Order, OrderAfter DEF grouped
  <1>2. \A d \in Calls : Done(p, d)' = IF d = c THEN Done(p, d) + 1 ELSE Done(p, d)
    BY DEF Moves
  <1>3. Atmost1(p) /\ Atmost1(p)' /\ Done(p, "get")' = Done(p, "get") /\ Done(p, c)' = 1
    BY <1>1, <1>2 DEF Ordered, MeetingOrder, Atmost1, Calls
  <1>4. CASE c \in {"introduce", "close", "learn"}
    BY <1>1, <1>3, <1>4, Whose DEF Ordered, MeetingOrder, Atmost1, Newest, NewestAt
  <1>5. CASE c \notin {"introduce", "close", "learn"}
    <2>1. grouped /\ (c \in {"say", "join"} <=> p # 1)
      BY <1>5, Whose
    <2>2. Done(p, "unmask0")' = 1
      BY <1>1, <1>3, <1>5, <2>1 DEF Ordered, GroupOrder, Atmost1
    <2>3. Done(p, "get")' = 1
      BY <1>1, <1>3, <2>1, <2>2 DEF Ordered, GroupOrder, MeetingOrder, Atmost1
    <2>. QED
      BY <1>3, <2>3 DEF Newest, NewestAt
  <1>. QED
    BY <1>4, <1>5


LEMMA NowIs ==
  ASSUME TypeOK, InPlace, NEW p \in Procs, NEW c \in Calls, AtCall(p, c), Running(p)
  PROVE  Now(p) = Meaning(p, c)
  <1>1. PICK d \in Calls : AtCall(p, d) /\ Now(p) = Meaning(p, d)
    BY Named
  <1>2. at[p] \in Nat \ {0}
    BY DEF TypeOK
  <1>. QED
    BY <1>1, <1>2, OneCall

\* What holds when p makes call c.
Sound == TypeOK /\ InPlace /\ Newest /\ Links /\ InQueue /\ Collected

Makes(p, c) == AtCall(p, c) /\ Moves(p, c) /\ TypeOK' /\ InPlace' /\ UNCHANGED programs

LEMMA Sent ==
  ASSUME Sound, NEW p \in Procs, NEW c \in {"introduce", "close", "say", "tell2", "tell3", "tell4"},
         Makes(p, c), MsgSnd(p), NEW t \in MsgTypes, NEW whose, Now(p) = Send(t, whose)
  PROVE  /\ \A u \in MsgTypes :
               queue'[1][u] = IF u = t THEN Append(queue[1][t], IF whose = "own" THEN p ELSE left[p])
                              ELSE queue[1][u]
         /\ UNCHANGED <<right, allPIDs, group>>
  <1>1. qid[p] = 1 /\ current = 1
    BY HasQueue DEF Sound, Makes, Calls
  <1>2. queue \in [{0, 1} -> [MsgTypes -> Seq(Pids)]]
    BY DEF Sound, TypeOK
  <1>3. Now(p).type = t /\ Now(p).whose = whose /\ ~QueueGone(p)
    BY <1>1 DEF Send, QueueGone
  <1>4. queue' = [queue EXCEPT ![1][t] = Append(@, IF whose = "own" THEN p ELSE left[p])]
    BY <1>1, <1>3 DEF MsgSnd
  <1>5. UNCHANGED <<right, allPIDs, group>>
    BY DEF MsgSnd, knownVars
  <1>. QED
    BY <1>2, <1>4, <1>5

LEMMA Collected18 ==
  ASSUME Collected, NEW p \in Procs, NEW c \in Calls, Moves(p, c), allPIDs' = allPIDs, queue'[1][18] = queue[1][18],
         c \notin {"say", "collect1", "collect2", "collect3"}
  PROVE  Collected'
  <1>1. \A r \in Procs : \A d \in {"say", "collect1", "collect2", "collect3"} : Done(r, d)' = Done(r, d)
    BY DEF Moves, Calls
  <1>2. 1 \in Procs /\ 2 \in Procs /\ 3 \in Procs /\ 4 \in Procs
    BY DEF Procs
  <1>3. Said' = Said
    BY DEF Said
  <1>4. \A q \in {2, 3, 4} : Done(q, "say")' = Done(q, "say")
    BY <1>1, <1>2
  <1>5. /\ Done(1, "collect1")' = Done(1, "collect1") /\ Done(1, "collect2")' = Done(1, "collect2")
        /\ Done(1, "collect3")' = Done(1, "collect3") /\ Done(2, "say")' = Done(2, "say")
        /\ Done(3, "say")' = Done(3, "say") /\ Done(4, "say")' = Done(4, "say")
    BY <1>1, <1>2
  <1>6. /\ Len(allPIDs') = Done(1, "collect1")' + Done(1, "collect2")' + Done(1, "collect3")'
        /\ Len(allPIDs') + Len(queue'[1][18]) = Done(2, "say")' + Done(3, "say")' + Done(4, "say")'
    BY <1>5 DEF Collected
  <1>7. /\ \A k \in 1..Len(Said') : Said'[k] \in {2, 3, 4}
        /\ \A q \in {2, 3, 4} : \A k \in 1..Len(Said') : Said'[k] = q => Done(q, "say")' = 1
        /\ \A j, k \in 1..Len(Said') : Said'[j] = Said'[k] => j = k
    BY <1>3, <1>4 DEF Collected
  <1>. QED
    BY <1>6, <1>7 DEF Collected

LEMMA Introducing ==
  ASSUME Sound, NEW p \in Procs, Makes(p, "introduce"), MsgSnd(p)
  PROVE  InQueue' /\ Collected'
  <1>1. TypeOK /\ InPlace /\ InQueue /\ Collected /\ Links
    BY DEF Sound
  <1>2. p # 1 /\ p \in MsgTypes /\ 18 \in MsgTypes /\ p # 18
    BY <1>1, Whose DEF Makes, Calls, MsgTypes, Procs
  <1>3. Now(p) = Send(p, "own")
    BY <1>1, NowIs, Meanings DEF Makes, MsgSnd, Does, At, Calls
  <1>4. /\ \A u \in MsgTypes : queue'[1][u] = IF u = p THEN Append(queue[1][p], p) ELSE queue[1][u]
        /\ UNCHANGED <<right, allPIDs, group>>
    BY <1>2, <1>3, Sent
  <1>5. /\ \A r \in Procs, d \in Calls : d # "introduce" => Done(r, d)' = Done(r, d)
        /\ \A r \in Procs : Done(r, "introduce")' =
              IF r = p THEN Done(r, "introduce") + 1 ELSE Done(r, "introduce")
    BY DEF Makes, Moves, Calls
  <1>6. Done(p, "introduce") = 0 /\ Done(p, "introduce")' = 1
    BY <1>1, <1>5, Order, OrderAfter DEF Makes, Ordered, MeetingOrder, Atmost1
  <1>7. Done(Left(p), "learn") = 0
    <2>1. Left(p) \in Procs /\ Left(p) # 4 /\ Right(Left(p)) = p
      BY <1>2, AroundProcs
    <2>2. Done(Left(p), "learn") <= 0 /\ Done(Left(p), "learn") \in Nat
      BY <1>1, <1>6, <2>1, DoneType DEF InQueue, InQueueAt, Announced, Calls
    <2>. QED
      BY <2>2
  <1>8. Told(p) = 0
    BY <1>1, <1>2, <1>6, ToldLate
  <1>9. queue[1][p] = <<>>
    <2>1. queue[1][p] = WaitingFor(p)
      BY <1>1, <1>2 DEF InQueue, InQueueAt
    <2>. QED
      BY <1>6, <1>8, <2>1 DEF WaitingFor
  <1>10. ASSUME NEW q \in Procs
         PROVE  InQueueAt(q)'
    <2>1. InQueueAt(q) /\ Left(q) \in Procs /\ Right(q) \in Procs /\ q \in MsgTypes
          /\ 1 \in Procs /\ 2 \in Procs /\ 4 \in Procs
      BY <1>1, AroundProcs DEF InQueue, MsgTypes
    <2>2. /\ \A d \in Calls : d # "introduce" => Done(q, d)' = Done(q, d) /\ Done(Left(q), d)' = Done(Left(q), d)
          /\ Told(q)' = Told(q) /\ Waiting1' = Waiting1
      BY <1>5, <2>1 DEF Told, Waiting1, Calls
    <2>3. Done(q, "learn")' <= Announced(q)'
      <3>1. Done(q, "learn") <= Announced(q) /\ Done(q, "learn")' = Done(q, "learn")
        BY <2>1, <2>2 DEF InQueueAt, Calls
      <3>2. Done(Right(q), "introduce") \in Nat /\ Done(q, "learn") \in Nat
        BY <1>1, <2>1, DoneType DEF Calls
      <3>. QED
        BY <1>5, <2>1, <3>1, <3>2 DEF Announced, Calls
    <2>4. queue'[1][q] = IF q = 1 THEN Waiting1' ELSE WaitingFor(q)'
      <3>1. CASE q = p
        <4>1. queue'[1][p] = <<p>>
          BY <1>2, <1>4, <1>9
        <4>. QED
          BY <1>2, <1>6, <1>7, <2>2, <3>1, <4>1 DEF WaitingFor, Calls
      <3>2. CASE q # p
        <4>1. queue'[1][q] = queue[1][q] /\ Done(q, "introduce")' = Done(q, "introduce")
          BY <1>4, <1>5, <2>1, <3>2
        <4>. QED
          BY <2>1, <2>2, <4>1 DEF InQueueAt, WaitingFor, Calls
      <3>. QED
        BY <3>1, <3>2
    <2>5. /\ Done(q, "learn")' = 1 => right'[q] = Right(q)
          /\ q # 1 /\ Done(q, "join")' = 1 => group'[q] = 1
          /\ q # 1 => Done(q, "join")' <= Told(q)'
      BY <1>4, <2>1, <2>2 DEF InQueueAt, Calls
    <2>. QED
      BY <2>3, <2>4, <2>5 DEF InQueueAt
  <1>11. Collected'
    BY <1>1, <1>2, <1>4, Collected18 DEF Makes, Calls
  <1>. QED
    BY <1>10, <1>11 DEF InQueue

\* A process whose part of the queue does not change.
LEMMA InQueueSame ==
  ASSUME NEW q \in Procs, InQueueAt(q), queue'[1][q] = queue[1][q], right'[q] = right[q], group'[q] = group[q],
         Done(q, "learn")' = Done(q, "learn"), Done(q, "join")' = Done(q, "join"),
         q = 1 => Waiting1' = Waiting1,
         q # 1 => /\ Told(q)' = Told(q)
                  /\ Done(q, "introduce")' = Done(q, "introduce")
                  /\ Done(Left(q), "learn")' = Done(Left(q), "learn"),
         Done(q, "learn") <= Announced(q)'
  PROVE  InQueueAt(q)'
  BY DEF InQueueAt, WaitingFor

\* P2 sends the pid of its left neighbour, which it has learnt from the signal.
LEMMA Closing ==
  ASSUME Sound, NEW p \in Procs, Makes(p, "close"), MsgSnd(p), OnTheWayAt(p)
  PROVE  InQueue' /\ Collected'
  <1>1. TypeOK /\ InPlace /\ InQueue /\ Collected /\ Links /\ (grouped' <=> grouped)
    BY DEF Sound, Makes, grouped
  <1>2. p = 2 /\ 1 \in MsgTypes /\ 18 \in MsgTypes
    BY <1>1, Whose DEF Makes, Calls, MsgTypes
  <1>3. Now(p) = Send(1, "left")
    BY <1>1, NowIs, Meanings DEF Makes, MsgSnd, Does, At, Calls
  <1>4. /\ \A u \in MsgTypes : queue'[1][u] = IF u = 1 THEN Append(queue[1][1], left[p]) ELSE queue[1][u]
        /\ UNCHANGED <<right, allPIDs, group>>
    <2>1. "left" # "own"
      OBVIOUS
    <2>. QED
      BY <1>2, <1>3, <2>1, Sent
  <1>5. /\ \A r \in Procs, d \in Calls : d # "close" => Done(r, d)' = Done(r, d)
        /\ Done(p, "close")' = Done(p, "close") + 1
    BY DEF Makes, Moves, Calls
  <1>6. Ordered(p) /\ Ordered(p)'
    BY <1>1, Order, OrderAfter DEF Makes
  <1>7. Done(p, "close") = 0 /\ Done(p, "close")' = 1
    BY <1>5, <1>6 DEF Ordered, MeetingOrder, Atmost1
  <1>8. Done(4, "learn") = 0
    <2>1. Done(4, "learn") <= 0 /\ Done(4, "learn") \in Nat
      BY <1>1, <1>2, <1>7, DoneType, AroundProcs DEF InQueue, InQueueAt, Announced, Calls
    <2>. QED
      BY <2>1
  <1>9. left[p] = 1
    <2>1. Done(p, "learn") = 1
      BY <1>2, <1>5, <1>6, <1>7 DEF Ordered, MeetingOrder, Atmost1, Calls
    <2>2. Known(p) = 1
      BY <1>2, <1>6, <2>1 DEF Ordered, MeetingOrder, Atmost1, GroupOrder, Known
    <2>3. Len(told[p]) >= 1
      BY <1>6, <2>2, Heard1 DEF OnTheWayAt, Heard
    <2>4. told[p] # <<>>
      BY <2>3
    <2>. QED
      BY <1>2, <2>4, AroundProcs DEF OnTheWayAt
  <1>10. queue'[1][1] = <<1>>
    <2>1. queue[1][1] = Waiting1
      BY <1>1, AroundProcs DEF InQueue, InQueueAt
    <2>2. queue[1][1] = <<>>
      BY <1>2, <1>7, <2>1 DEF Waiting1
    <2>. QED
      BY <1>2, <1>4, <1>9, <2>2
  <1>11. ASSUME NEW q \in Procs
         PROVE  InQueueAt(q)'
    <2>1. InQueueAt(q) /\ Left(q) \in Procs /\ Right(q) \in Procs /\ q \in MsgTypes /\ 1 \in Procs /\ 4 \in Procs
      BY <1>1, AroundProcs DEF InQueue, MsgTypes
    <2>2. /\ \A r \in Procs : /\ Done(r, "learn")' = Done(r, "learn") /\ Done(r, "join")' = Done(r, "join")
                              /\ Done(r, "introduce")' = Done(r, "introduce")
          /\ Told(q)' = Told(q)
      BY <1>5, <2>1 DEF Told, Calls
    <2>3. Done(q, "learn") <= Announced(q)'
      <3>1. CASE q = 4
        BY <1>2, <1>7, <1>8, <3>1 DEF Announced
      <3>2. CASE q # 4
        BY <2>1, <2>2, <3>2 DEF Announced, InQueueAt
      <3>. QED
        BY <3>1, <3>2
    <2>4. CASE q = 1
      <3>1. Waiting1' = <<1>>
        BY <1>2, <1>7, <1>8, <2>1, <2>2 DEF Waiting1
      <3>. QED
        BY <1>4, <1>10, <2>1, <2>2, <2>3, <2>4, <3>1 DEF InQueueAt
    <2>5. CASE q # 1
      BY <1>4, <2>1, <2>2, <2>3, <2>5, InQueueSame
    <2>. QED
      BY <2>4, <2>5
  <1>12. Collected'
    BY <1>1, <1>2, <1>4, Collected18 DEF Makes, Calls
  <1>. QED
    BY <1>11, <1>12 DEF InQueue

\* One more at the end of the second of two sequences.
LEMMA Longer ==
  ASSUME NEW S, NEW a \in Seq(S), NEW b \in Seq(S), NEW e \in S
  PROVE  /\ Len(a \o b) = Len(a) + Len(b) /\ Len(a \o b) \in Nat
         /\ Len(a \o Append(b, e)) = Len(a) + Len(b) + 1
         /\ (a \o Append(b, e))[Len(a) + Len(b) + 1] = e
         /\ \A k \in 1..(Len(a) + Len(b)) : (a \o Append(b, e))[k] = (a \o b)[k]
  <1>1. /\ Len(a) \in Nat /\ Len(b) \in Nat /\ Append(b, e) \in Seq(S)
        /\ Len(Append(b, e)) = Len(b) + 1 /\ Append(b, e)[Len(b) + 1] = e
        /\ \A k \in 1..Len(b) : Append(b, e)[k] = b[k]
    OBVIOUS
  <1>2. Len(a \o b) = Len(a) + Len(b) /\ Len(a \o Append(b, e)) = Len(a) + Len(b) + 1
    BY <1>1, ConcatProperties
  <1>6. \A k \in 1..(Len(a) + Len(Append(b, e))) :
            (a \o Append(b, e))[k] = IF k <= Len(a) THEN a[k] ELSE Append(b, e)[k - Len(a)]
    BY <1>1, ConcatProperties
  <1>7. \A k \in 1..(Len(a) + Len(b)) : (a \o b)[k] = IF k <= Len(a) THEN a[k] ELSE b[k - Len(a)]
    BY <1>1, ConcatProperties
  <1>3. /\ \A k \in 1..(Len(a) + Len(b) + 1) : (a \o Append(b, e))[k] = IF k <= Len(a) THEN a[k] ELSE Append(b, e)[k - Len(a)]
        /\ \A k \in 1..(Len(a) + Len(b)) : (a \o b)[k] = IF k <= Len(a) THEN a[k] ELSE b[k - Len(a)]
    <2>1. Len(a) + Len(Append(b, e)) = Len(a) + Len(b) + 1
      BY <1>1
    <2>. QED
      BY <1>6, <1>7, <2>1
  <1>4. (a \o Append(b, e))[Len(a) + Len(b) + 1] = e
    BY <1>1, <1>3
  <1>5. ASSUME NEW k \in 1..(Len(a) + Len(b))
        PROVE  (a \o Append(b, e))[k] = (a \o b)[k]
    <2>1. CASE k <= Len(a)
      BY <1>1, <1>3, <2>1
    <2>2. CASE ~(k <= Len(a))
      <3>1. k - Len(a) \in 1..Len(b) /\ k \in 1..(Len(a) + Len(b) + 1)
        BY <1>1, <2>2
      <3>. QED
        BY <1>1, <1>3, <2>2, <3>1
    <2>. QED
      BY <2>1, <2>2
  <1>. QED
    BY <1>1, <1>2, <1>4, <1>5

\* The first of the second sequence moves to the end of the first.
LEMMA Shifted ==
  ASSUME NEW S, NEW a \in Seq(S), NEW b \in Seq(S), b # <<>>
  PROVE  Append(a, Head(b)) \o Tail(b) = a \o b
  <1>1. /\ Len(a) \in Nat /\ Len(b) \in Nat /\ Len(b) > 0 /\ Head(b) \in S /\ Tail(b) \in Seq(S) 
        /\ Len(Tail(b)) = Len(b) - 1 /\ Head(b) = b[1]
        /\ \A k \in 1..(Len(b) - 1) : Tail(b)[k] = b[k + 1]
        /\ Append(a, Head(b)) \in Seq(S) /\ Len(Append(a, Head(b))) = Len(a) + 1
        /\ Append(a, Head(b))[Len(a) + 1] = b[1] /\ \A k \in 1..Len(a) : Append(a, Head(b))[k] = a[k]
    OBVIOUS
  <1>2. /\ Append(a, Head(b)) \o Tail(b) \in Seq(S) /\ a \o b \in Seq(S)
        /\ Len(Append(a, Head(b)) \o Tail(b)) = Len(a) + Len(b) /\ Len(a \o b) = Len(a) + Len(b)
    BY <1>1, ConcatProperties
  <1>5. \A k \in 1..(Len(a) + Len(b)) : (a \o b)[k] = IF k <= Len(a) THEN a[k] ELSE b[k - Len(a)]
    BY <1>1, ConcatProperties
  <1>6. \A k \in 1..(Len(Append(a, Head(b))) + Len(Tail(b))) : (Append(a, Head(b)) \o Tail(b))[k]
            = IF k <= Len(Append(a, Head(b))) THEN Append(a, Head(b))[k]
              ELSE Tail(b)[k - Len(Append(a, Head(b)))]
    BY <1>1, ConcatProperties
  <1>3. \A k \in 1..(Len(a) + Len(b)) : (Append(a, Head(b)) \o Tail(b))[k]
            = IF k <= Len(a) + 1 THEN Append(a, Head(b))[k] ELSE Tail(b)[k - (Len(a) + 1)]
    <2>1. Len(Append(a, Head(b))) + Len(Tail(b)) = Len(a) + Len(b)
      BY <1>1
    <2>. QED
      BY <1>1, <1>6, <2>1
  <1>4. ASSUME NEW k \in 1..(Len(a) + Len(b))
        PROVE  (Append(a, Head(b)) \o Tail(b))[k] = (a \o b)[k]
    <2>1. CASE k <= Len(a)
      BY <1>1, <1>3, <1>5, <2>1
    <2>2. CASE k = Len(a) + 1
      BY <1>1, <1>3, <1>5, <2>2
    <2>3. CASE k > Len(a) + 1
      <3>1. k - (Len(a) + 1) \in 1..(Len(b) - 1) /\ k - (Len(a) + 1) + 1 = k - Len(a)
        BY <1>1, <2>3
      <3>2. Tail(b)[k - (Len(a) + 1)] = b[k - Len(a)]
        BY <1>1, <3>1
      <3>. QED
        BY <1>1, <1>3, <1>5, <2>3, <3>2
    <2>. QED
      BY <1>1, <2>1, <2>2, <2>3
  <1>. QED
    BY <1>2, <1>4, SeqEqual

\* One of the others says its pid to P1.
LEMMA Saying ==
  ASSUME Sound, NEW p \in Procs, Makes(p, "say"), MsgSnd(p)
  PROVE  InQueue' /\ Collected'
  <1>1. TypeOK /\ InPlace /\ InQueue /\ Collected
    BY DEF Sound
  <1>2. p # 1 /\ p \in {2, 3, 4} /\ 18 \in MsgTypes
    BY <1>1, Whose DEF Makes, Calls, MsgTypes, Procs
  <1>3. Now(p) = Send(18, "own")
    BY <1>1, NowIs, Meanings DEF Makes, MsgSnd, Does, At, Calls
  <1>4. /\ \A u \in MsgTypes : queue'[1][u] = IF u = 18 THEN Append(queue[1][18], p) ELSE queue[1][u]
        /\ UNCHANGED <<right, allPIDs, group>>
    BY <1>2, <1>3, Sent
  <1>5. /\ \A r \in Procs, d \in Calls : d # "say" => Done(r, d)' = Done(r, d)
        /\ \A r \in Procs : Done(r, "say")' = IF r = p THEN Done(r, "say") + 1 ELSE Done(r, "say")
    BY DEF Makes, Moves, Calls
  <1>6. Done(p, "say") = 0 /\ Done(p, "say")' = 1
    BY <1>1, <1>5, Order, OrderAfter DEF Makes, Ordered, MeetingOrder, Atmost1
  <1>7. ASSUME NEW q \in Procs
        PROVE  InQueueAt(q)'
    <2>1. InQueueAt(q) /\ Left(q) \in Procs /\ Right(q) \in Procs /\ q \in MsgTypes /\ q # 18
          /\ 1 \in Procs /\ 2 \in Procs /\ 4 \in Procs
      BY <1>1, AroundProcs DEF InQueue, MsgTypes
    <2>2. /\ \A r \in Procs : /\ Done(r, "learn")' = Done(r, "learn") /\ Done(r, "join")' = Done(r, "join")
                              /\ Done(r, "introduce")' = Done(r, "introduce")
                              /\ Done(r, "close")' = Done(r, "close")
          /\ Told(q)' = Told(q)
      BY <1>5, <2>1 DEF Told, Calls
    <2>3. Done(q, "learn") <= Announced(q)' /\ Waiting1' = Waiting1
      BY <2>1, <2>2 DEF Announced, InQueueAt, Waiting1
    <2>. QED
      BY <1>4, <2>1, <2>2, <2>3, InQueueSame
  <1>8. Collected'
    <2>1. /\ allPIDs \in Seq(Pids) /\ queue[1][18] \in Seq(Pids) /\ p \in Pids
          /\ queue'[1][18] = Append(queue[1][18], p) /\ allPIDs' = allPIDs
      BY <1>1, <1>2, <1>4 DEF TypeOK, Pids
    <2>2. /\ Len(Said) = Len(allPIDs) + Len(queue[1][18]) /\ Len(Said) \in Nat
          /\ Len(Said') = Len(Said) + 1 /\ Said'[Len(Said) + 1] = p
          /\ \A k \in 1..Len(Said) : Said'[k] = Said[k]
      <3>1. Said = allPIDs \o queue[1][18] /\ Said' = allPIDs \o Append(queue[1][18], p)
        BY <2>1 DEF Said
      <3>2. ASSUME NEW a \in Seq(Pids), NEW b \in Seq(Pids), NEW e \in Pids
            PROVE  /\ Len(a \o b) = Len(a) + Len(b) /\ Len(a \o b) \in Nat
                   /\ Len(a \o Append(b, e)) = Len(a) + Len(b) + 1
                   /\ (a \o Append(b, e))[Len(a) + Len(b) + 1] = e
                   /\ \A k \in 1..(Len(a) + Len(b)) : (a \o Append(b, e))[k] = (a \o b)[k]
        BY Longer
      <3>3. PICK b \in Seq(Pids) : b = queue[1][18]
        BY <2>1
      <3>4. /\ Len(allPIDs \o b) = Len(allPIDs) + Len(b) /\ Len(allPIDs \o b) \in Nat
            /\ Len(allPIDs \o Append(b, p)) = Len(allPIDs) + Len(b) + 1
            /\ (allPIDs \o Append(b, p))[Len(allPIDs) + Len(b) + 1] = p
            /\ \A k \in 1..(Len(allPIDs) + Len(b)) : (allPIDs \o Append(b, p))[k] = (allPIDs \o b)[k]
        BY <2>1, <3>2, <3>3, Zenon
      <3>5. Said = allPIDs \o b /\ Said' = allPIDs \o Append(b, p)
        BY <3>1, <3>3
      <3>. QED
        BY <3>3, <3>4, <3>5
    <2>10. /\ \A k \in 1..Len(Said) : Said[k] \in {2, 3, 4}
           /\ \A q \in {2, 3, 4} : \A k \in 1..Len(Said) : Said[k] = q => Done(q, "say") = 1
           /\ \A j, k \in 1..Len(Said) : Said[j] = Said[k] => j = k
           /\ Len(allPIDs) = Done(1, "collect1") + Done(1, "collect2") + Done(1, "collect3")
           /\ Len(allPIDs) + Len(queue[1][18]) = Done(2, "say") + Done(3, "say") + Done(4, "say")
      BY <1>1 DEF Collected
    <2>4. \A k \in 1..Len(Said) : Said[k] # p
      BY <1>2, <1>6, <2>10
    <2>3. ASSUME NEW k \in 1..Len(Said')
          PROVE  \/ k = Len(Said) + 1 /\ Said'[k] = p
                 \/ k \in 1..Len(Said) /\ Said'[k] = Said[k] /\ Said[k] # p /\ Said[k] \in {2, 3, 4}
      BY <2>2, <2>4, <2>10
    <2>5. /\ \A k \in 1..Len(Said') : Said'[k] \in {2, 3, 4}
          /\ \A j, k \in 1..Len(Said') : Said'[j] = Said'[k] => j = k
      <3>1. \A k \in 1..Len(Said') : Said'[k] \in {2, 3, 4}
        BY <1>2, <2>3
      <3>2. ASSUME NEW j \in 1..Len(Said'), NEW k \in 1..Len(Said'), Said'[j] = Said'[k]
            PROVE  j = k
        <4>1. CASE j = Len(Said) + 1 /\ Said'[j] = p
          BY <2>3, <3>2, <4>1
        <4>2. CASE j \in 1..Len(Said) /\ Said'[j] = Said[j] /\ Said[j] # p
          BY <2>3, <2>10, <3>2, <4>2
        <4>. QED
          BY <2>3, <4>1, <4>2
      <3>. QED
        BY <3>1, <3>2
    <2>6. \A q \in {2, 3, 4} : \A k \in 1..Len(Said') : Said'[k] = q => Done(q, "say")' = 1
      <3>. SUFFICES ASSUME NEW q \in {2, 3, 4}, NEW k \in 1..Len(Said'), Said'[k] = q
                   PROVE  Done(q, "say")' = 1
        OBVIOUS
      <3>1. CASE q = p
        BY <1>6, <3>1
      <3>2. CASE q # p
        <4>1. k \in 1..Len(Said) /\ Said[k] = q
          BY <2>3, <3>2
        <4>2. Done(q, "say") = 1 /\ q \in Procs
          BY <2>10, <4>1 DEF Procs
        <4>. QED
          BY <1>5, <3>2, <4>2
      <3>. QED
        BY <3>1, <3>2
    <2>7. Len(queue'[1][18]) = Len(queue[1][18]) + 1 /\ Len(queue[1][18]) \in Nat /\ Len(allPIDs) \in Nat
      BY <2>1
    <2>8. /\ Done(1, "collect1")' = Done(1, "collect1") /\ Done(1, "collect2")' = Done(1, "collect2")
          /\ Done(1, "collect3")' = Done(1, "collect3")
          /\ Done(2, "say")' = (IF p = 2 THEN Done(2, "say") + 1 ELSE Done(2, "say"))
          /\ Done(3, "say")' = (IF p = 3 THEN Done(3, "say") + 1 ELSE Done(3, "say"))
          /\ Done(4, "say")' = (IF p = 4 THEN Done(4, "say") + 1 ELSE Done(4, "say"))
          /\ Done(2, "say") \in Nat /\ Done(3, "say") \in Nat /\ Done(4, "say") \in Nat
      BY <1>1, <1>5, DoneType DEF Procs, Calls
    <2>9. /\ Len(allPIDs') = Done(1, "collect1")' + Done(1, "collect2")' + Done(1, "collect3")'
          /\ Len(allPIDs') + Len(queue'[1][18]) = Done(2, "say")' + Done(3, "say")' + Done(4, "say")'
      <3>1. Done(2, "say")' + Done(3, "say")' + Done(4, "say")' = Done(2, "say") + Done(3, "say") + Done(4, "say") + 1
        BY <1>2, <2>8
      <3>2. allPIDs' = allPIDs
        BY <2>1
      <3>. QED
        <4>1. Len(allPIDs') = Done(1, "collect1")' + Done(1, "collect2")' + Done(1, "collect3")'
          BY <2>8, <2>10, <3>2
        <4>2. Len(allPIDs') + Len(queue'[1][18]) = Len(allPIDs) + Len(queue[1][18]) + 1
          BY <2>7, <3>2
        <4>3. Len(allPIDs) + Len(queue[1][18]) = Done(2, "say") + Done(3, "say") + Done(4, "say")
          BY <2>10
        <4>. QED
          BY <3>1, <4>1, <4>2, <4>3
    <2>. QED
      BY <2>5, <2>6, <2>9 DEF Collected
  <1>. QED
    BY <1>7, <1>8 DEF InQueue

\* P1 tells one of the others the id of the group.
LEMMA Telling ==
  ASSUME Sound, NEW p \in Procs, NEW t \in {2, 3, 4}, MsgSnd(p),
         \/ t = 2 /\ Makes(p, "tell2")
         \/ t = 3 /\ Makes(p, "tell3")
         \/ t = 4 /\ Makes(p, "tell4")
  PROVE  InQueue' /\ Collected'
  <1>1. TypeOK /\ InPlace /\ InQueue /\ Collected /\ Links
    BY DEF Sound
  <1>2. PICK c \in {"tell2", "tell3", "tell4"} :
            /\ Makes(p, c)
            /\ t = 2 => c = "tell2"
            /\ t = 3 => c = "tell3"
            /\ t = 4 => c = "tell4"
    <2>1. CASE t = 2 /\ Makes(p, "tell2")
      BY <2>1
    <2>2. CASE t = 3 /\ Makes(p, "tell3")
      BY <2>2
    <2>3. CASE t = 4 /\ Makes(p, "tell4")
      BY <2>3
    <2>. QED
      BY <2>1, <2>2, <2>3
  <1>3. p = 1 /\ grouped /\ t \in MsgTypes /\ t # 18 /\ 18 \in MsgTypes /\ t \in Procs /\ 1 \in Procs /\ c \in Calls
    BY <1>1, <1>2, Whose DEF Makes, Calls, MsgTypes, Procs
  <1>4. Now(p) = Send(t, "own")
    BY <1>1, <1>2, <1>3, NowIs, Meanings DEF Makes, MsgSnd, Does, At
  <1>5. /\ \A u \in MsgTypes : queue'[1][u] = IF u = t THEN Append(queue[1][t], 1) ELSE queue[1][u]
        /\ UNCHANGED <<right, allPIDs, group>>
    BY <1>2, <1>3, <1>4, Sent
  <1>6. /\ \A r \in Procs, d \in Calls : d # c => Done(r, d)' = Done(r, d)
        /\ Done(1, c)' = Done(1, c) + 1
    BY <1>2, <1>3 DEF Makes, Moves
  <1>7. Ordered(1)' /\ GroupOrder(1)' /\ Atmost1(1)' /\ Atmost1(1) /\ (grouped' <=> grouped)
    BY <1>1, <1>2, <1>3, Order, OrderAfter DEF Makes, Ordered, MeetingOrder, grouped
  <1>8. Told(t) = 0 /\ Told(t)' = 1 /\ \A q \in {2, 3, 4} : q # t => Told(q)' = Told(q)
    <2>1. CASE t = 2
      BY <1>2, <1>3, <1>6, <1>7, <2>1 DEF Told, Atmost1, Calls
    <2>2. CASE t = 3
      BY <1>2, <1>3, <1>6, <1>7, <2>2 DEF Told, Atmost1, Calls
    <2>3. CASE t = 4
      BY <1>2, <1>3, <1>6, <1>7, <2>3 DEF Told, Atmost1, Calls
    <2>. QED
      BY <2>1, <2>2, <2>3
  <1>9. Done(1, "collect3") = 1
    <2>1. Done(1, "collect3")' = 1
      BY <1>2, <1>7, <1>8 DEF GroupOrder, Atmost1, Told
    <2>. QED
      BY <1>2, <1>3, <1>6, <2>1 DEF Calls
  <1>10. /\ Done(t, "introduce") = 1 /\ Done(Left(t), "learn") = 1
         /\ Done(t, "introduce")' = 1 /\ Done(Left(t), "learn")' = 1
    <2>1. Done(t, "introduce") = 1 /\ Done(Left(t), "learn") = 1 /\ Left(t) \in Procs
      BY <1>1, <1>3, <1>9, Gathered, AroundProcs
    <2>. QED
      BY <1>2, <1>3, <1>6, <2>1 DEF Calls
  <1>11. ASSUME NEW q \in Procs
         PROVE  InQueueAt(q)'
    <2>1. InQueueAt(q) /\ Left(q) \in Procs /\ Right(q) \in Procs /\ q \in MsgTypes
          /\ 1 \in Procs /\ 2 \in Procs /\ 4 \in Procs
      BY <1>1, AroundProcs DEF InQueue, MsgTypes
    <2>2. /\ \A r \in Procs : /\ Done(r, "learn")' = Done(r, "learn") /\ Done(r, "join")' = Done(r, "join")
                              /\ Done(r, "introduce")' = Done(r, "introduce")
                              /\ Done(r, "close")' = Done(r, "close")
      BY <1>2, <1>6 DEF Calls
    <2>3. Done(q, "learn") <= Announced(q)' /\ Waiting1' = Waiting1
      BY <2>1, <2>2 DEF Announced, InQueueAt, Waiting1
    <2>4. CASE q = t
      <3>1. q # 1 /\ queue[1][q] = WaitingFor(q) /\ Done(q, "join") <= 0 /\ Done(q, "join") \in Nat
        BY <1>1, <1>3, <1>8, <2>1, <2>4, DoneType DEF InQueueAt, Calls
      <3>2. Done(q, "join") = 0 /\ Done(q, "join")' = 0
        BY <2>2, <3>1
      <3>3. queue'[1][q] = <<1>>
        <4>1. queue[1][q] = <<>>
          BY <1>8, <1>10, <2>4, <3>1 DEF WaitingFor
        <4>. QED
          BY <1>3, <1>5, <2>4, <4>1
      <3>4. WaitingFor(q)' = <<1>>
        BY <1>8, <1>10, <2>4, <3>2 DEF WaitingFor
      <3>5. (Done(q, "learn")' = 1 => right'[q] = Right(q)) /\ Done(q, "learn")' <= Announced(q)'
        BY <1>5, <2>1, <2>2, <2>3 DEF InQueueAt
      <3>. QED
        BY <1>8, <2>4, <3>1, <3>2, <3>3, <3>4, <3>5 DEF InQueueAt
    <2>5. CASE q # t
      <3>1. q # 1 => Told(q)' = Told(q)
        BY <1>8, <2>5, AroundProcs
      <3>2. queue'[1][q] = queue[1][q]
        BY <1>5, <2>1, <2>5
      <3>. QED
        BY <1>5, <2>1, <2>2, <2>3, <3>1, <3>2, InQueueSame
    <2>. QED
      BY <2>4, <2>5
  <1>12. Collected'
    <2>1. queue'[1][18] = queue[1][18]
      BY <1>3, <1>5
    <2>. QED
      BY <1>1, <1>2, <1>3, <1>5, <2>1, Collected18 DEF Makes
  <1>. QED
    BY <1>11, <1>12 DEF InQueue

LEMMA Received ==
  ASSUME Sound, NEW p \in Procs, NEW c \in {"learn", "collect1", "collect2", "collect3", "join"},
         Makes(p, c), NEW t \in MsgTypes, NEW into, Now(p) = Receive(t, into)
  PROVE  /\ ~MsgRcvFails(p)
         /\ MsgRcv(p) =>
              /\ queue[1][t] # <<>>
              /\ \A u \in MsgTypes : queue'[1][u] = IF u = t THEN Tail(queue[1][t]) ELSE queue[1][u]
              /\ into = "right" => /\ right' = [right EXCEPT ![p] = Head(queue[1][t])]
                                   /\ UNCHANGED <<allPIDs, group>>
              /\ into = "all" => /\ allPIDs' = Append(allPIDs, Head(queue[1][t]))
                                 /\ UNCHANGED <<right, group>>
              /\ into = "group" => /\ group' = [group EXCEPT ![p] = Head(queue[1][t])]
                                   /\ UNCHANGED <<right, allPIDs>>
  <1>1. qid[p] = 1 /\ current = 1
    BY HasQueue DEF Sound, Makes, Calls
  <1>2. queue \in [{0, 1} -> [MsgTypes -> Seq(Pids)]]
    BY DEF Sound, TypeOK
  <1>3. Now(p).type = t /\ Now(p).into = into /\ ~QueueGone(p)
    BY <1>1 DEF Receive, QueueGone
  <1>4. ASSUME MsgRcv(p)
        PROVE  /\ queue[1][t] # <<>> /\ Learns(p, Head(queue[1][t]))
               /\ queue' = [queue EXCEPT ![1][t] = Tail(queue[1][t])]
    BY <1>1, <1>3, <1>4 DEF MsgRcv
  <1>5. ASSUME MsgRcv(p)
        PROVE  \A u \in MsgTypes : queue'[1][u] = IF u = t THEN Tail(queue[1][t]) ELSE queue[1][u]
    BY <1>2, <1>4, <1>5
  <1>6. "right" # "all" /\ "right" # "group" /\ "all" # "group"
    OBVIOUS
  <1>7. ASSUME MsgRcv(p)
        PROVE  /\ into = "right" => /\ right' = [right EXCEPT ![p] = Head(queue[1][t])]
                                    /\ UNCHANGED <<allPIDs, group>>
               /\ into = "all" => /\ allPIDs' = Append(allPIDs, Head(queue[1][t]))
                                  /\ UNCHANGED <<right, group>>
               /\ into = "group" => /\ group' = [group EXCEPT ![p] = Head(queue[1][t])]
                                    /\ UNCHANGED <<right, allPIDs>>
    BY <1>3, <1>4, <1>6, <1>7 DEF Learns
  <1>8. ~MsgRcvFails(p)
    BY <1>3 DEF MsgRcvFails
  <1>. QED
    BY <1>4, <1>5, <1>7, <1>8

\* A process learns the pid of its right neighbour, and not what is meant for that one.
LEMMA Learning ==
  ASSUME Sound, NEW p \in Procs, Makes(p, "learn"), MsgRcv(p)
  PROVE  InQueue' /\ Collected'
  <1>1. TypeOK /\ InPlace /\ InQueue /\ Collected /\ Links
    BY DEF Sound
  <1>2. PICK n \in Procs : n = Right(p) /\ n # p /\ n \in MsgTypes /\ n # 18 /\ 18 \in MsgTypes /\ Left(n) = p
    BY AroundProcs DEF MsgTypes
  <1>3. Now(p) = Receive(n, "right")
    BY <1>1, <1>2, NowIs, Meanings DEF Makes, MsgRcv, Does, At, Calls, Right
  <1>4. /\ queue[1][n] # <<>>
        /\ \A u \in MsgTypes : queue'[1][u] = IF u = n THEN Tail(queue[1][n]) ELSE queue[1][u]
        /\ right' = [right EXCEPT ![p] = Head(queue[1][n])] /\ UNCHANGED <<allPIDs, group>>
    BY <1>2, <1>3, Received
  <1>5. /\ \A r \in Procs, d \in Calls : d # "learn" => Done(r, d)' = Done(r, d)
        /\ \A r \in Procs : r # p => Done(r, "learn")' = Done(r, "learn")
        /\ Done(p, "learn")' = Done(p, "learn") + 1
    BY DEF Makes, Moves, Calls
  <1>6. Done(p, "learn") = 0 /\ Done(p, "learn")' = 1
    BY <1>1, <1>5, Order, OrderAfter DEF Makes, Ordered, MeetingOrder, Atmost1
  <1>7. n # 1 => Told(n) = 0
    <2>1. n # 1 => (Told(n) # 0 => Done(Left(n), "learn") = 1)
      BY <1>1, <1>2, ToldLate
    <2>. QED
      BY <1>2, <1>6, <2>1
  <1>8. queue[1][n] = <<n>> /\ Announced(p) = 1
    <2>1. InQueueAt(n)
      BY <1>1, <1>2 DEF InQueue
    <2>2. CASE n = 1
      <3>1. p = 4 /\ queue[1][n] = Waiting1
        BY <1>2, <2>1, <2>2, AroundProcs DEF InQueueAt
      <3>. QED
        BY <1>4, <2>2, <3>1 DEF Waiting1, Announced
    <2>3. CASE n # 1
      <3>1. p # 4 /\ queue[1][n] = WaitingFor(n)
        BY <1>2, <2>1, <2>3, AroundProcs DEF InQueueAt
      <3>. QED
        BY <1>2, <1>4, <1>6, <1>7, <2>3, <3>1 DEF WaitingFor, Announced
    <2>. QED
      BY <2>2, <2>3
  <1>9. right'[p] = n /\ queue'[1][n] = <<>> /\ \A r \in Procs : r # p => right'[r] = right[r]
    BY <1>1, <1>2, <1>4, <1>8 DEF TypeOK
  <1>10. ASSUME NEW q \in Procs
         PROVE  InQueueAt(q)'
    <2>1. InQueueAt(q) /\ Left(q) \in Procs /\ Right(q) \in Procs /\ q \in MsgTypes
          /\ 1 \in Procs /\ 2 \in Procs /\ 4 \in Procs
      BY <1>1, AroundProcs DEF InQueue, MsgTypes
    <2>2. /\ \A r \in Procs : /\ Done(r, "join")' = Done(r, "join")
                              /\ Done(r, "introduce")' = Done(r, "introduce")
                              /\ Done(r, "close")' = Done(r, "close")
          /\ Told(q)' = Told(q) /\ Announced(q)' = Announced(q) /\ Announced(p)' = Announced(p)
      <3>1. \A r \in Procs : /\ Done(r, "join")' = Done(r, "join")
                              /\ Done(r, "introduce")' = Done(r, "introduce")
                              /\ Done(r, "close")' = Done(r, "close")
        BY <1>5 DEF Calls
      <3>2. Told(q)' = Told(q)
        BY <1>5, <2>1 DEF Told, Calls
      <3>. QED
        BY <1>2, <2>1, <3>1, <3>2 DEF Announced
    <2>3. CASE q = n
      <3>1. Done(q, "learn")' = Done(q, "learn") /\ right'[q] = right[q] /\ group'[q] = group[q]
        BY <1>2, <1>4, <1>5, <1>9, <2>3
      <3>2. queue'[1][q] = IF q = 1 THEN Waiting1' ELSE WaitingFor(q)'
        <4>1. CASE q = 1
          <5>1. p = 4
            BY <1>2, <2>3, <4>1, AroundProcs
          <5>. QED
            BY <1>6, <1>9, <2>3, <4>1, <5>1 DEF Waiting1
        <4>2. CASE q # 1
          BY <1>2, <1>6, <1>7, <1>9, <2>2, <2>3, <4>2 DEF WaitingFor
        <4>. QED
          BY <4>1, <4>2
      <3>. QED
        BY <2>1, <2>2, <3>1, <3>2 DEF InQueueAt
    <2>4. CASE q = p
      <3>1. queue'[1][q] = queue[1][q] /\ Left(q) # p
        BY <1>2, <1>4, <2>1, <2>4, AroundProcs
      <3>2. queue'[1][q] = IF q = 1 THEN Waiting1' ELSE WaitingFor(q)'
        <4>1. CASE q = 1
          BY <1>5, <2>1, <2>2, <2>4, <3>1, <4>1 DEF Waiting1, InQueueAt
        <4>2. CASE q # 1
          BY <1>5, <2>1, <2>2, <3>1, <4>2 DEF WaitingFor, InQueueAt
        <4>. QED
          BY <4>1, <4>2
      <3>3. group' = group
        BY <1>4
      <3>. QED
        BY <1>2, <1>6, <1>8, <1>9, <2>1, <2>2, <2>4, <3>2, <3>3 DEF InQueueAt
    <2>5. CASE q # p /\ q # n
      <3>1. queue'[1][q] = queue[1][q] /\ right'[q] = right[q] /\ group'[q] = group[q]
            /\ Done(q, "learn")' = Done(q, "learn") /\ Left(q) # p
        BY <1>2, <1>4, <1>5, <1>9, <2>1, <2>5, AroundProcs
      <3>2. q = 1 => Waiting1' = Waiting1
        <4>1. q = 1 => p # 4
          BY <1>2, <2>5, AroundProcs
        <4>. QED
          BY <1>5, <2>1, <2>2, <4>1 DEF Waiting1
      <3>3. Done(Left(q), "learn")' = Done(Left(q), "learn") /\ Done(q, "learn") <= Announced(q)'
        BY <1>5, <2>1, <2>2, <3>1 DEF InQueueAt
      <3>. QED
        BY <2>1, <2>2, <3>1, <3>2, <3>3, InQueueSame
    <2>. QED
      BY <2>3, <2>4, <2>5
  <1>11. Collected'
    <2>1. queue'[1][18] = queue[1][18]
      BY <1>2, <1>4
    <2>. QED
      BY <1>1, <1>4, <2>1, Collected18 DEF Makes, Calls
  <1>. QED
    BY <1>10, <1>11 DEF InQueue

\* P1 receives one of the three pids.
LEMMA Collecting ==
  ASSUME Sound, NEW p \in Procs, NEW c \in {"collect1", "collect2", "collect3"}, Makes(p, c), MsgRcv(p)
  PROVE  InQueue' /\ Collected'
  <1>1. TypeOK /\ InPlace /\ InQueue /\ Collected /\ Links
    BY DEF Sound
  <1>2. p = 1 /\ 18 \in MsgTypes /\ c \in Calls
    BY <1>1, Whose DEF Makes, Calls, MsgTypes
  <1>3. Now(p) = Receive(18, "all")
    BY <1>1, <1>2, NowIs, Meanings DEF Makes, MsgRcv, Does, At
  <1>4. /\ queue[1][18] # <<>>
        /\ \A u \in MsgTypes : queue'[1][u] = IF u = 18 THEN Tail(queue[1][18]) ELSE queue[1][u]
        /\ allPIDs' = Append(allPIDs, Head(queue[1][18])) /\ UNCHANGED <<right, group>>
    BY <1>2, <1>3, Received
  <1>5. /\ \A r \in Procs, d \in Calls : d # c => Done(r, d)' = Done(r, d)
        /\ Done(1, c)' = Done(1, c) + 1
    BY <1>2 DEF Makes, Moves
  <1>6. ASSUME NEW q \in Procs
        PROVE  InQueueAt(q)'
    <2>1. InQueueAt(q) /\ Left(q) \in Procs /\ Right(q) \in Procs /\ q \in MsgTypes /\ q # 18
          /\ 1 \in Procs /\ 2 \in Procs /\ 4 \in Procs
      BY <1>1, AroundProcs DEF InQueue, MsgTypes
    <2>2. /\ \A r \in Procs : /\ Done(r, "learn")' = Done(r, "learn") /\ Done(r, "join")' = Done(r, "join")
                              /\ Done(r, "introduce")' = Done(r, "introduce")
                              /\ Done(r, "close")' = Done(r, "close")
      BY <1>5 DEF Calls
    <2>3. Told(q)' = Told(q)
      BY <1>5, <2>1 DEF Told, Calls
    <2>4. Done(q, "learn") <= Announced(q)' /\ Waiting1' = Waiting1
      BY <2>1, <2>2 DEF Announced, InQueueAt, Waiting1
    <2>5. queue'[1][q] = queue[1][q]
      BY <1>4, <2>1
    <2>. QED
      BY <1>4, <2>1, <2>2, <2>3, <2>4, <2>5, InQueueSame
  <1>7. Collected'
    <2>1. allPIDs \in Seq(Pids) /\ queue[1][18] \in Seq(Pids) /\ queue'[1][18] = Tail(queue[1][18])
      BY <1>1, <1>2, <1>4 DEF TypeOK
    <2>2. PICK b \in Seq(Pids) : b = queue[1][18]
      BY <2>1
    <2>3. /\ Len(allPIDs') = Len(allPIDs) + 1 /\ Len(queue'[1][18]) = Len(queue[1][18]) - 1
          /\ Len(allPIDs) \in Nat /\ Len(queue[1][18]) \in Nat
      <3>1. b # <<>> /\ allPIDs' = Append(allPIDs, Head(b)) /\ queue'[1][18] = Tail(b)
        BY <1>4, <2>1, <2>2
      <3>2. Head(b) \in Pids /\ Len(Tail(b)) = Len(b) - 1 /\ Len(b) \in Nat
        BY <3>1
      <3>. QED
        BY <2>1, <2>2, <3>1, <3>2
    <2>4. Said' = Said
      <3>1. ASSUME NEW u \in Seq(Pids), NEW v \in Seq(Pids), v # <<>>
            PROVE  Append(u, Head(v)) \o Tail(v) = u \o v
        BY <3>1, Shifted
      <3>2. Append(allPIDs, Head(b)) \o Tail(b) = allPIDs \o b
        BY <1>4, <2>1, <2>2, <3>1
      <3>3. Said = allPIDs \o b /\ Said' = Append(allPIDs, Head(b)) \o Tail(b)
        BY <1>4, <2>1, <2>2 DEF Said
      <3>. QED
        BY <3>2, <3>3
    <2>5. \A q \in {2, 3, 4} : Done(q, "say")' = Done(q, "say")
      BY <1>5, AroundProcs DEF Calls
    <2>6. Done(1, "collect1")' + Done(1, "collect2")' + Done(1, "collect3")'
            = Done(1, "collect1") + Done(1, "collect2") + Done(1, "collect3") + 1
      <3>1. Done(1, "collect1") \in Nat /\ Done(1, "collect2") \in Nat /\ Done(1, "collect3") \in Nat
        BY <1>1, <1>2, DoneType DEF Calls
      <3>2. CASE c = "collect1"
        BY <1>2, <1>5, <3>1, <3>2 DEF Calls
      <3>3. CASE c = "collect2"
        BY <1>2, <1>5, <3>1, <3>3 DEF Calls
      <3>4. CASE c = "collect3"
        BY <1>2, <1>5, <3>1, <3>4 DEF Calls
      <3>. QED
        BY <3>2, <3>3, <3>4
    <2>7. /\ Len(allPIDs) = Done(1, "collect1") + Done(1, "collect2") + Done(1, "collect3")
          /\ Len(allPIDs) + Len(queue[1][18]) = Done(2, "say") + Done(3, "say") + Done(4, "say")
      BY <1>1 DEF Collected
    <2>8. /\ Len(allPIDs') = Done(1, "collect1")' + Done(1, "collect2")' + Done(1, "collect3")'
          /\ Len(allPIDs') + Len(queue'[1][18]) = Done(2, "say")' + Done(3, "say")' + Done(4, "say")'
      <3>1. Len(allPIDs') + Len(queue'[1][18]) = Len(allPIDs) + Len(queue[1][18])
        <4>1. ASSUME NEW m \in Nat, NEW n \in Nat
              PROVE  (m + 1) + (n - 1) = m + n
          OBVIOUS
        <4>. QED
          BY <2>3, <4>1
      <3>2. Len(allPIDs') = Done(1, "collect1")' + Done(1, "collect2")' + Done(1, "collect3")'
        BY <2>3, <2>6, <2>7
      <3>. QED
        BY <2>5, <2>7, <3>1, <3>2
    <2>9. /\ \A k \in 1..Len(Said') : Said'[k] \in {2, 3, 4}
          /\ \A q \in {2, 3, 4} : \A k \in 1..Len(Said') : Said'[k] = q => Done(q, "say")' = 1
          /\ \A j, k \in 1..Len(Said') : Said'[j] = Said'[k] => j = k
      BY <1>1, <2>4, <2>5 DEF Collected
    <2>. QED
      BY <2>8, <2>9 DEF Collected
  <1>. QED
    BY <1>6, <1>7 DEF InQueue

\* One of the others receives the id of the group, and not its own introduction.
LEMMA Joining ==
  ASSUME Sound, NEW p \in Procs, Makes(p, "join"), MsgRcv(p)
  PROVE  InQueue' /\ Collected'
  <1>1. TypeOK /\ InPlace /\ InQueue /\ Collected /\ Links /\ (grouped' <=> grouped)
    BY DEF Sound, Makes, grouped
  <1>2. p # 1 /\ grouped /\ p \in {2, 3, 4} /\ p \in MsgTypes /\ p # 18 /\ 18 \in MsgTypes /\ Left(p) \in Procs
    BY <1>1, Whose, AroundProcs DEF Makes, Calls, MsgTypes
  <1>3. Now(p) = Receive(p, "group")
    BY <1>1, <1>2, NowIs, Meanings DEF Makes, MsgRcv, Does, At, Calls
  <1>4. /\ queue[1][p] # <<>>
        /\ \A u \in MsgTypes : queue'[1][u] = IF u = p THEN Tail(queue[1][p]) ELSE queue[1][u]
        /\ group' = [group EXCEPT ![p] = Head(queue[1][p])] /\ UNCHANGED <<right, allPIDs>>
    BY <1>2, <1>3, Received
  <1>5. /\ \A r \in Procs, d \in Calls : d # "join" => Done(r, d)' = Done(r, d)
        /\ \A r \in Procs : r # p => Done(r, "join")' = Done(r, "join")
        /\ Done(p, "join")' = Done(p, "join") + 1
    BY DEF Makes, Moves, Calls
  <1>6. Ordered(p)' /\ Atmost1(p)' /\ Atmost1(p) /\ GroupOrder(p)' /\ Ordered(Left(p))
    BY <1>1, <1>2, Order, OrderAfter DEF Makes, Ordered, MeetingOrder
  <1>7. Done(p, "join") = 0 /\ Done(p, "join")' = 1
    BY <1>5, <1>6 DEF Atmost1
  <1>8. Done(Left(p), "learn") = 1
    <2>1. Done(p, "wake")' = 1
      BY <1>2, <1>6, <1>7 DEF GroupOrder, Atmost1
    <2>2. Done(p, "take")' = 1
      BY <1>2, <1>6, <2>1 DEF Ordered, MeetingOrder, Atmost1
    <2>3. Done(p, "take") = 1
      BY <1>5, <2>2 DEF Calls
    <2>4. Done(Left(p), "meet") = 1
      BY <1>1, <1>2, <1>6, <2>3 DEF Links, Ordered, MeetingOrder, Atmost1
    <2>. QED
      BY <1>6, <2>4 DEF Ordered, MeetingOrder, Atmost1
  <1>9. queue[1][p] = <<1>> /\ Told(p) = 1
    <2>1. queue[1][p] = WaitingFor(p)
      BY <1>1, <1>2 DEF InQueue, InQueueAt
    <2>. QED
      BY <1>4, <1>8, <2>1 DEF WaitingFor
  <1>10. group'[p] = 1 /\ queue'[1][p] = <<>> /\ \A r \in Procs : r # p => group'[r] = group[r]
    BY <1>1, <1>2, <1>4, <1>9 DEF TypeOK
  <1>11. ASSUME NEW q \in Procs
         PROVE  InQueueAt(q)'
    <2>1. InQueueAt(q) /\ Left(q) \in Procs /\ Right(q) \in Procs /\ q \in MsgTypes
          /\ 1 \in Procs /\ 2 \in Procs /\ 4 \in Procs
      BY <1>1, AroundProcs DEF InQueue, MsgTypes
    <2>2. /\ \A r \in Procs : /\ Done(r, "learn")' = Done(r, "learn")
                              /\ Done(r, "introduce")' = Done(r, "introduce")
                              /\ Done(r, "close")' = Done(r, "close")
      BY <1>5 DEF Calls
    <2>3. Told(q)' = Told(q)
      BY <1>5, <2>1 DEF Told, Calls
    <2>4. Done(q, "learn") <= Announced(q)' /\ Waiting1' = Waiting1
      BY <2>1, <2>2 DEF Announced, InQueueAt, Waiting1
    <2>5. CASE q = p
      <3>1. WaitingFor(q)' = <<>>
        BY <1>7, <1>8, <2>1, <2>2, <2>5 DEF WaitingFor
      <3>2. (Done(q, "learn")' = 1 => right'[q] = Right(q)) /\ Done(q, "learn")' <= Announced(q)'
        BY <1>4, <2>1, <2>2, <2>4 DEF InQueueAt
      <3>. QED
        BY <1>2, <1>7, <1>9, <1>10, <2>3, <2>5, <3>1, <3>2 DEF InQueueAt
    <2>6. CASE q # p
      <3>1. queue'[1][q] = queue[1][q]
        BY <1>4, <2>1, <2>6
      <3>. QED
        BY <1>4, <1>5, <1>10, <2>1, <2>2, <2>3, <2>4, <2>6, <3>1, InQueueSame
    <2>. QED
      BY <2>5, <2>6
  <1>12. Collected'
    <2>1. queue'[1][18] = queue[1][18]
      BY <1>2, <1>4
    <2>. QED
      BY <1>1, <1>4, <2>1, Collected18 DEF Makes, Calls
  <1>. QED
    BY <1>11, <1>12 DEF InQueue

LEMMA InQueueStep ==
  ASSUME PlaceInv, Newest, Counted, InQueue, Collected, OnTheWay, NEW p \in Procs, Step(p)
  PROVE  InQueue' /\ Collected'
  <1>1. Sound /\ TypeOK /\ InPlace /\ OnTheWayAt(p)
    BY LinksOf DEF PlaceInv, Sound, OnTheWay
  <1>2. PICK c \in Calls : AtCall(p, c) /\ Moves(p, c) /\ Now(p) = Meaning(p, c)
    BY <1>1, StepCall
  <1>3. TypeOK' /\ InPlace' /\ Running(p) /\ UNCHANGED programs
    BY <1>1, StepCall, StepType
  <1>4. \A d \in Calls : AtCall(p, d) => Makes(p, d)
    BY <1>1, <1>2, <1>3, OneCall DEF Makes, TypeOK
  <1>5. CASE MsgSnd(p)
    <2>1. At(p, "send")
      BY <1>5 DEF MsgSnd, Does
    <2>2. \/ Makes(p, "introduce") \/ Makes(p, "close") \/ Makes(p, "say")
          \/ Makes(p, "tell2") \/ Makes(p, "tell3") \/ Makes(p, "tell4")
      BY <1>1, <1>4, <2>1, Sending DEF Calls
    <2>3. CASE Makes(p, "introduce")
      BY <1>1, <1>5, <2>3, Introducing
    <2>4. CASE Makes(p, "close")
      BY <1>1, <1>5, <2>4, Closing
    <2>5. CASE Makes(p, "say")
      BY <1>1, <1>5, <2>5, Saying
    <2>6. CASE Makes(p, "tell2") \/ Makes(p, "tell3") \/ Makes(p, "tell4")
      BY <1>1, <1>5, <2>6, Telling
    <2>. QED
      BY <2>2, <2>3, <2>4, <2>5, <2>6
  <1>6. CASE MsgRcv(p) \/ MsgRcvFails(p)
    <2>1. At(p, "receive")
      BY <1>6 DEF MsgRcv, MsgRcvFails, Does
    <2>2. \/ Makes(p, "learn") \/ Makes(p, "collect1") \/ Makes(p, "collect2")
          \/ Makes(p, "collect3") \/ Makes(p, "join")
      BY <1>1, <1>4, <2>1, Receiving DEF Calls
    <2>3. MsgRcv(p)
      <3>1. Now(p).type \in MsgTypes /\ \E into : Now(p) = Receive(Now(p).type, into)
        BY <1>1, <2>1, Receiving, TypeOf DEF Receive
      <3>2. PICK into : Now(p) = Receive(Now(p).type, into)
        BY <3>1
      <3>3. ~MsgRcvFails(p)
        BY <1>1, <2>2, <3>1, <3>2, Received
      <3>. QED
        BY <1>6, <3>3
    <2>4. CASE Makes(p, "learn")
      BY <1>1, <2>3, <2>4, Learning
    <2>5. CASE Makes(p, "collect1") \/ Makes(p, "collect2") \/ Makes(p, "collect3")
      BY <1>1, <2>3, <2>5, Collecting
    <2>6. CASE Makes(p, "join")
      BY <1>1, <2>3, <2>6, Joining
    <2>. QED
      BY <2>2, <2>4, <2>5, <2>6
  <1>7. CASE ~MsgSnd(p) /\ ~(MsgRcv(p) \/ MsgRcvFails(p))
    <2>1. /\ UNCHANGED <<queue, right, allPIDs, group>>
          /\ \E op \in {"open", "unlink", "post", "wait", "remove", "msgget", "kill", "change", "mask", "unmask"} :
               At(p, op)
      BY <1>7 DEF Step, SemOpen, SemUnlink, SemPost, SemWait, RemoveQueue, MsgGet, SendSignal, ChangeHandler,
         MaskSignal, UnmaskSignal, queueVars, knownVars, Does
    <2>2. c \notin {"introduce", "close", "say", "tell2", "tell3", "tell4", "learn", "collect1",
                    "collect2", "collect3", "join"}
      BY <1>1, <1>2, <2>1, OnlyCall, OpOf
    <2>. QED
      BY <1>1, <1>2, <2>1, <2>2, InQueueFrame DEF Sound
  <1>. QED
    BY <1>5, <1>6, <1>7

LEMMA InQueueStays ==
  ASSUME InQueue, Collected, Stays, UNCHANGED <<queue, right, allPIDs, group>>
  PROVE  InQueue' /\ Collected'
  <1>1. \A r \in Procs : \A d \in {"introduce", "close", "say", "tell2", "tell3", "tell4", "learn", "collect1",
                                   "collect2", "collect3", "join"} : Done(r, d)' = Done(r, d)
    BY DEF Stays, Calls
  <1>. QED
    BY <1>1, InQueueUnchanged

\* A signal that is handled between two calls leaves the process where it was, and one
\* that ends a call does not.
LEMMA StaysOrMoves ==
  ASSUME PlaceInv, NEW p \in Procs, NEW s \in Signals, Deliver(p, s), UNCHANGED programs, UNCHANGED progressVars
  PROVE  Stays /\ UNCHANGED knownVars
  <1>1. TypeOK /\ InPlace /\ Stays /\ Running(p)
    BY StandStill, InterruptType DEF PlaceInv
  <1>2. ~Advance(p)
    <2>1. SUFFICES ASSUME Advance(p) PROVE FALSE
      OBVIOUS
    <2>2. PICK c \in Calls : AtCall(p, c)
      BY <1>1, Named
    <2>3. Done(p, c)' = Done(p, c) + 1 /\ Done(p, c)' = Done(p, c) /\ Done(p, c) \in Nat
      BY <1>1, <2>1, <2>2, DoneStep, DoneType DEF Stays
    <2>. QED
      BY <2>3
  <1>. QED
    BY <1>1, <1>2 DEF Deliver

LEMMA InQueueInterrupt ==
  ASSUME PlaceInv, Counted, InQueue, Collected, OnTheWay, NEW p \in Procs, NEW s \in Signals, Deliver(p, s),
         UNCHANGED programs
  PROVE  InQueue' /\ Collected'
  <1>1. TypeOK /\ InPlace /\ Links /\ OnTheWayAt(p) /\ queue' = queue
    BY LinksOf DEF PlaceInv, OnTheWay, Deliver, queueVars
  <1>2. CASE UNCHANGED progressVars
    BY <1>1, <1>2, StaysOrMoves, InQueueStays DEF knownVars
  <1>3. CASE ~UNCHANGED progressVars
    <2>1. Moves(p, "take") /\ UNCHANGED knownVars /\ "take" \in Calls
      BY <1>1, <1>3, OnlyTheFirstWait DEF Calls
    <2>. QED
      BY <1>1, <2>1, InQueueFrame DEF knownVars
  <1>. QED
    BY <1>2, <1>3

-----------------------------------------------------------------------------
(* The signals *)

\* The counters of the signals change only with the calls they count.
LEMMA Counters ==
  ASSUME NEW p \in Procs, NEW c \in Calls, Moves(p, c), UNCHANGED programs
  PROVE  /\ c \notin {"meet", "kill1", "kill2"} =>
              \A q \in Procs : Signalled(q)' = Signalled(q) /\ ToLeft(Right(q))' = ToLeft(Right(q))
         /\ \A q \in Procs : q # p => Heard(q)' = Heard(q)
         /\ c \notin {"take", "unmask0", "unmask1", "unmask2"} => Heard(p)' = Heard(p)
  <1>1. \A q \in Procs : Left(q) \in Procs /\ Right(q) \in Procs
    BY AroundProcs
  <1>2. \A q \in Procs, d \in Calls : q # p \/ d # c => Done(q, d)' = Done(q, d)
    BY DEF Moves
  <1>3. grouped' <=> grouped
    BY DEF grouped
  <1>4. ASSUME c \notin {"meet", "kill1", "kill2"}, NEW q \in Procs
        PROVE  Signalled(q)' = Signalled(q) /\ ToLeft(Right(q))' = ToLeft(Right(q))
    <2>1. /\ Done(Left(q), "meet")' = Done(Left(q), "meet") /\ Done(Left(q), "kill1")' = Done(Left(q), "kill1")
          /\ Done(Right(q), "kill2")' = Done(Right(q), "kill2")
      BY <1>1, <1>2, <1>4 DEF Calls
    <2>. QED
      BY <2>1 DEF Signalled, ToRight, ToLeft
  <1>5. ASSUME NEW q \in Procs, q # p \/ c \notin {"take", "unmask0", "unmask1", "unmask2"}
        PROVE  Heard(q)' = Heard(q)
    <2>1. /\ Done(q, "take")' = Done(q, "take") /\ Done(q, "unmask0")' = Done(q, "unmask0")
          /\ Done(q, "unmask1")' = Done(q, "unmask1") /\ Done(q, "unmask2")' = Done(q, "unmask2")
      BY <1>2, <1>5 DEF Calls
    <2>. QED
      BY <1>3, <2>1 DEF Heard, Known
  <1>. QED
    BY <1>4, <1>5

LEMMA CountersStay ==
  ASSUME Stays, UNCHANGED programs, NEW q \in Procs
  PROVE  Signalled(q)' = Signalled(q) /\ ToLeft(Right(q))' = ToLeft(Right(q)) /\ Heard(q)' = Heard(q)
  <1>1. Left(q) \in Procs /\ Right(q) \in Procs /\ (grouped' <=> grouped)
    BY AroundProcs DEF grouped
  <1>2. /\ Done(Left(q), "meet")' = Done(Left(q), "meet") /\ Done(Left(q), "kill1")' = Done(Left(q), "kill1")
        /\ Done(Right(q), "kill2")' = Done(Right(q), "kill2")
        /\ Done(q, "take")' = Done(q, "take") /\ Done(q, "unmask0")' = Done(q, "unmask0")
        /\ Done(q, "unmask1")' = Done(q, "unmask1") /\ Done(q, "unmask2")' = Done(q, "unmask2")
    BY <1>1 DEF Stays, Calls
  <1>. QED
    BY <1>1, <1>2 DEF Signalled, ToRight, ToLeft, Heard, Known

\* A process to which nothing happens.
LEMMA OnTheWaySame ==
  ASSUME NEW q \in Procs, OnTheWayAt(q), told'[q] = told[q], left'[q] = left[q], pending'[q] = pending[q],
         Signalled(q)' = Signalled(q), Heard(q)' = Heard(q), ToLeft(Right(q))' = ToLeft(Right(q))
  PROVE  OnTheWayAt(q)'
  <1>1. InFlight(q)' = InFlight(q) /\ ToldAt(q)'
    BY DEF InFlight, ToldAt, OnTheWayAt
  <1>. QED
    BY <1>1 DEF OnTheWayAt

\* What a handler does of what p has been sent: all but the count of what p must have handled.
LEMMA Handling ==
  ASSUME PlaceInv, Begun, Bounded, NEW p \in Procs, OnTheWayAt(p), NEW s \in Signals, Handle(p, s), pending[p][s] # 0,
         Signalled(p)' = Signalled(p), ToLeft(Right(p))' = ToLeft(Right(p)), Heard(p)' <= Heard(p) + 1
  PROVE  /\ OnTheWayAt(p)'
         /\ \A q \in Procs : q # p => told'[q] = told[q] /\ left'[q] = left[q] /\ pending'[q] = pending[q]
  <1>1. TypeOK /\ InPlace /\ MaskedAt(p) /\ Ordered(p) /\ Left(p) \in Procs /\ Right(p) \in Procs
        /\ Left(p) # Right(p) /\ Rounds \in Nat /\ Rounds >= 1 /\ Ordered(Left(p))
    BY Order, AroundProcs, RingAssumption DEF PlaceInv, Masked
  <1>2. /\ told \in [Procs -> Seq({"intro", "left", "right"})] /\ left \in [Procs -> 0..4]
        /\ pending \in [Procs -> [Signals -> 0..4]] /\ told[p] \in Seq({"intro", "left", "right"})
        /\ handler[p] \in {"initHandler", "circularHandler"} /\ s \in {"USR1", "USR2"}
        /\ "USR1" \in Signals /\ "USR2" \in Signals /\ Len(told[p]) \in Nat
    BY <1>1 DEF TypeOK, Signals
  <1> DEFINE x == IF s = "USR1" /\ handler[p] = "initHandler" THEN "intro"
                  ELSE IF pending[p][s] = left[p] THEN "left" ELSE "right"
             n == Len(told[p]) + 1
  <1>3. /\ told' = [told EXCEPT ![p] = Append(told[p], x)]
        /\ left' = IF x = "intro" THEN [left EXCEPT ![p] = pending[p][s]] ELSE left
        /\ pending' = [pending EXCEPT ![p][s] = 0]
    BY <1>2 DEF Handle
  <1>4. \A q \in Procs : q # p => told'[q] = told[q] /\ left'[q] = left[q] /\ pending'[q] = pending[q]
    BY <1>2, <1>3
  <1>5. /\ x \in {"intro", "left", "right"} /\ told'[p] = Append(told[p], x) /\ Len(told'[p]) = n
        /\ told'[p][n] = x /\ \A k \in 1..Len(told[p]) : told'[p][k] = told[p][k]
    BY <1>2, <1>3
  <1>6. /\ pending'[p][s] = 0
        /\ \A t \in Signals : t # s => pending'[p][t] = pending[p][t]
    BY <1>2, <1>3
  <1>7. /\ s = "USR1" => pending[p][s] = Left(p) /\ ToLeft(Right(p)) = 0
        /\ s = "USR2" => pending[p][s] = Right(p) /\ ToLeft(Right(p)) > 0
        /\ \A t \in Signals : t # s => pending[p][t] = 0
    <2>1. /\ pending[p]["USR1"] # 0 => pending[p]["USR1"] = Left(p) /\ ToLeft(Right(p)) = 0
          /\ pending[p]["USR2"] # 0 => pending[p]["USR2"] = Right(p) /\ ToLeft(Right(p)) > 0
      BY DEF OnTheWayAt
    <2>2. CASE s = "USR1"
      <3>1. pending[p]["USR2"] = 0
        BY <2>1, <2>2
      <3>. QED
        BY <2>1, <2>2, <3>1 DEF Signals
    <2>3. CASE s = "USR2"
      <3>1. pending[p]["USR1"] = 0
        BY <2>1, <2>3
      <3>. QED
        BY <2>1, <2>3, <3>1 DEF Signals
    <2>. QED
      BY <1>2, <2>2, <2>3
  <1>8. InFlight(p) = 1 /\ InFlight(p)' = 0
    BY <1>2, <1>6, <1>7 DEF InFlight, Signals
  <1>9. n = Signalled(p) /\ Heard(p) <= Len(told[p]) /\ Signalled(p) <= Heard(p) + 1 /\ Heard(p) \in Nat
    BY <1>2, <1>8 DEF OnTheWayAt, Bounded
  <1>10. /\ Done(Left(p), "meet") \in {0, 1} /\ Done(Left(p), "kill1") \in Nat
         /\ Done(Left(p), "kill1") <= Rounds /\ Done(Right(p), "kill2") \in Nat
    BY <1>1, Order DEF Ordered, MeetingOrder, Atmost1, ForwardOrder, BackOrder
  <1>11. Signalled(p) = Done(Left(p), "meet") + Done(Left(p), "kill1") + Done(Right(p), "kill2")
    BY <1>10 DEF Signalled, ToRight, ToLeft
  <1>12. CASE s = "USR1" /\ handler[p] = "initHandler"
    <2>1. x = "intro" /\ left'[p] = Left(p)
      BY <1>2, <1>3, <1>7, <1>12
    <2>2. n <= 2
      <3>1. Done(p, "change") = 0
        BY <1>1, <1>12, MaskOrder DEF MaskedAt, MaskOrder1
      <3>2. Heard(p) <= 1
        <4>1. CASE grouped
          <5>1. Done(p, "unmask1") = 0 /\ Done(p, "unmask2") = 0 /\ Done(p, "unmask0") \in {0, 1}
            BY <1>1, <4>1, GroupQuiet DEF Ordered, MeetingOrder, Atmost1
          <5>. QED
            BY <4>1, <5>1 DEF Heard, Known
        <4>2. CASE ~grouped
          <5>1. Done(p, "open1") = 0
            BY <1>1, <3>1, <4>2 DEF Ordered, RingOrder, MeetingOrder, Atmost1
          <5>2. Done(p, "unmask1") = 0
            BY <1>1, <5>1 DEF Ordered, ForwardOrder
          <5>3. Done(p, "unmask2") = 0
            BY <1>1, <5>2 DEF Ordered, BackOrder, MeetingOrder, Atmost1
          <5>4. Done(p, "take") \in {0, 1}
            BY <1>1 DEF Ordered, MeetingOrder, Atmost1
          <5>. QED
            BY <4>2, <5>2, <5>3, <5>4 DEF Heard, Known
        <4>. QED
          BY <4>1, <4>2
      <3>. QED
        BY <1>9, <3>2
    <2>. HIDE DEF x, n
    <2>3. ToldAt(p)'
      <3>1. \A k \in 3..Len(told'[p]) : FALSE
        BY <1>5, <2>2
      <3>2. Len(told[p]) >= 1 => told'[p][1] = "intro"
        BY <1>2, <1>5 DEF OnTheWayAt, ToldAt
      <3>3. Len(told[p]) = 0 => n = 1
        BY <1>9 DEF n
      <3>4. Len(told'[p]) >= 1 => told'[p][1] = "intro"
        BY <1>2, <1>5, <2>1, <3>2, <3>3
      <3>5. Len(told'[p]) >= 2 => told'[p][2] \in {"intro", "left"}
        BY <1>5, <2>1, <2>2
      <3>. QED
        BY <3>1, <3>4, <3>5 DEF ToldAt
    <2>4. told'[p] # <<>>
      BY <1>5, <1>9
    <2>. QED
      BY <1>2, <1>4, <1>5, <1>6, <1>7, <1>8, <1>9, <2>1, <2>3, <2>4 DEF OnTheWayAt, n
  <1>13. CASE ~(s = "USR1" /\ handler[p] = "initHandler")
    <2>1. Len(told[p]) >= 1 /\ Done(p, "take") = 1 /\ ~grouped
      <3>1. CASE s = "USR1"
        <4>1. Done(p, "change") = 1
          BY <1>1, <1>2, <1>13, <3>1 DEF MaskedAt
        <4>. QED
          BY <1>1, <1>9, <4>1, Heard1 DEF Ordered, RingOrder, GroupOrder, MeetingOrder, Atmost1, Heard, Known
      <3>2. CASE s = "USR2"
        <4>1. Done(Right(p), "kill2") > 0
          BY <1>7, <3>2 DEF ToLeft
        <4>2. ~grouped
          BY <1>1, <4>1, Order, GroupQuiet
        <4>3. Done(p, "kill1") > 0
          BY <1>1, <4>1 DEF Begun
        <4>4. Done(p, "take") = 1
          BY <1>1, <4>3 DEF Begun
        <4>. QED
          BY <1>1, <1>9, <4>2, <4>4, Heard1 DEF Heard, Known
      <3>. QED
        BY <1>2, <3>1, <3>2
    <2>2. left[p] = Left(p) /\ told[p] # <<>>
      BY <1>2, <2>1 DEF OnTheWayAt
    <2>3. left'[p] = Left(p)
      BY <1>3, <1>13, <2>2
    <2>4. x = (IF s = "USR1" THEN "left" ELSE "right")
      BY <1>1, <1>2, <1>7, <1>13, <2>2
    <2>5. s = "USR1" => n <= Rounds + 1
      <3>1. s = "USR1" => Done(Right(p), "kill2") = 0
        BY <1>7 DEF ToLeft
      <3>. QED
        BY <1>1, <1>9, <1>10, <1>11, <3>1
    <2>6. s = "USR2" => n > Rounds + 1
      <3>1. s = "USR2" => Done(Right(p), "kill2") > 0
        BY <1>7 DEF ToLeft
      <3>2. s = "USR2" => Done(Left(p), "kill1") = Rounds
        BY <1>1, <3>1 DEF Begun
      <3>3. s = "USR2" => Done(Left(p), "meet") = 1
        BY <1>1, <3>2 DEF Begun
      <3>. QED
        BY <1>1, <1>9, <1>10, <1>11, <3>1, <3>2, <3>3
    <2>. HIDE DEF x, n
    <2>7. ToldAt(p)'
      <3>1. Len(told'[p]) >= 1 => told'[p][1] = "intro"
        BY <1>2, <1>5, <2>1 DEF OnTheWayAt, ToldAt
      <3>2. n >= 2 /\ n \in Nat /\ Len(told[p]) = n - 1
        BY <1>2, <2>1 DEF n
      <3>3. Len(told'[p]) >= 2 => told'[p][2] \in {"intro", "left"}
        <4>1. CASE n = 2
          BY <1>1, <1>2, <1>5, <2>4, <2>6, <4>1
        <4>2. CASE n > 2
          BY <1>2, <1>5, <3>2, <4>2 DEF OnTheWayAt, ToldAt
        <4>. QED
          BY <3>2, <4>1, <4>2
      <3>4. ASSUME NEW k \in 3..Len(told'[p])
            PROVE  told'[p][k] = IF k <= Rounds + 1 THEN "left" ELSE "right"
        <4>1. CASE k = n
          BY <1>1, <1>2, <1>5, <2>4, <2>5, <2>6, <4>1
        <4>2. CASE k # n
          <5>1. k \in 3..Len(told[p]) /\ k \in 1..Len(told[p])
            BY <1>5, <3>2, <4>2
          <5>. QED
            BY <1>5, <5>1 DEF OnTheWayAt, ToldAt
        <4>. QED
          BY <4>1, <4>2
      <3>. QED
        BY <3>1, <3>3, <3>4 DEF ToldAt
    <2>8. told'[p] # <<>>
      BY <1>5, <1>9
    <2>. QED
      BY <1>2, <1>4, <1>5, <1>6, <1>7, <1>8, <1>9, <2>3, <2>7, <2>8 DEF OnTheWayAt, n
  <1>. QED
    BY <1>12, <1>13

\* Whom p signals, and with what.
Aim(p, c) == IF c = "kill2" THEN Left(p) ELSE Right(p)
With(c) == IF c = "kill2" THEN "USR2" ELSE "USR1"

LEMMA Aiming ==
  ASSUME PlaceInv, InQueue, NEW p \in Procs, OnTheWayAt(p), NEW c \in {"meet", "kill1", "kill2"}, Makes(p, c),
         SendSignal(p)
  PROVE  /\ sends' = Append(sends, [from |-> p, to |-> Aim(p, c), sig |-> With(c)])
         /\ pending' = IF Running(Aim(p, c)) /\ pending[Aim(p, c)][With(c)] = 0
                       THEN [pending EXCEPT ![Aim(p, c)][With(c)] = p] ELSE pending
         /\ UNCHANGED <<left, told, handler>>
  <1>1. TypeOK /\ InPlace /\ Ordered(p) /\ Ordered(p)' /\ c \in Calls /\ (grouped' <=> grouped)
    BY Order, OrderAfter DEF PlaceInv, Makes, Calls, grouped
  <1>2. Now(p) = Meaning(p, c)
    BY <1>1, NowIs DEF Makes, SendSignal, Does, At
  <1>3. \A d \in Calls : Done(p, d)' = IF d = c THEN Done(p, d) + 1 ELSE Done(p, d)
    BY DEF Makes, Moves
  <1>4. Left(p) \in Procs /\ Right(p) \in Procs /\ Left(p) # 0 /\ Right(p) # 0
    BY AroundProcs
  <1>5. CASE c \in {"meet", "kill1"}
    <2>1. Done(p, "learn") = 1
      <3>1. CASE c = "meet"
        <4>1. Done(p, "meet")' = 1 /\ Done(p, "learn")' = Done(p, "learn")
          BY <1>1, <1>3, <3>1 DEF Ordered, MeetingOrder, Atmost1, Calls
        <4>. QED
          BY <1>1, <4>1 DEF Ordered, MeetingOrder, Atmost1
      <3>2. CASE c = "kill1"
        <4>1. Done(p, "kill1")' > 0 /\ ~grouped /\ Done(p, "learn")' = Done(p, "learn")
          BY <1>1, <1>3, <3>2, Whose DEF Ordered, ForwardOrder, Calls, Makes
        <4>2. Done(p, "mask1")' > 0
          BY <1>1, <4>1 DEF Ordered, ForwardOrder
        <4>3. Done(p, "open1")' = 1
          BY <1>1, <4>2 DEF Ordered, ForwardOrder
        <4>4. Done(p, "change")' = 1
          BY <1>1, <4>1, <4>3 DEF Ordered, RingOrder, MeetingOrder, Atmost1
        <4>5. Done(p, "wake")' = 1
          BY <1>1, <4>1, <4>4 DEF Ordered, RingOrder, MeetingOrder, Atmost1
        <4>. QED
          BY <1>1, <4>1, <4>5 DEF Ordered, MeetingOrder, Atmost1
      <3>. QED
        BY <1>5, <3>1, <3>2
    <2>2. right[p] = Right(p)
      BY <2>1 DEF InQueue, InQueueAt
    <2>3. Now(p) = Kill("right", "USR1") /\ Aim(p, c) = Right(p) /\ With(c) = "USR1"
      BY <1>2, <1>5, Meanings DEF Aim, With
    <2>. QED
      BY <1>4, <2>2, <2>3 DEF SendSignal, Kill
  <1>6. CASE c = "kill2"
    <2>1. Done(p, "take") = 1 /\ ~grouped
      <3>1. Done(p, "kill2")' > 0 /\ ~grouped /\ Done(p, "take")' = Done(p, "take")
        BY <1>1, <1>3, <1>6, Whose DEF Ordered, BackOrder, Calls, Makes
      <3>2. Done(p, "mask2")' > 0
        BY <1>1, <3>1 DEF Ordered, BackOrder
      <3>3. Done(p, "open2")' = 1
        BY <1>1, <3>2 DEF Ordered, BackOrder
      <3>4. Done(p, "kill1")' = Rounds
        BY <1>1, <3>3 DEF Ordered, BackOrder
      <3>5. Done(p, "mask1")' > 0
        BY <1>1, <3>4, RingAssumption DEF Ordered, ForwardOrder
      <3>6. Done(p, "open1")' = 1
        BY <1>1, <3>5 DEF Ordered, ForwardOrder
      <3>7. Done(p, "change")' = 1
        BY <1>1, <3>1, <3>6 DEF Ordered, RingOrder, MeetingOrder, Atmost1
      <3>. QED
        BY <1>1, <3>1, <3>7 DEF Ordered, RingOrder, MeetingOrder, Atmost1
    <2>2. Heard(p) >= 1
      BY <1>1, <2>1, Heard1 DEF Heard, Known
    <2>3. told[p] # <<>>
      <3>1. Heard(p) <= Len(told[p]) /\ Len(told[p]) \in Nat /\ Heard(p) \in Nat
        <4>1. Heard(p) \in Nat
          BY <1>1, Heard1 DEF Heard
        <4>2. Len(told[p]) \in Nat
          BY <1>1 DEF TypeOK
        <4>. QED
          BY <4>1, <4>2 DEF OnTheWayAt
      <3>2. Len(told[p]) >= 1
        BY <2>2, <3>1
      <3>. QED
        BY <3>2
    <2>4. left[p] = Left(p)
      BY <2>3 DEF OnTheWayAt
    <2>5. Now(p) = Kill("left", "USR2") /\ Aim(p, c) = Left(p) /\ With(c) = "USR2"
      BY <1>2, <1>6, Meanings DEF Aim, With
    <2>6. "left" # "right"
      OBVIOUS
    <2>. QED
      BY <1>4, <2>4, <2>5, <2>6 DEF SendSignal, Kill
  <1>. QED
    BY <1>5, <1>6

\* One signal more has been sent to it, and none to the others.
LEMMA OneMore ==
  ASSUME TypeOK, InPlace, NEW p \in Procs, NEW c \in {"meet", "kill1", "kill2"}, Makes(p, c)
  PROVE  \A q \in Procs :
            /\ Signalled(q)' = IF q = Aim(p, c) THEN Signalled(q) + 1 ELSE Signalled(q)
            /\ Signalled(q) \in Nat
            /\ Heard(q)' = Heard(q)
            /\ q # Aim(p, c) => ToLeft(Right(q))' = ToLeft(Right(q))
  <1>. SUFFICES ASSUME NEW q \in Procs
                PROVE  /\ Signalled(q)' = IF q = Aim(p, c) THEN Signalled(q) + 1 ELSE Signalled(q)
                       /\ Signalled(q) \in Nat
                       /\ Heard(q)' = Heard(q)
                       /\ q # Aim(p, c) => ToLeft(Right(q))' = ToLeft(Right(q))
    OBVIOUS
  <1>1. /\ Left(q) \in Procs /\ Right(q) \in Procs /\ (Left(q) = p <=> q = Right(p))
        /\ (Right(q) = p <=> q = Left(p)) /\ c \in Calls
    BY AroundProcs DEF Calls
  <1>2. Heard(q)' = Heard(q)
    BY <1>1, Counters DEF Makes
  <1>3. \A r \in Procs, d \in Calls : Done(r, d)' = IF r = p /\ d = c THEN Done(r, d) + 1 ELSE Done(r, d)
    BY DEF Makes, Moves
  <1>4. /\ Done(Left(q), "meet") \in Nat /\ Done(Left(q), "kill1") \in Nat /\ Done(Right(q), "kill2") \in Nat
    BY <1>1, DoneType DEF Calls
  <1>5. /\ Done(Left(q), "meet")' = IF Left(q) = p /\ c = "meet" THEN Done(Left(q), "meet") + 1 ELSE Done(Left(q), "meet")
        /\ Done(Left(q), "kill1")' = IF Left(q) = p /\ c = "kill1" THEN Done(Left(q), "kill1") + 1 ELSE Done(Left(q), "kill1")
        /\ Done(Right(q), "kill2")' = IF Right(q) = p /\ c = "kill2" THEN Done(Right(q), "kill2") + 1 ELSE Done(Right(q), "kill2")
    BY <1>1, <1>3 DEF Calls
  <1>6. Signalled(q)' = IF q = Aim(p, c) THEN Signalled(q) + 1 ELSE Signalled(q)
    <2>1. CASE c = "meet"
      BY <1>1, <1>4, <1>5, <2>1 DEF Signalled, ToRight, ToLeft, Aim
    <2>2. CASE c = "kill1"
      BY <1>1, <1>4, <1>5, <2>2 DEF Signalled, ToRight, ToLeft, Aim
    <2>3. CASE c = "kill2"
      BY <1>1, <1>4, <1>5, <2>3 DEF Signalled, ToRight, ToLeft, Aim
    <2>. QED
      BY <2>1, <2>2, <2>3
  <1>7. Signalled(q) \in Nat
    BY <1>4 DEF Signalled, ToRight, ToLeft
  <1>8. q # Aim(p, c) => ToLeft(Right(q))' = ToLeft(Right(q))
    BY <1>1, <1>5 DEF ToLeft, Aim
  <1>. QED
    BY <1>2, <1>6, <1>7, <1>8

\* A process that has not been started has made no call.
LEMMA NotStarted ==
  ASSUME NEW p \in Procs, phase[p] = "off", NEW d \in Calls
  PROVE  Done(p, d) = 0
  <1>1. Index(p, d) \in Nat /\ Part(d) \in {"meet", "forward", "turn", "back"}
    BY Indexed
  <1>. QED
    BY <1>1 DEF Done, Later

LEMMA GroupQuietAfter ==
  (grouped => \A p \in Procs : Ordered(p) => Done(p, "kill1") = 0 /\ Done(p, "kill2") = 0)'
  <1>1. grouped => \A p \in Procs : Ordered(p) => Done(p, "kill1") = 0 /\ Done(p, "kill2") = 0
    BY GroupQuiet
  <1>. QED
    BY <1>1, PTL

\* A signal finds its receiver running, and no other on its way to it.
LEMMA Receiver ==
  ASSUME PlaceInv, InQueue, Links, Begun, Bounded, OnTheWay, NEW p \in Procs, NEW c \in {"meet", "kill1", "kill2"},
         Makes(p, c), SendSignal(p), Begun', Bounded'
  PROVE  /\ Running(Aim(p, c)) /\ InFlight(Aim(p, c)) = 0
         /\ c = "kill2" => ToLeft(p)' > 0
         /\ c # "kill2" => ToLeft(Right(Aim(p, c))) = 0 /\ ToLeft(Right(Aim(p, c)))' = 0
  <1>1. /\ TypeOK /\ InPlace /\ \A q \in Procs : Ordered(q) /\ Ordered(q)'
        /\ c \in Calls /\ (grouped' <=> grouped)
    BY Order, OrderAfter DEF PlaceInv, Makes, Calls, grouped
  <1>2. PICK q \in Procs : q = Aim(p, c)
    BY AroundProcs DEF Aim
  <1>3. Left(q) \in Procs /\ Right(q) \in Procs /\ Rounds \in Nat /\ Rounds >= 1
    BY AroundProcs, RingAssumption
  <1>4. /\ Signalled(q)' = Signalled(q) + 1 /\ Heard(q)' = Heard(q) /\ Signalled(q)' <= Heard(q)' + 1
        /\ Signalled(q) \in Nat /\ Heard(q) \in Nat
        /\ Len(told[q]) + InFlight(q) = Signalled(q) /\ Heard(q) <= Len(told[q]) /\ Len(told[q]) \in Nat
    <2>1. Signalled(q)' = Signalled(q) + 1 /\ Heard(q)' = Heard(q) /\ Signalled(q) \in Nat
      BY <1>1, <1>2, OneMore
    <2>2. Signalled(q)' <= Heard(q)' + 1 /\ Heard(q) \in Nat
      BY DEF Bounded
    <2>3. OnTheWayAt(q) /\ Len(told[q]) \in Nat
      BY <1>1 DEF OnTheWay, TypeOK
    <2>. QED
      BY <2>1, <2>2, <2>3 DEF OnTheWayAt
  <1>5. InFlight(q) = 0 /\ Signalled(q) = Heard(q)
    <2>1. InFlight(q) \in {0, 1}
      BY DEF InFlight
    <2>. QED
      BY <1>4, <2>1
  <1>6. \A d \in Calls : Done(p, d)' = IF d = c THEN Done(p, d) + 1 ELSE Done(p, d)
    BY DEF Makes, Moves
  <1>7. \A r \in Procs : r # p => \A d \in Calls : Done(r, d)' = Done(r, d)
    BY DEF Makes, Moves
  <1>8. p # q
    BY <1>2, AroundProcs DEF Aim
  <1>9. phase[q] # "off"
    <2>1. SUFFICES ASSUME phase[q] = "off" PROVE FALSE
      OBVIOUS
    <2>2. \A d \in Calls : Done(q, d) = 0 /\ Done(q, d)' = 0
      BY <1>7, <1>8, <2>1, NotStarted
    <2>3. CASE c = "meet"
      <3>1. Done(p, "learn") = 1
        BY <1>1, <1>6, <2>3 DEF Ordered, MeetingOrder, Atmost1, Calls
      <3>2. Announced(p) >= 1
        BY <3>1 DEF Links
      <3>3. CASE p # 4
        <4>1. Announced(p) = Done(q, "introduce")
          BY <1>2, <2>3, <3>3 DEF Announced, Aim
        <4>. QED
          BY <2>2, <3>2, <4>1 DEF Calls
      <3>4. CASE p = 4
        <4>1. q = 1 /\ 1 \in Procs /\ 2 \in Procs /\ Left(2) = 1
          BY <1>2, <2>3, <3>4, AroundProcs DEF Aim
        <4>2. Done(2, "close") >= 1
          BY <3>2, <3>4 DEF Announced
        <4>3. Done(2, "take") = 1
          BY <1>1, <4>1, <4>2 DEF Ordered, MeetingOrder, Atmost1
        <4>4. Done(1, "meet") >= 1
          BY <4>1, <4>3 DEF Links
        <4>. QED
          BY <2>2, <4>1, <4>4 DEF Calls
      <3>. QED
        BY <3>3, <3>4
    <2>4. CASE c \in {"kill1", "kill2"}
      <3>1. Done(p, c)' > 0
        BY <1>1, <1>6, DoneType
      <3>2. Done(q, "take")' = 1
        <4>1. CASE c = "kill1"
          BY <3>1, <4>1 DEF Begun
        <4>2. CASE c = "kill2"
          <5>1. Done(q, "kill1")' > 0
            BY <1>3, <3>1, <4>2 DEF Begun
          <5>. QED
            BY <5>1 DEF Begun
        <4>. QED
          BY <2>4, <4>1, <4>2
      <3>. QED
        BY <2>2, <3>2 DEF Calls
    <2>. QED
      BY <2>3, <2>4
  <1>10. /\ Done(Left(q), "meet")' \in {0, 1} /\ Done(Left(q), "kill1")' \in Nat
         /\ Done(Left(q), "kill1")' <= Rounds /\ Done(Right(q), "kill2")' \in Nat
         /\ Done(Right(q), "kill2")' <= Rounds
         /\ Signalled(q)' = Done(Left(q), "meet")' + Done(Left(q), "kill1")' + Done(Right(q), "kill2")'
    <2>1. Ordered(Left(q))' /\ Ordered(Right(q))'
      BY <1>1, <1>3
    <2>2. Done(Left(q), "meet")' \in {0, 1}
      BY <2>1 DEF Ordered, MeetingOrder, Atmost1
    <2>3. Done(Left(q), "kill1")' \in Nat /\ Done(Left(q), "kill1")' <= Rounds
      BY <1>3, <2>1 DEF Ordered, ForwardOrder
    <2>4. Done(Right(q), "kill2")' \in Nat /\ Done(Right(q), "kill2")' <= Rounds
      BY <1>3, <2>1 DEF Ordered, BackOrder
    <2>5. Signalled(q)' = Done(Left(q), "meet")' + Done(Left(q), "kill1")' + Done(Right(q), "kill2")'
      BY <2>2, <2>3, <2>4 DEF Signalled, ToRight, ToLeft
    <2>. QED
      BY <2>2, <2>3, <2>4, <2>5
  <1>11. phase[q] # "done"
    <2>1. SUFFICES ASSUME phase[q] = "done" PROVE FALSE
      OBVIOUS
    <2>2. CASE grouped
      <3>1. Done(q, "unmask0") = 1
        BY <1>1, <2>1, <2>2 DEF Ordered, GroupOrder, MeetingOrder, Atmost1
      <3>2. Heard(q) >= 1
        BY <1>1, <2>2, <3>1, Heard1 DEF Heard, Known
      <3>3. Done(Left(q), "kill1")' = 0 /\ Done(Right(q), "kill2")' = 0
        <4>1. \A r \in Procs : Done(r, "kill1")' = 0 /\ Done(r, "kill2")' = 0
          BY <1>1, <2>2, GroupQuietAfter
        <4>. QED
          BY <1>3, <4>1
      <3>. QED
        BY <1>4, <1>5, <1>10, <3>2, <3>3
    <2>3. CASE ~grouped
      <3>1. Done(q, "unmask2") = Rounds
        BY <1>1, <2>1, <2>3 DEF Ordered, RingOrder
      <3>2. Done(q, "mask2") > 0
        BY <1>1, <1>3, <3>1 DEF Ordered, BackOrder
      <3>3. Done(q, "unmask1") = Rounds /\ Done(q, "kill1") = Rounds
        BY <1>1, <3>2 DEF Ordered, BackOrder
      <3>4. Done(q, "take") = 1
        BY <1>3, <3>3 DEF Begun
      <3>5. Heard(q) = 1 + Rounds + Rounds
        BY <1>3, <2>3, <3>1, <3>3, <3>4 DEF Heard, Known
      <3>. QED
        BY <1>3, <1>4, <1>5, <1>10, <3>5
    <2>. QED
      BY <2>2, <2>3
  <1>12. c = "kill2" => ToLeft(p)' > 0
    BY <1>1, <1>6, DoneType DEF ToLeft
  <1>13. c # "kill2" => ToLeft(Right(q)) = 0 /\ ToLeft(Right(q))' = 0
    <2>1. SUFFICES ASSUME c # "kill2" PROVE ToLeft(Right(q)) = 0 /\ ToLeft(Right(q))' = 0
      OBVIOUS
    <2>2. Done(Right(q), "kill2")' = Done(Right(q), "kill2")
      BY <1>3, <1>6, <1>7, <2>1 DEF Calls
    <2>3. Done(Right(q), "kill2") > 0 => FALSE
      <3>1. SUFFICES ASSUME Done(Right(q), "kill2") > 0 PROVE FALSE
        OBVIOUS
      <3>2. Done(p, "kill1") = Rounds
        BY <1>3, <3>1 DEF Begun
      <3>3. Done(p, "meet") = 1
        BY <1>3, <3>2 DEF Begun
      <3>4. CASE c = "meet"
        BY <1>1, <1>6, <3>3, <3>4 DEF Ordered, MeetingOrder, Atmost1
      <3>5. CASE c = "kill1"
        BY <1>1, <1>3, <1>6, <3>2, <3>5 DEF Ordered, ForwardOrder
      <3>. QED
        BY <2>1, <3>4, <3>5
    <2>4. Done(Right(q), "kill2") \in Nat
      BY <1>1, <1>3, DoneType DEF Calls
    <2>. QED
      BY <2>2, <2>3, <2>4 DEF ToLeft
  <1>14. Running(q)
    BY <1>1, <1>9, <1>11 DEF Running, TypeOK
  <1>. QED
    BY <1>2, <1>5, <1>12, <1>13, <1>14

LEMMA OnTheWaySent ==
  ASSUME PlaceInv, InQueue, Links, Begun, Bounded, OnTheWay, NEW p \in Procs, NEW c \in {"meet", "kill1", "kill2"},
         Makes(p, c), SendSignal(p), Begun', Bounded'
  PROVE  OnTheWay'
  <1>1. TypeOK /\ InPlace /\ OnTheWayAt(p) /\ pending \in [Procs -> [Signals -> 0..4]]
        /\ "USR1" \in Signals /\ "USR2" \in Signals /\ "USR1" # "USR2"
    BY DEF PlaceInv, OnTheWay, TypeOK, Signals
  <1>2. PICK q \in Procs : q = Aim(p, c)
    BY AroundProcs DEF Aim
  <1>3. PICK s \in Signals : s = With(c)
    BY DEF With, Signals
  <1>4. Running(q) /\ InFlight(q) = 0
    BY <1>2, Receiver
  <1>5. pending[q]["USR1"] = 0 /\ pending[q]["USR2"] = 0 /\ pending[q][s] = 0
    BY <1>4 DEF InFlight, Signals
  <1>6. pending' = [pending EXCEPT ![q][s] = p] /\ UNCHANGED <<left, told>>
    BY <1>1, <1>2, <1>3, <1>4, <1>5, Aiming
  <1>7. /\ Signalled(q)' = Signalled(q) + 1 /\ Heard(q)' = Heard(q)
        /\ \A r \in Procs : r # q => /\ Signalled(r)' = Signalled(r) /\ Heard(r)' = Heard(r)
                                     /\ ToLeft(Right(r))' = ToLeft(Right(r))
    BY <1>1, <1>2, OneMore
  <1>8. ASSUME NEW r \in Procs, r # q
        PROVE  OnTheWayAt(r)'
    BY <1>1, <1>6, <1>7, <1>8, OnTheWaySame DEF OnTheWay
  <1>9. OnTheWayAt(q)'
    <2>1. OnTheWayAt(q) /\ p # 0
      BY DEF OnTheWay, Procs
    <2>2. InFlight(q)' = 1
      <3>1. CASE s = "USR1"
        BY <1>1, <1>6, <2>1, <3>1 DEF InFlight
      <3>2. CASE s = "USR2"
        BY <1>1, <1>6, <2>1, <3>2 DEF InFlight
      <3>. QED
        BY <3>1, <3>2 DEF Signals
    <2>3. /\ pending'[q]["USR1"] # 0 => pending'[q]["USR1"] = Left(q) /\ ToLeft(Right(q))' = 0
          /\ pending'[q]["USR2"] # 0 => pending'[q]["USR2"] = Right(q) /\ ToLeft(Right(q))' > 0
      <3>1. CASE c = "kill2"
        <4>1. s = "USR2" /\ p = Right(q) /\ ToLeft(p)' > 0
          BY <1>2, <1>3, <3>1, Receiver, AroundProcs DEF Aim, With
        <4>. QED
          BY <1>1, <1>5, <1>6, <4>1
      <3>2. CASE c # "kill2"
        <4>1. s = "USR1" /\ p = Left(q) /\ ToLeft(Right(q))' = 0
          BY <1>2, <1>3, <3>2, Receiver, AroundProcs DEF Aim, With
        <4>. QED
          BY <1>1, <1>5, <1>6, <4>1
      <3>. QED
        BY <3>1, <3>2
    <2>4. Len(told[q]) + InFlight(q) = Signalled(q) /\ Len(told[q]) \in Nat
      BY <1>1, <2>1 DEF OnTheWayAt, TypeOK
    <2>5. Len(told'[q]) + InFlight(q)' = Signalled(q)'
      BY <1>4, <1>6, <1>7, <2>2, <2>4
    <2>6. ToldAt(q)' /\ told'[q] = told[q] /\ left'[q] = left[q]
      BY <1>6, <2>1 DEF ToldAt, OnTheWayAt
    <2>. QED
      BY <1>7, <2>1, <2>3, <2>5, <2>6 DEF OnTheWayAt
  <1>. QED
    BY <1>8, <1>9 DEF OnTheWay

\* Before a signal is unblocked it has been sent once more than it must have been handled.
LEMMA Due ==
  ASSUME PlaceInv, Links, Begun, NEW p \in Procs, NEW c \in {"unmask0", "unmask1", "unmask2"}, Makes(p, c), OnTheWayAt(p),
         NEW s \in Signals, NEW t \in Signals, Meaning(p, c) = Unmask(s), t # s
  PROVE  Signalled(p) >= Heard(p) + 1 /\ Signalled(p) \in Nat /\ Heard(p) \in Nat /\ Heard(p)' = Heard(p) + 1
         /\ pending[p][t] = 0
  <1>1. /\ TypeOK /\ InPlace /\ \A q \in Procs : Ordered(q) /\ Ordered(q)'
        /\ c \in Calls /\ (grouped' <=> grouped)
    BY Order, OrderAfter DEF PlaceInv, Makes, Calls, grouped
  <1>2. Left(p) \in Procs /\ Right(p) \in Procs /\ Right(Left(p)) = p /\ Left(Right(p)) = p
        /\ Rounds \in Nat /\ Rounds >= 1
    BY AroundProcs, RingAssumption
  <1>3. \A d \in Calls : Done(p, d)' = IF d = c THEN Done(p, d) + 1 ELSE Done(p, d)
    BY DEF Makes, Moves
  <1>4. /\ Done(Left(p), "meet") \in {0, 1} /\ Done(Left(p), "kill1") \in Nat /\ Done(Right(p), "kill2") \in Nat
        /\ Signalled(p) = Done(Left(p), "meet") + Done(Left(p), "kill1") + Done(Right(p), "kill2")
    <2>1. /\ Done(Left(p), "meet") \in {0, 1} /\ Done(Left(p), "kill1") \in Nat /\ Done(Right(p), "kill2") \in Nat
      BY <1>1, <1>2 DEF Ordered, MeetingOrder, Atmost1, ForwardOrder, BackOrder
    <2>. QED
      BY <2>1 DEF Signalled, ToRight, ToLeft
  <1>5. /\ Done(p, "unmask1") \in Nat /\ Done(p, "unmask2") \in Nat /\ Done(p, "unmask0") \in {0, 1}
        /\ Done(p, "take") \in {0, 1}
    BY <1>1 DEF Ordered, MeetingOrder, Atmost1, ForwardOrder, BackOrder
  <1>6. /\ pending[p]["USR1"] # 0 => ToLeft(Right(p)) = 0
        /\ pending[p]["USR2"] # 0 => ToLeft(Right(p)) > 0
    BY DEF OnTheWayAt
  <1>7. CASE c = "unmask0"
    <2>1. grouped /\ s = "USR1" /\ t = "USR2"
      BY <1>1, <1>7, Whose, Meanings DEF Makes, Unmask, Signals
    <2>2. Done(p, "take") = 1 /\ Done(p, "unmask0") = 0
      BY <1>1, <1>3, <1>7, <2>1 DEF Ordered, GroupOrder, MeetingOrder, Atmost1, Calls
    <2>3. Done(Left(p), "meet") = 1
      BY <1>2, <1>4, <2>2 DEF Links
    <2>4. Done(p, "unmask1") = 0 /\ Done(p, "unmask2") = 0 /\ Done(Right(p), "kill2") = 0
      BY <1>1, <1>2, <2>1, GroupQuiet
    <2>5. Heard(p) = 0 /\ Heard(p)' = 1
      BY <1>1, <1>3, <1>7, <2>1, <2>2, <2>4 DEF Heard, Known, Calls
    <2>. QED
      BY <1>4, <1>6, <2>1, <2>3, <2>4, <2>5 DEF ToLeft
  <1>8. CASE c = "unmask1"
    <2>1. ~grouped /\ s = "USR1" /\ t = "USR2"
      BY <1>1, <1>8, Whose, Meanings DEF Makes, Unmask, Signals
    <2>2. Done(p, "unmask1")' = Done(p, "unmask1") + 1 /\ Done(p, "unmask1")' <= Rounds
          /\ Done(p, "unmask1")' <= Done(p, "wait1")' /\ Done(p, "wait1")' = Done(p, "wait1")
      <3>1. Done(p, "unmask1")' = Done(p, "unmask1") + 1 /\ Done(p, "wait1")' = Done(p, "wait1")
        BY <1>3, <1>8 DEF Calls
      <3>2. Ordered(p)'
        BY <1>1
      <3>. QED
        BY <1>2, <3>1, <3>2 DEF Ordered, ForwardOrder
    <2>3. Done(p, "wait1") <= Done(Left(p), "kill1")
      <3>1. Done(p, "wait1") <= Done(Left(p), "post1")
        BY <1>2 DEF Links
      <3>2. Ordered(Left(p)) /\ Ordered(p)
        BY <1>1, <1>2
      <3>3. Done(Left(p), "post1") <= Done(Left(p), "kill1") /\ Done(Left(p), "post1") \in Nat
        BY <3>2 DEF Ordered, ForwardOrder
      <3>4. Done(p, "wait1") \in Nat
        BY <3>2 DEF Ordered, ForwardOrder
      <3>. QED
        BY <1>4, <3>1, <3>3, <3>4
    <2>4. Done(Left(p), "kill1") >= Done(p, "unmask1") + 1
      <3>1. Done(p, "wait1") \in Nat
        BY <1>1 DEF Ordered, ForwardOrder
      <3>. QED
        BY <1>4, <1>5, <2>2, <2>3, <3>1
    <2>5. Done(Left(p), "meet") = 1 /\ Done(p, "take") = 1
      BY <1>2, <1>4, <1>5, <2>4 DEF Begun
    <2>6. Done(p, "unmask1") # Rounds
      BY <1>2, <1>5, <2>2
    <2>7. Done(Right(p), "kill2") = 0
      BY <1>2, <1>4, <2>6 DEF Begun
    <2>8. Done(p, "unmask2") = 0
      <3>1. Done(p, "open2") # 1
        BY <1>1, <2>6 DEF Ordered, BackOrder
      <3>. QED
        BY <1>1, <3>1 DEF Ordered, BackOrder
    <2>9. Heard(p) = 1 + Done(p, "unmask1") /\ Heard(p)' = Heard(p) + 1
      BY <1>1, <1>3, <1>5, <1>8, <2>1, <2>2, <2>5, <2>8 DEF Heard, Known, Calls
    <2>. QED
      BY <1>4, <1>5, <1>6, <2>1, <2>4, <2>5, <2>7, <2>9 DEF ToLeft
  <1>9. CASE c = "unmask2"
    <2>1. ~grouped /\ s = "USR2" /\ t = "USR1"
      BY <1>1, <1>9, Whose, Meanings DEF Makes, Unmask, Signals
    <2>2. Done(p, "unmask2")' = Done(p, "unmask2") + 1
          /\ Done(p, "unmask2")' <= Done(p, "wait2")' /\ Done(p, "wait2")' = Done(p, "wait2")
      <3>1. Done(p, "unmask2")' = Done(p, "unmask2") + 1 /\ Done(p, "wait2")' = Done(p, "wait2")
        BY <1>3, <1>9 DEF Calls
      <3>2. Ordered(p)'
        BY <1>1
      <3>. QED
        BY <1>2, <3>1, <3>2 DEF Ordered, BackOrder
    <2>3. Done(p, "wait2") <= Done(Right(p), "kill2")
      <3>1. Done(p, "wait2") <= Done(Right(p), "post2")
        BY <1>2 DEF Links
      <3>2. Ordered(Right(p)) /\ Ordered(p)
        BY <1>1, <1>2
      <3>3. Done(Right(p), "post2") <= Done(Right(p), "kill2") /\ Done(Right(p), "post2") \in Nat
        BY <3>2 DEF Ordered, BackOrder
      <3>4. Done(p, "wait2") \in Nat
        BY <3>2 DEF Ordered, BackOrder
      <3>. QED
        BY <1>4, <3>1, <3>3, <3>4
    <2>4. Done(Right(p), "kill2") >= Done(p, "unmask2") + 1
      <3>1. Done(p, "wait2") \in Nat
        BY <1>1 DEF Ordered, BackOrder
      <3>. QED
        BY <1>4, <1>5, <2>2, <2>3, <3>1
    <2>5. Done(Left(p), "kill1") = Rounds /\ Done(p, "unmask1") = Rounds /\ Done(p, "kill1") = Rounds
      BY <1>2, <1>4, <1>5, <2>4 DEF Begun
    <2>6. Done(Left(p), "meet") = 1 /\ Done(p, "take") = 1
      BY <1>2, <2>5 DEF Begun
    <2>7. Heard(p) = 1 + Rounds + Done(p, "unmask2") /\ Heard(p)' = Heard(p) + 1
      BY <1>1, <1>2, <1>3, <1>5, <1>9, <2>1, <2>2, <2>5, <2>6 DEF Heard, Known, Calls
    <2>. QED
      BY <1>2, <1>4, <1>5, <1>6, <2>1, <2>4, <2>5, <2>6, <2>7 DEF ToLeft
  <1>. QED
    BY <1>7, <1>8, <1>9

LEMMA OnTheWayUnmasked ==
  ASSUME PlaceInv, Links, Begun, Bounded, OnTheWay, NEW p \in Procs, NEW c \in {"unmask0", "unmask1", "unmask2"},
         Makes(p, c), UnmaskSignal(p)
  PROVE  OnTheWay'
  <1>1. TypeOK /\ InPlace /\ OnTheWayAt(p) /\ c \in Calls
    BY DEF PlaceInv, OnTheWay, Calls
  <1>2. Now(p) = Meaning(p, c)
    BY <1>1, NowIs DEF Makes, UnmaskSignal, Does, At
  <1>3. PICK s \in Signals, t \in Signals : Meaning(p, c) = Unmask(s) /\ t # s /\ Signals = {s, t}
    BY Meanings DEF Signals
  <1>4. Now(p).sig = s
    BY <1>2, <1>3 DEF Unmask
  <1>5. /\ Signalled(p) >= Heard(p) + 1 /\ Signalled(p) \in Nat /\ Heard(p) \in Nat
        /\ Heard(p)' = Heard(p) + 1 /\ pending[p][t] = 0
    BY <1>1, <1>3, Due
  <1>6. /\ \A q \in Procs : Signalled(q)' = Signalled(q) /\ ToLeft(Right(q))' = ToLeft(Right(q))
        /\ \A q \in Procs : q # p => Heard(q)' = Heard(q)
    BY <1>1, Counters DEF Makes
  <1>7. /\ OnTheWayAt(p)'
        /\ \A q \in Procs : q # p => told'[q] = told[q] /\ left'[q] = left[q] /\ pending'[q] = pending[q]
    <2>1. CASE pending[p][s] # 0
      <3>1. Handle(p, s)
        BY <1>4, <2>1 DEF UnmaskSignal
      <3>. QED
        BY <1>1, <1>5, <1>6, <2>1, <3>1, Handling
    <2>2. CASE pending[p][s] = 0
      <3>1. UNCHANGED <<left, told, pending>>
        BY <1>4, <2>2 DEF UnmaskSignal
      <3>2. pending[p]["USR1"] = 0 /\ pending[p]["USR2"] = 0
        BY <1>3, <1>5, <2>2 DEF Signals
      <3>3. InFlight(p) = 0 /\ InFlight(p)' = 0
        BY <3>1, <3>2 DEF InFlight
      <3>4. Len(told[p]) = Signalled(p)
        BY <1>1, <3>3 DEF OnTheWayAt, TypeOK
      <3>5. ToldAt(p)'
        BY <1>1, <3>1 DEF OnTheWayAt, ToldAt
      <3>6. Len(told'[p]) + InFlight(p)' = Signalled(p)' /\ Heard(p)' <= Len(told'[p])
        BY <1>1, <1>5, <1>6, <3>1, <3>3, <3>4 DEF OnTheWayAt
      <3>. QED
        BY <1>1, <1>6, <3>1, <3>2, <3>5, <3>6 DEF OnTheWayAt
    <2>. QED
      BY <2>1, <2>2
  <1>8. ASSUME NEW q \in Procs, q # p
        PROVE  OnTheWayAt(q)'
    BY <1>6, <1>7, <1>8, OnTheWaySame DEF OnTheWay
  <1>. QED
    BY <1>7, <1>8 DEF OnTheWay

\* Of the signals p can only have been sent the introduction before it takes the first semaphore,
\* and if it was, p has handled it: a signal is handled before the next call.
LEMMA OnTheWayTaken ==
  ASSUME Prompt, PlaceInv, Links, Begun, Links', OnTheWay, NEW p \in Procs, Makes(p, "take"), SemWait(p), ~grouped
  PROVE  OnTheWay'
  <1>1. /\ TypeOK /\ InPlace /\ OnTheWayAt(p) /\ Ordered(p) /\ Ordered(p)' /\ (grouped' <=> grouped)
        /\ "take" \in Calls /\ MaskedAt(p) /\ Running(p)
    BY Order, OrderAfter DEF PlaceInv, Masked, Makes, OnTheWay, grouped, Calls, SemWait, Does, At
  <1>2. UNCHANGED <<left, told, pending>>
    BY DEF SemWait, signalVars
  <1>3. /\ \A q \in Procs : Signalled(q)' = Signalled(q) /\ ToLeft(Right(q))' = ToLeft(Right(q))
        /\ \A q \in Procs : q # p => Heard(q)' = Heard(q)
    BY <1>1, Counters DEF Makes
  <1>4. ASSUME NEW q \in Procs, q # p
        PROVE  OnTheWayAt(q)'
    BY <1>2, <1>3, <1>4, OnTheWaySame DEF OnTheWay
  <1>5. /\ \A d \in Calls : Done(p, d)' = IF d = "take" THEN Done(p, d) + 1 ELSE Done(p, d)
        /\ \A q \in Procs : q # p => \A d \in Calls : Done(q, d)' = Done(q, d)
    BY DEF Makes, Moves
  <1>6. Done(p, "take") = 0 /\ Done(p, "take")' = 1
    BY <1>1, <1>5 DEF Ordered, MeetingOrder, Atmost1
  <1>7. Left(p) \in Procs /\ Right(p) \in Procs /\ Left(p) # p /\ Rounds \in Nat /\ Rounds >= 1
    BY AroundProcs, RingAssumption
  <1>8. /\ Done(p, "mask0") = 0 /\ Done(p, "unmask0") = 0 /\ Done(p, "mask1") = 0 /\ Done(p, "unmask1") = 0
        /\ Done(p, "unmask2") = 0
    <2>1. Done(p, "open1") = 0 /\ Done(p, "mask0") = 0 /\ Done(p, "unmask0") = 0
      BY <1>1, <1>6 DEF Ordered, RingOrder, MeetingOrder, Atmost1
    <2>2. Done(p, "mask1") = 0 /\ Done(p, "unmask1") = 0
      BY <1>1, <2>1 DEF Ordered, ForwardOrder
    <2>3. Done(p, "open2") = 0
      BY <1>1, <1>7, <2>2 DEF Ordered, BackOrder, MeetingOrder, Atmost1
    <2>. QED
      BY <1>1, <2>1, <2>2, <2>3 DEF Ordered, BackOrder
  <1>9. Heard(p)' = 1
    BY <1>1, <1>5, <1>6, <1>8 DEF Heard, Known, Calls
  <1>10. Done(Left(p), "meet") >= 1
    BY <1>5, <1>6, <1>7 DEF Links, Calls
  <1>11. pending[p]["USR1"] = 0
    <2>1. "USR1" \notin mask[p] /\ "USR1" \in Signals
      BY <1>1, <1>8 DEF MaskedAt, Signals
    <2>. QED
      BY <1>1, <2>1 DEF SemWait, Does, Deliverable
  <1>12. pending[p]["USR2"] = 0
    <2>1. SUFFICES ASSUME pending[p]["USR2"] # 0 PROVE FALSE
      OBVIOUS
    <2>2. Done(Right(p), "kill2") > 0
      BY <1>1, <2>1 DEF OnTheWayAt, ToLeft
    <2>3. Done(p, "kill1") = Rounds
      BY <1>7, <2>2 DEF Begun
    <2>. QED
      BY <1>6, <1>7, <2>3 DEF Begun
  <1>13. InFlight(p) = 0 /\ InFlight(p)' = 0
    BY <1>2, <1>11, <1>12 DEF InFlight
  <1>14. Len(told[p]) = Signalled(p) /\ Len(told[p]) >= 1
    <2>1. Len(told[p]) = Signalled(p)
      BY <1>1, <1>13 DEF OnTheWayAt, TypeOK
    <2>2. Done(Left(p), "meet") \in Nat /\ Done(Left(p), "kill1") \in Nat /\ Done(Right(p), "kill2") \in Nat
      BY <1>1, <1>7, DoneType DEF Calls
    <2>. QED
      BY <1>10, <2>1, <2>2 DEF Signalled, ToRight, ToLeft
  <1>15. ToldAt(p)'
    BY <1>1, <1>2 DEF OnTheWayAt, ToldAt
  <1>16. OnTheWayAt(p)'
    BY <1>1, <1>2, <1>3, <1>9, <1>11, <1>12, <1>13, <1>14, <1>15 DEF OnTheWayAt
  <1>. QED
    BY <1>4, <1>16 DEF OnTheWay

\* A step that neither signals nor handles a signal.
LEMMA OnTheWayOther ==
  ASSUME PlaceInv, OnTheWay, NEW p \in Procs, NEW c \in Calls, Makes(p, c), UNCHANGED <<left, told, pending>>,
         c \notin {"meet", "kill1", "kill2", "unmask0", "unmask1", "unmask2"}, c = "take" => grouped
  PROVE  OnTheWay'
  <1>1. \A q \in Procs : Signalled(q)' = Signalled(q) /\ ToLeft(Right(q))' = ToLeft(Right(q))
    BY Counters DEF Makes
  <1>2. \A q \in Procs : Heard(q)' = Heard(q)
    <2>1. CASE c # "take"
      BY <2>1, Counters DEF Makes
    <2>2. CASE c = "take"
      <3>1. grouped /\ grouped'
        BY <2>2 DEF Makes, grouped
      <3>2. \A q \in Procs : \A d \in {"unmask0", "unmask1", "unmask2"} : Done(q, d)' = Done(q, d)
        BY <2>2 DEF Makes, Moves, Calls
      <3>. QED
        BY <3>1, <3>2 DEF Heard, Known
    <2>. QED
      BY <2>1, <2>2
  <1>3. ASSUME NEW q \in Procs
        PROVE  OnTheWayAt(q)'
    BY <1>1, <1>2, OnTheWaySame DEF OnTheWay
  <1>. QED
    BY <1>3 DEF OnTheWay

LEMMA OnTheWayStep ==
  ASSUME Prompt, PlaceInv, Newest, Counted, InQueue, Collected, OnTheWay, NEW p \in Procs, Step(p), Counted', InQueue'
  PROVE  OnTheWay'
  <1>1. /\ TypeOK /\ InPlace /\ TypeOK' /\ InPlace' /\ Running(p) /\ UNCHANGED programs
        /\ Links /\ Begun /\ Bounded /\ OnTheWayAt(p)
    BY StepCall, StepType, LinksOf, Order, Chain DEF PlaceInv, OnTheWay
  <1>2. Begun' /\ Bounded' /\ Links'
    BY <1>1, ChainAfter
  <1>3. PICK c \in Calls : AtCall(p, c) /\ Moves(p, c) /\ Now(p) = Meaning(p, c)
    BY <1>1, StepCall
  <1>4. Makes(p, c)
    BY <1>1, <1>3 DEF Makes
  <1>5. CASE SendSignal(p)
    <2>1. c \in {"meet", "kill1", "kill2"}
      <3>1. Meaning(p, c).op = "kill"
        BY <1>1, <1>3, <1>5, OnlyCall DEF SendSignal, Does
      <3>. QED
        BY <3>1, OpOf DEF Calls
    <2>. QED
      BY <1>1, <1>2, <1>4, <1>5, <2>1, OnTheWaySent
  <1>6. CASE UnmaskSignal(p)
    <2>1. c \in {"unmask0", "unmask1", "unmask2"}
      BY <1>1, <1>3, <1>6, OnlyCall, OpOf DEF UnmaskSignal, Does, Calls
    <2>. QED
      BY <1>1, <1>4, <1>6, <2>1, OnTheWayUnmasked
  <1>7. CASE SemWait(p)
    <2>1. c \in {"take", "wait1", "wait2"} /\ UNCHANGED <<left, told, pending>>
      BY <1>1, <1>3, <1>7, OnlyCall, OpOf DEF SemWait, Does, Calls, signalVars
    <2>2. CASE c = "take" /\ ~grouped
      BY <1>1, <1>2, <1>4, <1>7, <2>2, OnTheWayTaken
    <2>3. CASE ~(c = "take" /\ ~grouped)
      BY <1>4, <2>1, <2>3, OnTheWayOther
    <2>. QED
      BY <2>2, <2>3
  <1>8. CASE ~SendSignal(p) /\ ~UnmaskSignal(p) /\ ~SemWait(p)
    <2>1. UNCHANGED <<left, told, pending>>
      BY <1>8 DEF Step, SemOpen, SemUnlink, SemPost, RemoveQueue, MsgGet, MsgSnd, MsgRcv, MsgRcvFails,
         ChangeHandler, MaskSignal, signalVars
    <2>2. \E op \in {"open", "unlink", "post", "remove", "msgget", "send", "receive", "change", "mask"} : At(p, op)
      BY <1>8 DEF Step, SemOpen, SemUnlink, SemPost, RemoveQueue, MsgGet, MsgSnd, MsgRcv, MsgRcvFails,
         ChangeHandler, MaskSignal, Does
    <2>3. c \notin {"meet", "kill1", "kill2", "unmask0", "unmask1", "unmask2", "take"}
      BY <1>1, <1>3, <2>2, OnlyCall, OpOf
    <2>. QED
      BY <1>4, <2>1, <2>3, OnTheWayOther
  <1>. QED
    BY <1>5, <1>6, <1>7, <1>8

LEMMA OnTheWayInterrupt ==
  ASSUME PlaceInv, Counted, InQueue, OnTheWay, NEW p \in Procs, NEW s \in Signals, Deliver(p, s), UNCHANGED programs
  PROVE  OnTheWay'
  <1>1. /\ TypeOK /\ InPlace /\ Links /\ Begun /\ Bounded /\ OnTheWayAt(p)
        /\ Handle(p, s) /\ pending[p][s] # 0
    BY LinksOf, Order, Chain DEF PlaceInv, OnTheWay, Deliver, Deliverable
  <1>2. /\ \A q \in Procs : Signalled(q)' = Signalled(q) /\ ToLeft(Right(q))' = ToLeft(Right(q))
        /\ \A q \in Procs : q # p => Heard(q)' = Heard(q)
        /\ Heard(p)' <= Heard(p) + 1
    <2>1. Heard(p) \in Nat
      BY <1>1 DEF Bounded
    <2>2. CASE UNCHANGED progressVars
      BY <2>1, <2>2, StaysOrMoves, CountersStay
    <2>3. CASE ~UNCHANGED progressVars
      <3>1. Moves(p, "take") /\ ~grouped /\ "take" \in Calls
        BY <1>1, <2>3, OnlyTheFirstWait DEF Calls
      <3>2. /\ Done(p, "take")' = Done(p, "take") + 1 /\ Done(p, "unmask1")' = Done(p, "unmask1")
            /\ Done(p, "unmask2")' = Done(p, "unmask2")
        BY <3>1 DEF Moves, Calls
      <3>3. Done(p, "take") \in Nat /\ Done(p, "unmask1") \in Nat /\ Done(p, "unmask2") \in Nat
        BY <1>1, DoneType DEF Calls
      <3>4. Heard(p)' = Heard(p) + 1
        BY <3>1, <3>2, <3>3 DEF Heard, Known, grouped
      <3>. QED
        BY <2>1, <3>1, <3>4, Counters
    <2>. QED
      BY <2>2, <2>3
  <1>3. /\ OnTheWayAt(p)'
        /\ \A q \in Procs : q # p => told'[q] = told[q] /\ left'[q] = left[q] /\ pending'[q] = pending[q]
    BY <1>1, <1>2, Handling
  <1>4. ASSUME NEW q \in Procs, q # p
        PROVE  OnTheWayAt(q)'
    BY <1>2, <1>3, <1>4, OnTheWaySame DEF OnTheWay
  <1>. QED
    BY <1>3, <1>4 DEF OnTheWay

-----------------------------------------------------------------------------
(* The log *)

\* The same signals are counted as before.
LEMMA LoggedSame ==
  ASSUME Logged, sends' = sends,
         \A r \in Procs : /\ Done(r, "meet")' = Done(r, "meet") /\ Done(r, "kill1")' = Done(r, "kill1")
                          /\ Done(r, "kill2")' = Done(r, "kill2")
  PROVE  Logged'
  <1>1. \A r \in Procs : ToRight(r)' = ToRight(r) /\ ToLeft(r)' = ToLeft(r)
    BY DEF ToRight, ToLeft
  <1>2. ASSUME NEW r \in Procs
        PROVE  Cardinality(SentTo(r)') = Signalled(r)'
    <2>1. SentTo(r)' = SentTo(r)
      BY DEF SentTo
    <2>2. Signalled(r)' = Signalled(r)
      BY <1>1, AroundProcs DEF Signalled
    <2>. QED
      BY <2>1, <2>2 DEF Logged
  <1>3. 1 \in Procs /\ 2 \in Procs /\ 3 \in Procs /\ 4 \in Procs
    BY DEF Procs
  <1>4. /\ ToRight(1)' = ToRight(1) /\ ToRight(2)' = ToRight(2) /\ ToRight(3)' = ToRight(3) /\ ToRight(4)' = ToRight(4)
        /\ ToLeft(1)' = ToLeft(1) /\ ToLeft(2)' = ToLeft(2) /\ ToLeft(3)' = ToLeft(3) /\ ToLeft(4)' = ToLeft(4)
    BY <1>1, <1>3
  <1>5. Len(sends') = (ToRight(1)' + ToRight(2)' + ToRight(3)' + ToRight(4)')
                      + (ToLeft(1)' + ToLeft(2)' + ToLeft(3)' + ToLeft(4)')
    BY <1>4 DEF Logged
  <1>. QED
    BY <1>2, <1>5 DEF Logged

LEMMA LoggedOther ==
  ASSUME Logged, sends' = sends, NEW p \in Procs, NEW c \in Calls, Moves(p, c), c \notin {"meet", "kill1", "kill2"}
  PROVE  Logged'
  <1>1. \A r \in Procs : /\ Done(r, "meet")' = Done(r, "meet") /\ Done(r, "kill1")' = Done(r, "kill1")
                         /\ Done(r, "kill2")' = Done(r, "kill2")
    BY DEF Moves, Calls
  <1>. QED
    BY <1>1, LoggedSame

LEMMA LoggedStays ==
  ASSUME Logged, sends' = sends, Stays
  PROVE  Logged'
  <1>1. \A r \in Procs : /\ Done(r, "meet")' = Done(r, "meet") /\ Done(r, "kill1")' = Done(r, "kill1")
                         /\ Done(r, "kill2")' = Done(r, "kill2")
    BY DEF Stays, Calls
  <1>. QED
    BY <1>1, LoggedSame

\* A signal is sent to one process.
LEMMA SentOnce ==
  ASSUME TypeOK, NEW r \in Procs, NEW q \in Procs, NEW e, e \in [from : Procs, to : Pids, sig : Signals], e.to = q,
         sends' = Append(sends, e)
  PROVE  /\ Cardinality(SentTo(r)') = IF r = q THEN Cardinality(SentTo(r)) + 1 ELSE Cardinality(SentTo(r))
         /\ Len(sends') = Len(sends) + 1
  <1>1. sends \in Seq([from : Procs, to : Pids, sig : Signals])
    BY DEF TypeOK
  <1>2. /\ Len(sends) \in Nat /\ Len(sends') = Len(sends) + 1 /\ sends'[Len(sends) + 1] = e
        /\ \A k \in 1..Len(sends) : sends'[k] = sends[k]
    BY <1>1
  <1>3. IsFiniteSet(SentTo(r)) /\ SentTo(r) \subseteq 1..Len(sends) /\ (Len(sends) + 1) \notin SentTo(r)
    <2>1. IsFiniteSet(1..Len(sends))
      BY <1>2, FS_Interval
    <2>2. SentTo(r) \subseteq 1..Len(sends)
      BY DEF SentTo
    <2>. QED
      BY <1>2, <2>1, <2>2, FS_Subset
  <1>4. SentTo(r)' = IF r = q THEN SentTo(r) \cup {Len(sends) + 1} ELSE SentTo(r)
    <2>1. \A k : k \in 1..Len(sends') <=> k \in 1..Len(sends) \/ k = Len(sends) + 1
      BY <1>2
    <2>2. SentTo(r)' = {k \in 1..Len(sends') : sends'[k].to = r}
      BY DEF SentTo
    <2>3. \A k : k \in SentTo(r)' <=> k \in SentTo(r) \/ (k = Len(sends) + 1 /\ r = q)
      BY <1>2, <2>1, <2>2 DEF SentTo
    <2>. QED
      BY <2>3
  <1>5. Cardinality(SentTo(r) \cup {Len(sends) + 1}) = Cardinality(SentTo(r)) + 1
    BY <1>3, FS_AddElement
  <1>. QED
    BY <1>2, <1>4, <1>5

LEMMA LoggedSent ==
  ASSUME PlaceInv, InQueue, OnTheWay, Logged, NEW p \in Procs, NEW c \in {"meet", "kill1", "kill2"}, Makes(p, c),
         SendSignal(p)
  PROVE  Logged'
  <1>1. TypeOK /\ InPlace /\ OnTheWayAt(p) /\ Aim(p, c) \in Procs /\ c \in Calls
    BY AroundProcs DEF PlaceInv, OnTheWay, Aim, Calls
  <1> DEFINE e == [from |-> p, to |-> Aim(p, c), sig |-> With(c)]
  <1>2. e \in [from : Procs, to : Pids, sig : Signals] /\ e.to = Aim(p, c)
    BY <1>1 DEF With, Signals, Pids
  <1>3. sends' = Append(sends, e)
    BY <1>1, Aiming
  <1>. HIDE DEF e
  <1>4. ASSUME NEW r \in Procs
        PROVE  Cardinality(SentTo(r)') = Signalled(r)'
    <2>1. Signalled(r)' = IF r = Aim(p, c) THEN Signalled(r) + 1 ELSE Signalled(r)
      BY <1>1, OneMore
    <2>2. Cardinality(SentTo(r)) = Signalled(r)
      BY DEF Logged
    <2>3. Cardinality(SentTo(r)') = IF r = Aim(p, c) THEN Cardinality(SentTo(r)) + 1 ELSE Cardinality(SentTo(r))
      BY <1>1, <1>2, <1>3, SentOnce
    <2>. QED
      BY <2>1, <2>2, <2>3
  <1>5. Len(sends') = Len(sends) + 1
    BY <1>1, <1>2, <1>3, SentOnce
  <1>6. \A r \in Procs :
           /\ ToRight(r) \in Nat /\ ToLeft(r) \in Nat
           /\ ToRight(r)' = IF r = p /\ c # "kill2" THEN ToRight(r) + 1 ELSE ToRight(r)
           /\ ToLeft(r)' = IF r = p /\ c = "kill2" THEN ToLeft(r) + 1 ELSE ToLeft(r)
    <2>. SUFFICES ASSUME NEW r \in Procs
                  PROVE  /\ ToRight(r) \in Nat /\ ToLeft(r) \in Nat
                         /\ ToRight(r)' = IF r = p /\ c # "kill2" THEN ToRight(r) + 1 ELSE ToRight(r)
                         /\ ToLeft(r)' = IF r = p /\ c = "kill2" THEN ToLeft(r) + 1 ELSE ToLeft(r)
      OBVIOUS
    <2>1. Done(r, "meet") \in Nat /\ Done(r, "kill1") \in Nat /\ Done(r, "kill2") \in Nat
      BY <1>1, DoneType DEF Calls
    <2>2. \A d \in Calls : Done(r, d)' = IF r = p /\ d = c THEN Done(r, d) + 1 ELSE Done(r, d)
      BY DEF Makes, Moves
    <2>3. /\ Done(r, "meet")' = IF r = p /\ c = "meet" THEN Done(r, "meet") + 1 ELSE Done(r, "meet")
          /\ Done(r, "kill1")' = IF r = p /\ c = "kill1" THEN Done(r, "kill1") + 1 ELSE Done(r, "kill1")
          /\ Done(r, "kill2")' = IF r = p /\ c = "kill2" THEN Done(r, "kill2") + 1 ELSE Done(r, "kill2")
      BY <2>2 DEF Calls
    <2>4. CASE c = "meet"
      BY <2>1, <2>3, <2>4 DEF ToRight, ToLeft
    <2>5. CASE c = "kill1"
      BY <2>1, <2>3, <2>5 DEF ToRight, ToLeft
    <2>6. CASE c = "kill2"
      BY <2>1, <2>3, <2>6 DEF ToRight, ToLeft
    <2>. QED
      BY <2>4, <2>5, <2>6
  <1>7. Len(sends') = (ToRight(1)' + ToRight(2)' + ToRight(3)' + ToRight(4)')
                      + (ToLeft(1)' + ToLeft(2)' + ToLeft(3)' + ToLeft(4)')
    <2>1. Len(sends) = (ToRight(1) + ToRight(2) + ToRight(3) + ToRight(4))
                       + (ToLeft(1) + ToLeft(2) + ToLeft(3) + ToLeft(4))
      BY DEF Logged
    <2>2. 1 \in Procs /\ 2 \in Procs /\ 3 \in Procs /\ 4 \in Procs /\ p \in {1, 2, 3, 4}
      BY AroundProcs
    <2>3. CASE c = "kill2"
      <3>1. /\ ToRight(1)' = ToRight(1) /\ ToRight(2)' = ToRight(2) /\ ToRight(3)' = ToRight(3) /\ ToRight(4)' = ToRight(4)
            /\ ToLeft(1)' = (IF p = 1 THEN ToLeft(1) + 1 ELSE ToLeft(1)) /\ ToLeft(2)' = (IF p = 2 THEN ToLeft(2) + 1 ELSE ToLeft(2))
            /\ ToLeft(3)' = (IF p = 3 THEN ToLeft(3) + 1 ELSE ToLeft(3)) /\ ToLeft(4)' = (IF p = 4 THEN ToLeft(4) + 1 ELSE ToLeft(4))
            /\ ToRight(1) \in Nat /\ ToRight(2) \in Nat /\ ToRight(3) \in Nat /\ ToRight(4) \in Nat
            /\ ToLeft(1) \in Nat /\ ToLeft(2) \in Nat /\ ToLeft(3) \in Nat /\ ToLeft(4) \in Nat
        BY <1>6, <2>2, <2>3
      <3>6. /\ ToRight(1)' + ToRight(2)' + ToRight(3)' + ToRight(4)' = ToRight(1) + ToRight(2) + ToRight(3) + ToRight(4)
            /\ ToRight(1) + ToRight(2) + ToRight(3) + ToRight(4) \in Nat
            /\ ToLeft(1) + ToLeft(2) + ToLeft(3) + ToLeft(4) \in Nat
        BY <3>1
      <3>2. CASE p = 1
        <4>1. ToLeft(1)' = ToLeft(1) + 1 /\ ToLeft(2)' = ToLeft(2) /\ ToLeft(3)' = ToLeft(3) /\ ToLeft(4)' = ToLeft(4)
          BY <3>1, <3>2
        <4>2. ToLeft(1)' + ToLeft(2)' + ToLeft(3)' + ToLeft(4)'
                = ToLeft(1) + ToLeft(2) + ToLeft(3) + ToLeft(4) + 1
          BY <3>1, <4>1
        <4>. QED
          BY <1>5, <2>1, <3>6, <4>2
      <3>3. CASE p = 2
        <4>1. ToLeft(1)' = ToLeft(1) /\ ToLeft(2)' = ToLeft(2) + 1 /\ ToLeft(3)' = ToLeft(3) /\ ToLeft(4)' = ToLeft(4)
          BY <3>1, <3>3
        <4>2. ToLeft(1)' + ToLeft(2)' + ToLeft(3)' + ToLeft(4)'
                = ToLeft(1) + ToLeft(2) + ToLeft(3) + ToLeft(4) + 1
          BY <3>1, <4>1
        <4>. QED
          BY <1>5, <2>1, <3>6, <4>2
      <3>4. CASE p = 3
        <4>1. ToLeft(1)' = ToLeft(1) /\ ToLeft(2)' = ToLeft(2) /\ ToLeft(3)' = ToLeft(3) + 1 /\ ToLeft(4)' = ToLeft(4)
          BY <3>1, <3>4
        <4>2. ToLeft(1)' + ToLeft(2)' + ToLeft(3)' + ToLeft(4)'
                = ToLeft(1) + ToLeft(2) + ToLeft(3) + ToLeft(4) + 1
          BY <3>1, <4>1
        <4>. QED
          BY <1>5, <2>1, <3>6, <4>2
      <3>5. CASE p = 4
        <4>1. ToLeft(1)' = ToLeft(1) /\ ToLeft(2)' = ToLeft(2) /\ ToLeft(3)' = ToLeft(3) /\ ToLeft(4)' = ToLeft(4) + 1
          BY <3>1, <3>5
        <4>2. ToLeft(1)' + ToLeft(2)' + ToLeft(3)' + ToLeft(4)'
                = ToLeft(1) + ToLeft(2) + ToLeft(3) + ToLeft(4) + 1
          BY <3>1, <4>1
        <4>. QED
          BY <1>5, <2>1, <3>6, <4>2
      <3>. QED
        BY <2>2, <3>2, <3>3, <3>4, <3>5
    <2>4. CASE c # "kill2"
      <3>1. /\ ToLeft(1)' = ToLeft(1) /\ ToLeft(2)' = ToLeft(2) /\ ToLeft(3)' = ToLeft(3) /\ ToLeft(4)' = ToLeft(4)
            /\ ToRight(1)' = (IF p = 1 THEN ToRight(1) + 1 ELSE ToRight(1)) /\ ToRight(2)' = (IF p = 2 THEN ToRight(2) + 1 ELSE ToRight(2))
            /\ ToRight(3)' = (IF p = 3 THEN ToRight(3) + 1 ELSE ToRight(3)) /\ ToRight(4)' = (IF p = 4 THEN ToRight(4) + 1 ELSE ToRight(4))
            /\ ToRight(1) \in Nat /\ ToRight(2) \in Nat /\ ToRight(3) \in Nat /\ ToRight(4) \in Nat
            /\ ToLeft(1) \in Nat /\ ToLeft(2) \in Nat /\ ToLeft(3) \in Nat /\ ToLeft(4) \in Nat
        BY <1>6, <2>2, <2>4
      <3>6. /\ ToLeft(1)' + ToLeft(2)' + ToLeft(3)' + ToLeft(4)' = ToLeft(1) + ToLeft(2) + ToLeft(3) + ToLeft(4)
            /\ ToRight(1) + ToRight(2) + ToRight(3) + ToRight(4) \in Nat
            /\ ToLeft(1) + ToLeft(2) + ToLeft(3) + ToLeft(4) \in Nat
        BY <3>1
      <3>2. CASE p = 1
        <4>1. ToRight(1)' = ToRight(1) + 1 /\ ToRight(2)' = ToRight(2) /\ ToRight(3)' = ToRight(3) /\ ToRight(4)' = ToRight(4)
          BY <3>1, <3>2
        <4>2. ToRight(1)' + ToRight(2)' + ToRight(3)' + ToRight(4)'
                = ToRight(1) + ToRight(2) + ToRight(3) + ToRight(4) + 1
          BY <3>1, <4>1
        <4>. QED
          BY <1>5, <2>1, <3>6, <4>2
      <3>3. CASE p = 2
        <4>1. ToRight(1)' = ToRight(1) /\ ToRight(2)' = ToRight(2) + 1 /\ ToRight(3)' = ToRight(3) /\ ToRight(4)' = ToRight(4)
          BY <3>1, <3>3
        <4>2. ToRight(1)' + ToRight(2)' + ToRight(3)' + ToRight(4)'
                = ToRight(1) + ToRight(2) + ToRight(3) + ToRight(4) + 1
          BY <3>1, <4>1
        <4>. QED
          BY <1>5, <2>1, <3>6, <4>2
      <3>4. CASE p = 3
        <4>1. ToRight(1)' = ToRight(1) /\ ToRight(2)' = ToRight(2) /\ ToRight(3)' = ToRight(3) + 1 /\ ToRight(4)' = ToRight(4)
          BY <3>1, <3>4
        <4>2. ToRight(1)' + ToRight(2)' + ToRight(3)' + ToRight(4)'
                = ToRight(1) + ToRight(2) + ToRight(3) + ToRight(4) + 1
          BY <3>1, <4>1
        <4>. QED
          BY <1>5, <2>1, <3>6, <4>2
      <3>5. CASE p = 4
        <4>1. ToRight(1)' = ToRight(1) /\ ToRight(2)' = ToRight(2) /\ ToRight(3)' = ToRight(3) /\ ToRight(4)' = ToRight(4) + 1
          BY <3>1, <3>5
        <4>2. ToRight(1)' + ToRight(2)' + ToRight(3)' + ToRight(4)'
                = ToRight(1) + ToRight(2) + ToRight(3) + ToRight(4) + 1
          BY <3>1, <4>1
        <4>. QED
          BY <1>5, <2>1, <3>6, <4>2
      <3>. QED
        BY <2>2, <3>2, <3>3, <3>4, <3>5
    <2>. QED
      BY <2>3, <2>4
  <1>. QED
    BY <1>4, <1>7 DEF Logged

LEMMA LoggedStep ==
  ASSUME PlaceInv, InQueue, OnTheWay, Logged, NEW p \in Procs, Step(p)
  PROVE  Logged'
  <1>1. /\ TypeOK /\ InPlace /\ TypeOK' /\ InPlace' /\ Running(p) /\ UNCHANGED programs
    BY StepCall, StepType DEF PlaceInv
  <1>2. PICK c \in Calls : AtCall(p, c) /\ Moves(p, c) /\ Now(p) = Meaning(p, c)
    BY <1>1, StepCall
  <1>3. CASE SendSignal(p)
    <2>1. c \in {"meet", "kill1", "kill2"}
      <3>1. Meaning(p, c).op = "kill"
        BY <1>1, <1>2, <1>3, OnlyCall DEF SendSignal, Does
      <3>. QED
        BY <3>1, OpOf DEF Calls
    <2>2. Makes(p, c)
      BY <1>1, <1>2 DEF Makes
    <2>. QED
      BY <1>3, <2>1, <2>2, LoggedSent
  <1>4. CASE ~SendSignal(p)
    <2>1. sends' = sends
      BY <1>4 DEF Step, SemOpen, SemUnlink, SemPost, SemWait, RemoveQueue, MsgGet, MsgSnd, MsgRcv, MsgRcvFails,
         ChangeHandler, MaskSignal, UnmaskSignal
    <2>2. \E op \in {"open", "unlink", "post", "wait", "remove", "msgget", "send", "receive", "change", "mask", "unmask"} :
             At(p, op)
      BY <1>4 DEF Step, SemOpen, SemUnlink, SemPost, SemWait, RemoveQueue, MsgGet, MsgSnd, MsgRcv, MsgRcvFails,
         ChangeHandler, MaskSignal, UnmaskSignal, Does
    <2>3. c \notin {"meet", "kill1", "kill2"}
      BY <1>1, <1>2, <2>2, OnlyCall, OpOf
    <2>. QED
      BY <1>2, <2>1, <2>3, LoggedOther
  <1>. QED
    BY <1>3, <1>4

LEMMA LoggedInterrupt ==
  ASSUME PlaceInv, Counted, InQueue, OnTheWay, Logged, NEW p \in Procs, NEW s \in Signals, Deliver(p, s),
         UNCHANGED programs
  PROVE  Logged'
  <1>1. Links /\ OnTheWayAt(p) /\ sends' = sends
    BY LinksOf DEF PlaceInv, OnTheWay, Deliver
  <1>2. CASE UNCHANGED progressVars
    BY <1>1, <1>2, StaysOrMoves, LoggedStays
  <1>3. CASE ~UNCHANGED progressVars
    <2>1. Moves(p, "take") /\ "take" \in Calls
      BY <1>1, <1>3, OnlyTheFirstWait DEF Calls
    <2>. QED
      BY <1>1, <2>1, LoggedOther
  <1>. QED
    BY <1>2, <1>3

-----------------------------------------------------------------------------
(* The invariant of a clean start holds *)

LEMMA CleanInit == Init => SignalInv
  <1>. SUFFICES ASSUME Init
               PROVE  SignalInv
    OBVIOUS
  <1>1. \A p \in Procs, c \in Calls : Done(p, c) = 0
    BY NotStarted DEF Init
  <1>2. /\ \A p \in Procs : /\ Left(p) \in Procs /\ Right(p) \in Procs /\ <<p, 0>> \in Names /\ <<p, 1>> \in Names
                            /\ <<p, 2>> \in Names /\ p \in MsgTypes
        /\ 1 \in Procs /\ 2 \in Procs /\ 3 \in Procs /\ 4 \in Procs /\ 18 \in MsgTypes
    BY AroundProcs, NamesOf DEF MsgTypes
  <1>3. Newest
    BY <1>1 DEF Newest, NewestAt, Calls
  <1>4. \A p \in Procs : /\ Done(p, "meet") = 0 /\ Done(p, "kill1") = 0 /\ Done(p, "kill2") = 0
                         /\ Done(p, "post1") = 0 /\ Done(p, "post2") = 0 /\ Done(p, "wait1") = 0 /\ Done(p, "wait2") = 0
                         /\ Done(p, "take") = 0 /\ Done(p, "unmask0") = 0 /\ Done(p, "unmask1") = 0 /\ Done(p, "unmask2") = 0
                         /\ Done(p, "introduce") = 0 /\ Done(p, "learn") = 0 /\ Done(p, "close") = 0 /\ Done(p, "join") = 0
                         /\ Done(p, "tell2") = 0 /\ Done(p, "tell3") = 0 /\ Done(p, "tell4") = 0 /\ Done(p, "say") = 0
                         /\ Done(p, "collect1") = 0 /\ Done(p, "collect2") = 0 /\ Done(p, "collect3") = 0
    BY <1>1 DEF Calls
  <1>5. Counted
    <2>. SUFFICES ASSUME NEW p \in Procs
                  PROVE  CountedAt(p)
      BY DEF Counted
    <2>1. sem[<<p, 0>>][1] = 0 /\ sem[<<p, 1>>][1] = 0 /\ sem[<<p, 2>>][1] = 0
      BY <1>2 DEF Init
    <2>. QED
      BY <1>2, <1>4, <2>1 DEF CountedAt
  <1>6. InQueue
    <2>. SUFFICES ASSUME NEW p \in Procs
                  PROVE  InQueueAt(p)
      BY DEF InQueue
    <2>1. queue[1][p] = <<>>
      <3>1. p \in MsgTypes /\ 1 \in {0, 1}
        BY <1>2
      <3>2. queue[1] = [t \in MsgTypes |-> IF 1 = 0 /\ t \in StaleTypes THEN <<Nobody>> ELSE <<>>]
        BY <3>1 DEF Init
      <3>. QED
        BY <3>1, <3>2
    <2>2. /\ Done(p, "introduce") = 0 /\ Done(2, "close") = 0 /\ Done(1, "tell2") = 0
          /\ Done(1, "tell3") = 0 /\ Done(1, "tell4") = 0 /\ Done(Right(p), "introduce") = 0
          /\ Done(p, "join") = 0 /\ Done(p, "learn") = 0
      BY <1>2, <1>4
    <2>3. Announced(p) = 0
      BY <2>2 DEF Announced
    <2>4. Told(p) = 0
      BY <2>2 DEF Told
    <2>5. Waiting1 = <<>>
      BY <2>2 DEF Waiting1
    <2>6. WaitingFor(p) = <<>>
      BY <2>2, <2>4 DEF WaitingFor
    <2>. QED
      BY <2>1, <2>2, <2>3, <2>4, <2>5, <2>6 DEF InQueueAt
  <1>7. Collected
    <2>1. queue[1][18] = <<>> /\ allPIDs = <<>>
      BY <1>2 DEF Init
    <2>2. Said = <<>>
      BY <2>1 DEF Said
    <2>3. \A k \in 1..Len(Said) : FALSE
      BY <2>2
    <2>. QED
      BY <1>2, <1>4, <2>1, <2>3 DEF Collected
  <1>8. \A p \in Procs : ToRight(p) = 0 /\ ToLeft(p) = 0 /\ Signalled(p) = 0 /\ Heard(p) = 0
    <2>. SUFFICES ASSUME NEW p \in Procs
                  PROVE  ToRight(p) = 0 /\ ToLeft(p) = 0 /\ Signalled(p) = 0 /\ Heard(p) = 0
      OBVIOUS
    <2>1. Done(Left(p), "meet") = 0 /\ Done(Left(p), "kill1") = 0 /\ Done(Right(p), "kill2") = 0
      BY <1>2, <1>4
    <2>. QED
      BY <1>2, <1>4, <2>1 DEF ToRight, ToLeft, Signalled, Heard, Known
  <1>9. OnTheWay
    <2>. SUFFICES ASSUME NEW p \in Procs
                  PROVE  OnTheWayAt(p)
      BY DEF OnTheWay
    <2>1. told[p] = <<>> /\ pending[p]["USR1"] = 0 /\ pending[p]["USR2"] = 0 /\ left[p] = 0
      BY DEF Init, Signals
    <2>2. InFlight(p) = 0 /\ ToldAt(p)
      BY <2>1 DEF InFlight, ToldAt
    <2>. QED
      BY <1>8, <2>1, <2>2 DEF OnTheWayAt
  <1>10. Logged
    <2>1. sends = <<>>
      BY DEF Init
    <2>2. \A p \in Procs : SentTo(p) = {}
      BY <2>1 DEF SentTo
    <2>3. \A p \in Procs : Cardinality(SentTo(p)) = Signalled(p)
      BY <1>8, <2>2, FS_EmptySet
    <2>4. Len(sends) = (ToRight(1) + ToRight(2) + ToRight(3) + ToRight(4))
                       + (ToLeft(1) + ToLeft(2) + ToLeft(3) + ToLeft(4))
      BY <1>2, <1>8, <2>1
    <2>. QED
      BY <2>3, <2>4 DEF Logged
  <1>. QED
    BY PlaceInit, <1>3, <1>5, <1>6, <1>7, <1>9, <1>10 DEF SignalInv, CleanInv

\* Nothing that the invariant is about happens.
LEMMA CleanStays ==
  ASSUME CleanInv, Stays, UNCHANGED <<programs, Data>>
  PROVE  CleanInv'
  <1>1. Newest' /\ Counted'
    BY NewestStays, CountedStays DEF CleanInv, Data
  <1>2. InQueue' /\ Collected'
    BY InQueueStays DEF CleanInv, Data
  <1>3. ASSUME NEW q \in Procs
        PROVE  OnTheWayAt(q)'
    <2>1. OnTheWayAt(q) /\ told' = told /\ left' = left /\ pending' = pending
      BY DEF CleanInv, OnTheWay, Data
    <2>. QED
      BY <2>1, CountersStay, OnTheWaySame
  <1>4. Logged'
    BY LoggedStays DEF CleanInv, Data
  <1>. QED
    BY <1>1, <1>2, <1>3, <1>4 DEF CleanInv, OnTheWay

LEMMA CleanNext ==
  ASSUME Prompt, SignalInv, [Next]_vars
  PROVE  SignalInv'
  <1>1. PlaceInv /\ PlaceInv' /\ TypeOK /\ InPlace
    BY PlaceNext DEF SignalInv, PlaceInv
  <1>2. SUFFICES ASSUME Clean' PROVE CleanInv'
    BY <1>1 DEF SignalInv
  <1>3. stale' = {} /\ Clean
    BY <1>2, StaleGrows DEF Clean
  <1>4. CleanInv /\ Newest /\ Counted /\ InQueue /\ Collected /\ OnTheWay /\ Logged
    BY <1>3 DEF SignalInv, CleanInv
  <1>5. ASSUME NEW p \in Procs, Launch(p)
        PROVE  CleanInv'
    BY <1>1, <1>4, <1>5, LaunchType, StartsOff, CleanStays
  <1>6. ASSUME NEW p \in Procs, Step(p)
        PROVE  CleanInv'
    <2>1. Newest' /\ Counted'
      BY <1>1, <1>3, <1>4, <1>6, NewestStep, CountedStep
    <2>2. InQueue' /\ Collected'
      BY <1>1, <1>4, <1>6, InQueueStep
    <2>3. OnTheWay'
      BY <1>1, <1>4, <1>6, <2>1, <2>2, OnTheWayStep
    <2>4. Logged'
      BY <1>1, <1>4, <1>6, LoggedStep
    <2>. QED
      BY <2>1, <2>2, <2>3, <2>4 DEF CleanInv
  <1>7. ASSUME NEW p \in Procs, Interrupt(p)
        PROVE  CleanInv'
    <2>1. PICK s \in Signals : Deliver(p, s) /\ UNCHANGED programs
      BY <1>7 DEF Interrupt
    <2>2. Newest' /\ Counted'
      BY <1>1, <1>4, <2>1, NewestInterrupt, CountedInterrupt
    <2>3. InQueue' /\ Collected'
      BY <1>1, <1>4, <2>1, InQueueInterrupt
    <2>4. OnTheWay' /\ Logged'
      BY <1>1, <1>4, <2>1, OnTheWayInterrupt, LoggedInterrupt
    <2>. QED
      BY <2>2, <2>3, <2>4 DEF CleanInv
  <1>8. CASE UNCHANGED vars
    <2>1. UNCHANGED <<programs, progressVars>> /\ UNCHANGED <<programs, Data>>
      BY <1>8 DEF vars, progressVars, signalVars, nameVars, queueVars, knownVars, Data
    <2>. QED
      BY <1>4, <2>1, StandStill, CleanStays
  <1>. QED
    BY <1>5, <1>6, <1>7, <1>8 DEF Next

\* After a clean start the semaphores, the queue and the signals are what the places of the
\* four processes say, for any number of turns, as long as a signal is handled before the
\* receiver's next call.
THEOREM SignalInvariant == Prompt => (Spec => []SignalInv)
  <1>1. Prompt /\ SignalInv /\ [Next]_vars => SignalInv'
    BY CleanNext
  <1>. SUFFICES ASSUME Prompt
                PROVE  Spec => []SignalInv
    OBVIOUS
  <1>2. SignalInv /\ [Next]_vars => SignalInv'
    BY <1>1
  <1>. QED
    BY <1>2, CleanInit, PTL DEF Spec

-----------------------------------------------------------------------------
(* What follows from the invariant *)

\* The facts about one clean state that the properties need.
LEMMA CleanState ==
  ASSUME SignalInv, Clean
  PROVE  /\ TypeOK /\ InPlace /\ CleanInv /\ Links /\ Begun /\ Bounded
         /\ \A p \in Procs : Ordered(p) /\ OnTheWayAt(p) /\ InQueueAt(p)
  <1>1. TypeOK /\ InPlace /\ CleanInv /\ Counted /\ InQueue /\ OnTheWay
    BY DEF SignalInv, PlaceInv, CleanInv
  <1>2. \A p \in Procs : Ordered(p)
    BY <1>1, Order
  <1>3. Links
    BY <1>1, LinksOf
  <1>4. Begun /\ Bounded
    BY <1>2, <1>3, Chain
  <1>. QED
    BY <1>1, <1>2, <1>3, <1>4 DEF OnTheWay, InQueue

LEMMA NotLost == SignalInv => NoSignalLost
  <1>. SUFFICES ASSUME SignalInv, Clean, NEW p \in Procs
                PROVE  Cardinality(SentTo(p))
                         = Len(told[p]) + Cardinality({s \in Signals : pending[p][s] # 0})
    BY DEF NoSignalLost
  <1>1. OnTheWayAt(p) /\ CleanInv
    BY CleanState
  <1>2. Cardinality(SentTo(p)) = Signalled(p) /\ Signalled(p) = Len(told[p]) + InFlight(p)
    BY <1>1 DEF CleanInv, Logged, OnTheWayAt
  <1>3. Cardinality({s \in Signals : pending[p][s] # 0}) = InFlight(p)
    <2>1. CASE pending[p]["USR1"] # 0
      <3>1. pending[p]["USR2"] = 0
        BY <1>1, <2>1 DEF OnTheWayAt
      <3>2. {s \in Signals : pending[p][s] # 0} = {"USR1"}
        BY <2>1, <3>1 DEF Signals
      <3>. QED
        BY <2>1, <3>2, FS_Singleton DEF InFlight
    <2>2. CASE pending[p]["USR1"] = 0 /\ pending[p]["USR2"] # 0
      <3>1. {s \in Signals : pending[p][s] # 0} = {"USR2"}
        BY <2>2 DEF Signals
      <3>. QED
        BY <2>2, <3>1, FS_Singleton DEF InFlight
    <2>3. CASE pending[p]["USR1"] = 0 /\ pending[p]["USR2"] = 0
      <3>1. {s \in Signals : pending[p][s] # 0} = {}
        BY <2>3 DEF Signals
      <3>. QED
        BY <2>3, <3>1, FS_EmptySet DEF InFlight
    <2>. QED
      BY <2>1, <2>2, <2>3
  <1>. QED
    BY <1>2, <1>3

\* At its end a process must have handled the introduction and both loops' signals.
LEMMA AllHeard ==
  ASSUME SignalInv, Clean, NEW p \in Procs, phase[p] = "done"
  PROVE  Heard(p) = (IF grouped THEN 1 ELSE 2 * Rounds + 1) /\ Signalled(p) <= Heard(p)
  <1>1. /\ TypeOK /\ InPlace /\ Begun /\ Rounds \in Nat /\ Rounds >= 1
        /\ \A q \in Procs : Ordered(q)
    BY CleanState, RingAssumption
  <1>2. Left(p) \in Procs /\ Right(p) \in Procs
    BY AroundProcs
  <1>3. /\ Done(Left(p), "meet") \in {0, 1} /\ Done(Left(p), "kill1") \in Nat
        /\ Done(Left(p), "kill1") <= Rounds /\ Done(Right(p), "kill2") \in Nat
        /\ Done(Right(p), "kill2") <= Rounds
    <2>1. Ordered(Left(p)) /\ Ordered(Right(p))
      BY <1>1, <1>2
    <2>2. Done(Left(p), "meet") \in {0, 1}
      BY <2>1 DEF Ordered, MeetingOrder, Atmost1
    <2>3. Done(Left(p), "kill1") \in Nat /\ Done(Left(p), "kill1") <= Rounds
      BY <1>1, <2>1 DEF Ordered, ForwardOrder
    <2>4. Done(Right(p), "kill2") \in Nat /\ Done(Right(p), "kill2") <= Rounds
      BY <1>1, <2>1 DEF Ordered, BackOrder
    <2>. QED
      BY <2>2, <2>3, <2>4
  <1>4. CASE grouped
    <2>1. Done(p, "unmask0") = 1
      BY <1>1, <1>4 DEF Ordered, GroupOrder, MeetingOrder, Atmost1
    <2>2. Done(p, "unmask1") = 0 /\ Done(p, "unmask2") = 0
      BY <1>1, <1>4, GroupQuiet
    <2>3. Done(Left(p), "kill1") = 0 /\ Done(Right(p), "kill2") = 0
      BY <1>1, <1>2, <1>4, GroupQuiet
    <2>4. Heard(p) = 1
      BY <1>4, <2>1, <2>2 DEF Heard, Known
    <2>. QED
      BY <1>3, <1>4, <2>3, <2>4 DEF Signalled, ToRight, ToLeft
  <1>5. CASE ~grouped
    <2>1. Done(p, "unmask2") = Rounds
      BY <1>1, <1>5 DEF Ordered, RingOrder
    <2>2. Done(p, "mask2") > 0
      BY <1>1, <2>1 DEF Ordered, BackOrder
    <2>3. Done(p, "unmask1") = Rounds /\ Done(p, "kill1") = Rounds
      BY <1>1, <2>2 DEF Ordered, BackOrder
    <2>4. Done(p, "take") = 1
      BY <1>1, <2>3 DEF Begun
    <2>5. Heard(p) = 2 * Rounds + 1
      BY <1>1, <1>5, <2>1, <2>3, <2>4 DEF Heard, Known
    <2>. QED
      BY <1>1, <1>3, <1>5, <2>5 DEF Signalled, ToRight, ToLeft
  <1>. QED
    BY <1>4, <1>5

LEMMA InTurn == SignalInv => HeardInTurn
  <1>. SUFFICES ASSUME SignalInv, Clean, NEW p \in Procs
                PROVE  /\ \A k \in 1..Len(told[p]) :
                             /\ k = 1 => told[p][k] = "intro"
                             /\ k = 2 => told[p][k] \in {"intro", "left"}
                             /\ k \in 3..Rounds + 1 => told[p][k] = "left"
                             /\ k > 2 /\ k > Rounds + 1 => told[p][k] = "right"
                       /\ phase[p] = "done" => Len(told[p]) = IF grouped THEN 1 ELSE 2 * Rounds + 1
    BY DEF HeardInTurn
  <1>1. OnTheWayAt(p) /\ TypeOK /\ Rounds \in Nat
    BY CleanState, RingAssumption
  <1>2. Len(told[p]) \in Nat
    BY <1>1 DEF TypeOK
  <1>3. ASSUME NEW k \in 1..Len(told[p])
        PROVE  /\ k = 1 => told[p][k] = "intro"
               /\ k = 2 => told[p][k] \in {"intro", "left"}
               /\ k \in 3..Rounds + 1 => told[p][k] = "left"
               /\ k > 2 /\ k > Rounds + 1 => told[p][k] = "right"
    <2>1. ToldAt(p)
      BY <1>1 DEF OnTheWayAt
    <2>2. CASE k = 1
      BY <1>1, <1>2, <2>1, <2>2 DEF ToldAt
    <2>3. CASE k = 2
      BY <1>1, <1>2, <2>1, <2>3 DEF ToldAt
    <2>4. CASE k \in 3..Len(told[p])
      <3>1. told[p][k] = IF k <= Rounds + 1 THEN "left" ELSE "right"
        BY <2>1, <2>4 DEF ToldAt
      <3>. QED
        BY <1>1, <1>2, <2>4, <3>1
    <2>. QED
      BY <1>2, <2>2, <2>3, <2>4
  <1>4. ASSUME phase[p] = "done"
        PROVE  Len(told[p]) = IF grouped THEN 1 ELSE 2 * Rounds + 1
    <2>1. Heard(p) = (IF grouped THEN 1 ELSE 2 * Rounds + 1) /\ Signalled(p) <= Heard(p)
      BY <1>4, AllHeard
    <2>2. Heard(p) <= Len(told[p]) /\ Len(told[p]) + InFlight(p) = Signalled(p)
      BY <1>1 DEF OnTheWayAt
    <2>3. InFlight(p) \in {0, 1}
      BY DEF InFlight
    <2>4. Heard(p) \in Nat
      BY <1>1, <2>1
    <2>. QED
      BY <1>2, <2>1, <2>2, <2>3, <2>4
  <1>. QED
    BY <1>3, <1>4


LEMMA NeighboursKnown == SignalInv => LeftKnown
  <1>. SUFFICES ASSUME SignalInv, Clean, NEW p \in Procs,
                       handler[p] = "circularHandler" \/ (grouped /\ phase[p] = "done")
                PROVE  left[p] = Left(p) /\ right[p] = Right(p)
    BY DEF LeftKnown, Left, Right
  <1>1. /\ TypeOK /\ Ordered(p) /\ OnTheWayAt(p) /\ InQueueAt(p)
        /\ handler[p] = "circularHandler" <=> Done(p, "change") = 1
    <2>1. Masked
      BY DEF SignalInv, PlaceInv
    <2>. QED
      BY <2>1, CleanState DEF Masked, MaskedAt
  <1>2. Known(p) = 1 /\ Done(p, "learn") = 1
    <2>1. CASE grouped
      <3>1. Done(p, "change") = 0
        BY <1>1, <2>1 DEF Ordered, GroupOrder
      <3>2. phase[p] = "done"
        BY <1>1, <3>1
      <3>3. Done(p, "wake") = 1
        BY <1>1, <2>1, <3>2 DEF Ordered, GroupOrder
      <3>4. Done(p, "learn") = 1
        BY <1>1, <3>3 DEF Ordered, MeetingOrder, Atmost1
      <3>5. Done(p, "unmask0") = 1
        BY <1>1, <2>1, <3>2 DEF Ordered, GroupOrder, MeetingOrder, Atmost1
      <3>. QED
        BY <2>1, <3>4, <3>5 DEF Known
    <2>2. CASE ~grouped
      <3>1. Done(p, "change") = 1
        BY <1>1, <2>2
      <3>2. Done(p, "take") = 1 /\ Done(p, "wake") = 1
        BY <1>1, <2>2, <3>1 DEF Ordered, RingOrder, MeetingOrder, Atmost1
      <3>3. Done(p, "learn") = 1
        BY <1>1, <3>2 DEF Ordered, MeetingOrder, Atmost1
      <3>. QED
        BY <2>2, <3>2, <3>3 DEF Known
    <2>. QED
      BY <2>1, <2>2
  <1>3. right[p] = Right(p)
    BY <1>1, <1>2 DEF InQueueAt
  <1>4. told[p] # <<>>
    <2>1. Heard(p) >= 1 /\ Heard(p) \in Nat
      BY <1>1, <1>2, Heard1 DEF Heard
    <2>2. Heard(p) <= Len(told[p]) /\ Len(told[p]) \in Nat
      BY <1>1 DEF OnTheWayAt, TypeOK
    <2>3. Len(told[p]) >= 1
      BY <2>1, <2>2
    <2>. QED
      BY <2>3
  <1>5. left[p] = Left(p)
    BY <1>1, <1>4 DEF OnTheWayAt
  <1>. QED
    BY <1>3, <1>5

\* Three of the three others, none twice, are all of them.
LEMMA AllThree ==
  ASSUME NEW a \in Seq({2, 3, 4}), Len(a) = 3, \A j, k \in 1..3 : a[j] = a[k] => j = k
  PROVE  ToSet(a) = {2, 3, 4}
  <1>1. a[1] \in {2, 3, 4} /\ a[2] \in {2, 3, 4} /\ a[3] \in {2, 3, 4}
    OBVIOUS
  <1>2. a[1] # a[2] /\ a[1] # a[3] /\ a[2] # a[3]
    OBVIOUS
  <1>3. ToSet(a) = {a[1], a[2], a[3]}
    <2>1. ToSet(a) = {a[k] : k \in 1..3}
      BY DEF ToSet
    <2>. QED
      BY <2>1
  <1>4. {a[1], a[2], a[3]} = {2, 3, 4}
    BY <1>1, <1>2
  <1>. QED
    BY <1>3, <1>4

\* What comes first of two sequences.
LEMMA Beginning ==
  ASSUME NEW S, NEW a \in Seq(S), NEW b \in Seq(S)
  PROVE  /\ Len(a \o b) = Len(a) + Len(b)
         /\ \A k \in 1..Len(a) : (a \o b)[k] = a[k]
  OBVIOUS

LEMMA AllTold == SignalInv => GroupTold
  <1>. SUFFICES ASSUME SignalInv, Clean, grouped
                PROVE  /\ \A p \in Procs \ {1} : phase[p] = "done" => group[p] = 1
                       /\ phase[1] = "done" => ToSet(allPIDs) = Procs \ {1}
    BY DEF GroupTold
  <1>1. /\ TypeOK /\ InPlace /\ Links /\ Collected /\ 1 \in Procs
        /\ \A p \in Procs : Ordered(p) /\ InQueueAt(p)
    BY CleanState, AroundProcs DEF CleanInv
  <1>2. ASSUME NEW p \in Procs \ {1}, phase[p] = "done"
        PROVE  group[p] = 1
    <2>1. Done(p, "join") = 1
      BY <1>1, <1>2 DEF Ordered, GroupOrder
    <2>. QED
      BY <1>1, <2>1 DEF InQueueAt
  <1>3. ASSUME phase[1] = "done"
        PROVE  ToSet(allPIDs) = Procs \ {1}
    <2>1. Done(1, "collect3") = 1
      <3>1. Ordered(1) /\ Done(1, "tell4") = 1
        BY <1>1, <1>3 DEF Ordered, GroupOrder
      <3>. QED
        BY <1>1, <3>1 DEF Ordered, GroupOrder, MeetingOrder, Atmost1
    <2>2. Len(allPIDs) = 3
      BY <1>1, <2>1, Gathered
    <2>3. allPIDs \in Seq(Pids) /\ queue[1][18] \in Seq(Pids)
      BY <1>1 DEF TypeOK, MsgTypes
    <2>4. PICK b : b = queue[1][18]
      OBVIOUS
    <2>5. b \in Seq(Pids) /\ Len(b) \in Nat /\ Said = allPIDs \o b
      BY <2>3, <2>4 DEF Said
    <2>6. Len(Said) = 3 + Len(b) /\ \A k \in 1..3 : Said[k] = allPIDs[k]
      <3>1. ASSUME NEW a \in Seq(Pids)
            PROVE  /\ Len(a \o b) = Len(a) + Len(b)
                   /\ \A k \in 1..Len(a) : (a \o b)[k] = a[k]
        BY <2>5, Beginning
      <3>. QED
        BY <2>2, <2>3, <2>5, <3>1
    <2>7. \A k \in 1..3 : k \in 1..Len(Said)
      BY <2>5, <2>6
    <2>8. \A k \in 1..3 : allPIDs[k] \in {2, 3, 4}
      BY <1>1, <2>6, <2>7 DEF Collected
    <2>9. \A j, k \in 1..3 : allPIDs[j] = allPIDs[k] => j = k
      BY <1>1, <2>6, <2>7 DEF Collected
    <2>10. allPIDs \in Seq({2, 3, 4})
      <3>1. allPIDs = [k \in 1..3 |-> allPIDs[k]]
        BY <2>2, <2>3
      <3>. QED
        BY <2>8, <3>1
    <2>11. ToSet(allPIDs) = {2, 3, 4}
      BY <2>2, <2>9, <2>10, AllThree
    <2>12. Procs \ {1} = {2, 3, 4}
      BY AroundProcs
    <2>. QED
      BY <2>11, <2>12
  <1>. QED
    BY <1>2, <1>3

LEMMA NotKilled == SignalInv => (Clean => NobodyKilled)
  <1>. SUFFICES ASSUME SignalInv, Clean, NEW p \in Procs, pending[p]["USR2"] # 0
                PROVE  handler[p] = "circularHandler"
    BY DEF NobodyKilled
  <1>1. /\ TypeOK /\ InPlace /\ Begun /\ Ordered(p) /\ OnTheWayAt(p) /\ Right(p) \in Procs
        /\ Rounds \in Nat /\ Rounds >= 1
    BY CleanState, AroundProcs, RingAssumption
  <1>2. Done(Right(p), "kill2") > 0
    BY <1>1 DEF OnTheWayAt, ToLeft
  <1>3. ~grouped
    <2>1. Ordered(Right(p))
      BY <1>1, CleanState
    <2>. QED
      BY <1>1, <1>2, <2>1, GroupQuiet
  <1>4. Done(p, "kill1") = Rounds
    BY <1>1, <1>2 DEF Begun
  <1>5. Done(p, "mask1") > 0
    BY <1>1, <1>4 DEF Ordered, ForwardOrder
  <1>6. Done(p, "open1") = 1
    BY <1>1, <1>5 DEF Ordered, ForwardOrder
  <1>7. Done(p, "change") = 1
    BY <1>1, <1>3, <1>6 DEF Ordered, RingOrder, MeetingOrder, Atmost1
  <1>. QED
    BY <1>7 DEF SignalInv, PlaceInv, Masked, MaskedAt


-----------------------------------------------------------------------------
(* Signals go round the ring *)

LEMMA Modulo ==
  ASSUME NEW m \in Nat, NEW j \in {0, 1, 2, 3}
  PROVE  (4 * m + j) % 4 = j /\ (4 * m + j + 1) % 4 = (IF j = 3 THEN 0 ELSE j + 1)
  OBVIOUS

\* How many have signalled before p in a turn of the second loop: P1 begins, then P4, P3, P2.
Before(p) == IF p = 1 THEN 0 ELSE 5 - p

\* Whose turn it is, by what was sent before.
LEMMA Forth ==
  ASSUME NEW p \in Procs, NEW m \in Nat, m <= Rounds, NEW n, n = 4 * m + (p - 1)
  PROVE  /\ Ring!Turn(n) = [from |-> p, to |-> Right(p), sig |-> "USR1"]
         /\ n < 4 * (2 * Rounds + 1)
  <1>1. /\ Rounds \in Nat /\ Rounds >= 1 /\ p \in {1, 2, 3, 4} /\ p - 1 \in {0, 1, 2, 3}
    BY AroundProcs, RingAssumption
  <1>2. /\ n % 4 = p - 1 /\ (n + 1) % 4 = (IF p - 1 = 3 THEN 0 ELSE p - 1 + 1)
    BY <1>1, Modulo
  <1>3. n < 4 * (Rounds + 1) /\ n < 4 * (2 * Rounds + 1)
    BY <1>1
  <1>4. Ring!Turn(n) = [from |-> (n % 4) + 1, to |-> ((n + 1) % 4) + 1, sig |-> "USR1"]
    BY <1>3 DEF Ring!Turn
  <1>5. (n % 4) + 1 = p /\ ((n + 1) % 4) + 1 = Right(p)
    BY <1>1, <1>2, AroundProcs
  <1>. QED
    BY <1>3, <1>4, <1>5

LEMMA Back ==
  ASSUME NEW p \in Procs, NEW k \in Nat, k < Rounds, NEW n, n = 4 * (Rounds + 1) + 4 * k + Before(p)
  PROVE  /\ Ring!Turn(n) = [from |-> p, to |-> Left(p), sig |-> "USR2"]
         /\ n < 4 * (2 * Rounds + 1)
  <1>1. /\ Rounds \in Nat /\ Rounds >= 1 /\ p \in {1, 2, 3, 4} /\ Before(p) \in {0, 1, 2, 3}
    BY AroundProcs, RingAssumption DEF Before
  <1>2. n % 4 = Before(p)
    <2>1. Rounds + 1 + k \in Nat /\ n = 4 * (Rounds + 1 + k) + Before(p)
      BY <1>1
    <2>. QED
      BY <1>1, <2>1, Modulo
  <1>3. ~(n < 4 * (Rounds + 1)) /\ n < 4 * (2 * Rounds + 1)
    BY <1>1
  <1> DEFINE back == ((4 - (n % 4)) % 4) + 1
  <1>4. Ring!Turn(n) = [from |-> back, to |-> ((back + 2) % 4) + 1, sig |-> "USR2"]
    BY <1>3 DEF Ring!Turn
  <1>5. back = p
    BY <1>1, <1>2 DEF Before
  <1>6. ((p + 2) % 4) + 1 = Left(p)
    <2>1. CASE p = 1
      BY <2>1, AroundProcs
    <2>2. CASE p = 2
      BY <2>2, AroundProcs
    <2>3. CASE p = 3
      BY <2>3, AroundProcs
    <2>4. CASE p = 4
      BY <2>4, AroundProcs
    <2>. QED
      BY <1>1, <2>1, <2>2, <2>3, <2>4
  <1>. QED
    BY <1>3, <1>4, <1>5, <1>6

\* How many signals were sent, by how many of each kind each process sent.
LEMMA Total ==
  ASSUME TypeOK, InPlace, Logged
  PROVE  Len(sends) = ((Done(1, "meet") + Done(2, "meet")) + (Done(3, "meet") + Done(4, "meet")))
                      + ((Done(1, "kill1") + Done(2, "kill1")) + (Done(3, "kill1") + Done(4, "kill1")))
                      + ((Done(1, "kill2") + Done(2, "kill2")) + (Done(3, "kill2") + Done(4, "kill2")))
  <1>1. \A p \in Procs : Done(p, "meet") \in Nat /\ Done(p, "kill1") \in Nat /\ Done(p, "kill2") \in Nat
    BY DoneType DEF Calls
  <1>2. 1 \in Procs /\ 2 \in Procs /\ 3 \in Procs /\ 4 \in Procs
    BY AroundProcs
  <1> DEFINE a1 == Done(1, "meet")   b1 == Done(1, "kill1")   c1 == Done(1, "kill2")
             a2 == Done(2, "meet")   b2 == Done(2, "kill1")   c2 == Done(2, "kill2")
             a3 == Done(3, "meet")   b3 == Done(3, "kill1")   c3 == Done(3, "kill2")
             a4 == Done(4, "meet")   b4 == Done(4, "kill1")   c4 == Done(4, "kill2")
  <1>3. /\ a1 \in Nat /\ b1 \in Nat /\ c1 \in Nat /\ a2 \in Nat /\ b2 \in Nat /\ c2 \in Nat
        /\ a3 \in Nat /\ b3 \in Nat /\ c3 \in Nat /\ a4 \in Nat /\ b4 \in Nat /\ c4 \in Nat
    BY <1>1, <1>2
  <1>4. Len(sends) = ((a1 + b1) + (a2 + b2) + (a3 + b3) + (a4 + b4)) + (c1 + c2 + c3 + c4)
    BY <1>3 DEF Logged, ToRight, ToLeft
  <1>5. Len(sends) = ((a1 + a2) + (a3 + a4)) + ((b1 + b2) + (b3 + b4)) + ((c1 + c2) + (c3 + c4))
    <2>. HIDE DEF a1, a2, a3, a4, b1, b2, b3, b4, c1, c2, c3, c4
    <2>. QED
      BY <1>3, <1>4
  <1>. QED
    BY <1>5

\* Nobody is more than a turn ahead: of the neighbour that signals before it, and P1 of the last.
Spread ==
    /\ \A p \in Procs : /\ Done(p, "meet") \in {0, 1} /\ Done(p, "kill1") \in Nat /\ Done(p, "kill2") \in Nat
                        /\ Done(p, "kill1") <= Rounds /\ Done(p, "kill2") <= Rounds
    /\ Done(4, "meet") <= Done(3, "meet") /\ Done(3, "meet") <= Done(2, "meet") /\ Done(2, "meet") <= Done(1, "meet")
    /\ Done(4, "kill1") <= Done(3, "kill1") /\ Done(3, "kill1") <= Done(2, "kill1")
    /\ Done(2, "kill1") <= Done(1, "kill1") /\ Done(1, "kill1") <= Done(4, "kill1") + 1
    /\ Done(2, "kill2") <= Done(3, "kill2") /\ Done(3, "kill2") <= Done(4, "kill2")
    /\ Done(4, "kill2") <= Done(1, "kill2") /\ Done(1, "kill2") <= Done(2, "kill2") + 1

LEMMA SpreadOf ==
  ASSUME \A p \in Procs : Ordered(p), Links
  PROVE  Spread
  <1>1. 1 \in Procs /\ 2 \in Procs /\ 3 \in Procs /\ 4 \in Procs /\ Rounds \in Nat
    BY AroundProcs, RingAssumption
  <1>2. \A p \in Procs : /\ Done(p, "kill1") \in Nat /\ Done(p, "kill2") \in Nat /\ Done(p, "meet") \in {0, 1}
                         /\ Done(p, "take") \in {0, 1}
                         /\ Done(p, "unmask1") \in Nat /\ Done(p, "unmask2") \in Nat
    BY Discovery, TurnForward, TurnBack
  <1>3. \A p \in Procs : Done(p, "kill1") <= Rounds /\ Done(p, "kill2") <= Rounds
    <2>. SUFFICES ASSUME NEW p \in Procs
                  PROVE  Done(p, "kill1") <= Rounds /\ Done(p, "kill2") <= Rounds
      OBVIOUS
    <2>1. Done(p, "kill1") <= Rounds
      BY <1>1, <1>2 DEF Ordered, ForwardOrder
    <2>2. Done(p, "kill2") <= Rounds
      BY <1>1, <1>2 DEF Ordered, BackOrder
    <2>. QED
      BY <2>1, <2>2
  <1>4. /\ Done(4, "meet") <= Done(3, "meet") /\ Done(3, "meet") <= Done(2, "meet")
        /\ Done(2, "meet") <= Done(1, "meet")
    BY <1>1, <1>2, Discovery
  <1>5. /\ Done(4, "kill1") <= Done(3, "kill1") /\ Done(3, "kill1") <= Done(2, "kill1")
        /\ Done(2, "kill1") <= Done(1, "kill1") /\ Done(1, "kill1") <= Done(4, "kill1") + 1
    BY <1>1, <1>2, TurnForward
  <1>6. /\ Done(2, "kill2") <= Done(3, "kill2") /\ Done(3, "kill2") <= Done(4, "kill2")
        /\ Done(4, "kill2") <= Done(1, "kill2") /\ Done(1, "kill2") <= Done(2, "kill2") + 1
    BY <1>1, <1>2, TurnBack
  <1>. QED
    BY <1>2, <1>3, <1>4, <1>5, <1>6 DEF Spread

LEMMA SpreadAfter == (TypeOK /\ InPlace /\ Counted /\ InQueue => Spread)'
  <1>1. TypeOK /\ InPlace /\ Counted /\ InQueue => Spread
    BY Order, LinksOf, SpreadOf
  <1>. QED
    BY <1>1, PTL


\* A process sends its signal when it is its turn.
LEMMA TurnToMeet ==
  ASSUME TypeOK, InPlace, Logged, Links, Spread, \A q \in Procs : Ordered(q), NEW p \in Procs, Makes(p, "meet"), Spread'
  PROVE  Len(sends) = p - 1
  <1>1. 1 \in Procs /\ 2 \in Procs /\ 3 \in Procs /\ 4 \in Procs /\ p \in {1, 2, 3, 4} /\ "meet" \in Calls
    BY AroundProcs DEF Calls
  <1>2. \A q \in Procs : Done(q, "meet")' = IF q = p THEN Done(q, "meet") + 1 ELSE Done(q, "meet")
    BY <1>1 DEF Makes, Moves
  <1>3. /\ Done(1, "meet") \in {0, 1} /\ Done(2, "meet") \in {0, 1}
        /\ Done(3, "meet") \in {0, 1} /\ Done(4, "meet") \in {0, 1}
        /\ Done(4, "meet") <= Done(3, "meet") /\ Done(3, "meet") <= Done(2, "meet") /\ Done(2, "meet") <= Done(1, "meet")
    BY <1>1 DEF Spread
  <1>4. /\ Done(1, "meet")' \in {0, 1} /\ Done(2, "meet")' \in {0, 1}
        /\ Done(3, "meet")' \in {0, 1} /\ Done(4, "meet")' \in {0, 1}
        /\ Done(4, "meet")' <= Done(3, "meet")' /\ Done(3, "meet")' <= Done(2, "meet")' /\ Done(2, "meet")' <= Done(1, "meet")'
    BY <1>1 DEF Spread
  <1>5. Done(p, "meet") = 0
    <2>1. Done(p, "meet") \in {0, 1} /\ Done(p, "meet")' \in {0, 1} /\ Done(p, "meet")' = Done(p, "meet") + 1
      BY <1>2 DEF Spread
    <2>. QED
      BY <2>1
  <1>6. \A q \in Procs : Done(q, "kill1") = 0 /\ Done(q, "kill2") = 0
    BY <1>5, NotYet
  <1>7. (Done(1, "meet") + Done(2, "meet")) + (Done(3, "meet") + Done(4, "meet")) = p - 1
    <2>1. CASE p = 1
      BY <1>3, <1>5, <2>1
    <2>2. CASE p = 2
      <3>1. Done(1, "meet")' = Done(1, "meet") /\ Done(2, "meet")' = 1
        BY <1>1, <1>2, <1>5, <2>2
      <3>. QED
        BY <1>3, <1>4, <1>5, <2>2, <3>1
    <2>3. CASE p = 3
      <3>1. Done(1, "meet")' = Done(1, "meet") /\ Done(2, "meet")' = Done(2, "meet") /\ Done(3, "meet")' = 1
        BY <1>1, <1>2, <1>5, <2>3
      <3>. QED
        BY <1>3, <1>4, <1>5, <2>3, <3>1
    <2>4. CASE p = 4
      <3>1. /\ Done(1, "meet")' = Done(1, "meet") /\ Done(2, "meet")' = Done(2, "meet")
            /\ Done(3, "meet")' = Done(3, "meet") /\ Done(4, "meet")' = 1
        BY <1>1, <1>2, <1>5, <2>4
      <3>. QED
        BY <1>3, <1>4, <1>5, <2>4, <3>1
    <2>. QED
      BY <1>1, <2>1, <2>2, <2>3, <2>4
  <1>. QED
    BY <1>1, <1>6, <1>7, Total

LEMMA TurnToKill1 ==
  ASSUME TypeOK, InPlace, Logged, Spread, Begun, Begun', NEW p \in Procs, Makes(p, "kill1"), Spread'
  PROVE  Len(sends) = 4 * (Done(p, "kill1") + 1) + (p - 1) /\ Done(p, "kill1") < Rounds /\ Done(p, "kill1") \in Nat
  <1>1. /\ 1 \in Procs /\ 2 \in Procs /\ 3 \in Procs /\ 4 \in Procs /\ p \in {1, 2, 3, 4}
        /\ {"meet", "kill1", "kill2"} \subseteq Calls /\ Rounds \in Nat /\ Rounds >= 1
    BY AroundProcs, RingAssumption DEF Calls
  <1>2. /\ \A q \in Procs : Done(q, "kill1")' = IF q = p THEN Done(q, "kill1") + 1 ELSE Done(q, "kill1")
        /\ \A q \in Procs : Done(q, "meet")' = Done(q, "meet") /\ Done(q, "kill2")' = Done(q, "kill2")
    BY <1>1 DEF Makes, Moves
  <1>3. /\ Done(1, "kill1") \in Nat /\ Done(2, "kill1") \in Nat /\ Done(3, "kill1") \in Nat /\ Done(4, "kill1") \in Nat
        /\ Done(4, "kill1") <= Done(3, "kill1") /\ Done(3, "kill1") <= Done(2, "kill1")
        /\ Done(2, "kill1") <= Done(1, "kill1") /\ Done(1, "kill1") <= Done(4, "kill1") + 1
    BY <1>1 DEF Spread
  <1>4. /\ Done(4, "kill1")' <= Done(3, "kill1")' /\ Done(3, "kill1")' <= Done(2, "kill1")'
        /\ Done(2, "kill1")' <= Done(1, "kill1")' /\ Done(1, "kill1")' <= Done(4, "kill1")' + 1
    BY DEF Spread
  <1>5. /\ Done(p, "kill1") \in Nat /\ Done(p, "kill1")' = Done(p, "kill1") + 1 /\ Done(p, "kill1")' <= Rounds
    BY <1>2 DEF Spread
  <1>6. \A q \in Procs : Done(q, "meet") = 1
    <2>1. \A q \in Procs : Done(q, "meet")' = 1
      BY <1>5 DEF Begun
    <2>. QED
      BY <1>2, <2>1
  <1>7. \A q \in Procs : Done(q, "kill2") = 0
    <2>. SUFFICES ASSUME NEW q \in Procs, Done(q, "kill2") # 0
                  PROVE  FALSE
      OBVIOUS
    <2>1. Done(q, "kill2") > 0
      BY DEF Spread
    <2>2. Done(p, "kill1") = Rounds
      BY <2>1 DEF Begun
    <2>. QED
      BY <1>1, <1>5, <2>2
  <1>8. (Done(1, "kill1") + Done(2, "kill1")) + (Done(3, "kill1") + Done(4, "kill1")) = 4 * Done(p, "kill1") + (p - 1)
    <2>1. CASE p = 1
      <3>1. Done(1, "kill1")' = Done(1, "kill1") + 1 /\ Done(4, "kill1")' = Done(4, "kill1")
        BY <1>1, <1>2, <2>1
      <3>2. Done(2, "kill1") = Done(1, "kill1") /\ Done(3, "kill1") = Done(1, "kill1") /\ Done(4, "kill1") = Done(1, "kill1")
        BY <1>3, <1>4, <3>1
      <3>. QED
        BY <1>3, <2>1, <3>2
    <2>2. CASE p = 2
      <3>1. Done(1, "kill1")' = Done(1, "kill1") /\ Done(2, "kill1")' = Done(2, "kill1") + 1
        BY <1>1, <1>2, <2>2
      <3>2. Done(1, "kill1") = Done(2, "kill1") + 1 /\ Done(3, "kill1") = Done(2, "kill1") /\ Done(4, "kill1") = Done(2, "kill1")
        BY <1>3, <1>4, <3>1
      <3>. QED
        BY <1>3, <2>2, <3>2
    <2>3. CASE p = 3
      <3>1. Done(2, "kill1")' = Done(2, "kill1") /\ Done(3, "kill1")' = Done(3, "kill1") + 1
        BY <1>1, <1>2, <2>3
      <3>2. /\ Done(1, "kill1") = Done(3, "kill1") + 1 /\ Done(2, "kill1") = Done(3, "kill1") + 1
            /\ Done(4, "kill1") = Done(3, "kill1")
        BY <1>3, <1>4, <3>1
      <3>. QED
        BY <1>3, <2>3, <3>2
    <2>4. CASE p = 4
      <3>1. Done(3, "kill1")' = Done(3, "kill1") /\ Done(4, "kill1")' = Done(4, "kill1") + 1
        BY <1>1, <1>2, <2>4
      <3>2. /\ Done(1, "kill1") = Done(4, "kill1") + 1 /\ Done(2, "kill1") = Done(4, "kill1") + 1
            /\ Done(3, "kill1") = Done(4, "kill1") + 1
        BY <1>3, <1>4, <3>1
      <3>. QED
        BY <1>3, <2>4, <3>2
    <2>. QED
      BY <1>1, <2>1, <2>2, <2>3, <2>4
  <1>9. Len(sends) = 4 + ((Done(1, "kill1") + Done(2, "kill1")) + (Done(3, "kill1") + Done(4, "kill1")))
    BY <1>1, <1>3, <1>6, <1>7, Total
  <1>. QED
    BY <1>1, <1>5, <1>8, <1>9

LEMMA TurnToKill2 ==
  ASSUME TypeOK, InPlace, Logged, Spread, Begun', NEW p \in Procs, Makes(p, "kill2"), Spread'
  PROVE  /\ Len(sends) = 4 * (Rounds + 1) + 4 * Done(p, "kill2") + Before(p)
         /\ Done(p, "kill2") < Rounds /\ Done(p, "kill2") \in Nat
  <1>1. /\ 1 \in Procs /\ 2 \in Procs /\ 3 \in Procs /\ 4 \in Procs /\ p \in {1, 2, 3, 4}
        /\ {"meet", "kill1", "kill2"} \subseteq Calls /\ Rounds \in Nat /\ Rounds >= 1
    BY AroundProcs, RingAssumption DEF Calls
  <1>2. /\ \A q \in Procs : Done(q, "kill2")' = IF q = p THEN Done(q, "kill2") + 1 ELSE Done(q, "kill2")
        /\ \A q \in Procs : Done(q, "meet")' = Done(q, "meet") /\ Done(q, "kill1")' = Done(q, "kill1")
    BY <1>1 DEF Makes, Moves
  <1>3. /\ Done(1, "kill2") \in Nat /\ Done(2, "kill2") \in Nat /\ Done(3, "kill2") \in Nat /\ Done(4, "kill2") \in Nat
        /\ Done(2, "kill2") <= Done(3, "kill2") /\ Done(3, "kill2") <= Done(4, "kill2")
        /\ Done(4, "kill2") <= Done(1, "kill2") /\ Done(1, "kill2") <= Done(2, "kill2") + 1
    BY <1>1 DEF Spread
  <1>4. /\ Done(2, "kill2")' <= Done(3, "kill2")' /\ Done(3, "kill2")' <= Done(4, "kill2")'
        /\ Done(4, "kill2")' <= Done(1, "kill2")' /\ Done(1, "kill2")' <= Done(2, "kill2")' + 1
    BY DEF Spread
  <1>5. /\ Done(p, "kill2") \in Nat /\ Done(p, "kill2")' = Done(p, "kill2") + 1 /\ Done(p, "kill2")' <= Rounds
    BY <1>2 DEF Spread
  <1>6. \A q \in Procs : Done(q, "kill1") = Rounds
    <2>1. \A q \in Procs : Done(q, "kill1")' = Rounds
      BY <1>5 DEF Begun
    <2>. QED
      BY <1>2, <2>1
  <1>7. \A q \in Procs : Done(q, "meet") = 1
    <2>1. \A q \in Procs : Done(q, "meet")' = 1
      <3>1. Done(p, "kill1")' = Rounds
        BY <1>2, <1>6
      <3>. QED
        BY <1>1, <3>1 DEF Begun
    <2>. QED
      BY <1>2, <2>1
  <1>8. (Done(1, "kill2") + Done(2, "kill2")) + (Done(3, "kill2") + Done(4, "kill2")) = 4 * Done(p, "kill2") + Before(p)
    <2>1. CASE p = 1
      <3>1. Done(1, "kill2")' = Done(1, "kill2") + 1 /\ Done(2, "kill2")' = Done(2, "kill2")
        BY <1>1, <1>2, <2>1
      <3>2. Done(2, "kill2") = Done(1, "kill2") /\ Done(3, "kill2") = Done(1, "kill2") /\ Done(4, "kill2") = Done(1, "kill2")
        BY <1>3, <1>4, <3>1
      <3>. QED
        BY <1>3, <2>1, <3>2 DEF Before
    <2>2. CASE p = 2
      <3>1. Done(3, "kill2")' = Done(3, "kill2") /\ Done(2, "kill2")' = Done(2, "kill2") + 1
        BY <1>1, <1>2, <2>2
      <3>2. /\ Done(1, "kill2") = Done(2, "kill2") + 1 /\ Done(3, "kill2") = Done(2, "kill2") + 1
            /\ Done(4, "kill2") = Done(2, "kill2") + 1
        BY <1>3, <1>4, <3>1
      <3>. QED
        BY <1>3, <2>2, <3>2 DEF Before
    <2>3. CASE p = 3
      <3>1. Done(4, "kill2")' = Done(4, "kill2") /\ Done(3, "kill2")' = Done(3, "kill2") + 1
        BY <1>1, <1>2, <2>3
      <3>2. /\ Done(1, "kill2") = Done(3, "kill2") + 1 /\ Done(4, "kill2") = Done(3, "kill2") + 1
            /\ Done(2, "kill2") = Done(3, "kill2")
        BY <1>3, <1>4, <3>1
      <3>. QED
        BY <1>3, <2>3, <3>2 DEF Before
    <2>4. CASE p = 4
      <3>1. Done(1, "kill2")' = Done(1, "kill2") /\ Done(4, "kill2")' = Done(4, "kill2") + 1
        BY <1>1, <1>2, <2>4
      <3>2. /\ Done(1, "kill2") = Done(4, "kill2") + 1 /\ Done(2, "kill2") = Done(4, "kill2")
            /\ Done(3, "kill2") = Done(4, "kill2")
        BY <1>3, <1>4, <3>1
      <3>. QED
        BY <1>3, <2>4, <3>2 DEF Before
    <2>. QED
      BY <1>1, <2>1, <2>2, <2>3, <2>4
  <1>9. Len(sends) = 4 + 4 * Rounds + ((Done(1, "kill2") + Done(2, "kill2")) + (Done(3, "kill2") + Done(4, "kill2")))
    BY <1>1, <1>3, <1>6, <1>7, Total
  <1>10. Before(p) \in Nat
    BY <1>1 DEF Before
  <1>. QED
    BY <1>1, <1>5, <1>8, <1>9, <1>10


\* By the time the first signal is sent P2 has cleaned up: P1 has its pid from the new queue.
LEMMA CleanedBefore ==
  ASSUME SignalInv, Clean, sends # <<>>
  PROVE  unlinked = Names /\ current = 1
  <1>1. /\ TypeOK /\ InPlace /\ CleanInv /\ Logged /\ Links /\ CleanedUp /\ Spread
        /\ \A q \in Procs : Ordered(q)
    <2>1. TypeOK /\ InPlace /\ CleanInv /\ Links /\ \A q \in Procs : Ordered(q)
      BY CleanState
    <2>. QED
      BY <2>1, SpreadOf DEF CleanInv, SignalInv, PlaceInv
  <1>2. 1 \in Procs /\ 2 \in Procs /\ 3 \in Procs /\ 4 \in Procs /\ Right(1) = 2
    BY AroundProcs
  <1>3. Done(1, "meet") = 1
    <2>. SUFFICES ASSUME Done(1, "meet") # 1
                  PROVE  FALSE
      OBVIOUS
    <2>1. Done(1, "meet") = 0
      BY <1>1, <1>2 DEF Spread
    <2>2. \A q \in Procs : Done(q, "kill1") = 0 /\ Done(q, "kill2") = 0
      BY <1>1, <1>2, <2>1, NotYet
    <2>3. Done(2, "meet") = 0 /\ Done(3, "meet") = 0 /\ Done(4, "meet") = 0
      <3>1. Done(2, "meet") \in {0, 1} /\ Done(3, "meet") \in {0, 1} /\ Done(4, "meet") \in {0, 1}
        BY <1>1, <1>2 DEF Spread
      <3>. QED
        BY <1>1, <2>1, <3>1 DEF Spread
    <2>4. Len(sends) = 0
      BY <1>1, <1>2, <2>1, <2>2, <2>3, Total
    <2>5. sends \in Seq([from : Procs, to : Pids, sig : Signals])
      BY <1>1 DEF TypeOK
    <2>. QED
      BY <2>4, <2>5
  <1>4. Done(1, "learn") = 1
    BY <1>1, <1>2, <1>3 DEF Ordered, MeetingOrder, Atmost1
  <1>5. Done(2, "introduce") = 1
    <2>1. Announced(1) = Done(2, "introduce")
      BY <1>2 DEF Announced
    <2>2. Done(1, "learn") <= Announced(1)
      BY <1>1, <1>2 DEF Links
    <2>. QED
      BY <1>1, <1>2, <1>4, <2>1, <2>2 DEF Ordered, MeetingOrder, Atmost1
  <1>6. Done(2, "remove") = 1 /\ Done(2, "unlink") = 1
    BY <1>1, <1>2, <1>5 DEF Ordered, MeetingOrder, Atmost1
  <1>. QED
    BY <1>1, <1>6 DEF CleanedUp

\* After that nobody opens anything old.
LEMMA StaysClean ==
  ASSUME TypeOK, InPlace, [Next]_vars, unlinked = Names, current = 1
  PROVE  stale' = stale
  <1>1. ASSUME NEW p \in Procs, Launch(p)
        PROVE  stale' = stale
    BY <1>1 DEF Launch
  <1>2. ASSUME NEW p \in Procs, Step(p)
        PROVE  stale' = stale
    <2>1. CASE SemOpen(p)
      <3>1. Running(p) /\ At(p, "open")
        BY <2>1 DEF SemOpen, Does, At
      <3>2. PICK c \in Calls : AtCall(p, c) /\ Now(p) = Meaning(p, c)
        BY <3>1, Named
      <3>3. c \in {"open", "open1", "open2"}
        <4>1. Meaning(p, c).op = "open"
          BY <3>1, <3>2 DEF At
        <4>. QED
          BY <4>1, OpOf DEF Calls
      <3>4. PICK j \in 0..2 : Now(p) = Open(p, j)
        BY <3>2, <3>3, Meanings
      <3>5. Now(p).sems \subseteq Names
        <4>1. Now(p).sems = Neighbours(p) \X {j}
          BY <3>4 DEF Open
        <4>2. Neighbours(p) \subseteq Procs
          BY AroundProcs DEF Neighbours, Left, Right
        <4>. QED
          BY <4>1, <4>2 DEF Names
      <3>. QED
        BY <2>1, <3>5 DEF SemOpen
    <2>2. CASE MsgGet(p)
      BY <2>2 DEF MsgGet
    <2>3. CASE ~SemOpen(p) /\ ~MsgGet(p)
      BY <1>2, <2>3 DEF Step, SemUnlink, SemPost, SemWait, RemoveQueue, MsgSnd, MsgRcv, MsgRcvFails, SendSignal,
         ChangeHandler, MaskSignal, UnmaskSignal
    <2>. QED
      BY <2>1, <2>2, <2>3
  <1>3. ASSUME NEW p \in Procs, Interrupt(p)
        PROVE  stale' = stale
    BY <1>3 DEF Interrupt, Deliver
  <1>4. CASE UNCHANGED vars
    BY <1>4 DEF vars
  <1>. QED
    BY <1>1, <1>2, <1>3, <1>4 DEF Next

\* A signal is sent by the process whose turn it is, to the neighbour whose turn comes next.
LEMMA InItsTurn ==
  ASSUME SignalInv, Clean, SignalInv', Clean', NEW p \in Procs, NEW c \in {"meet", "kill1", "kill2"}, Makes(p, c),
         SendSignal(p)
  PROVE  Len(sends) < 4 * (2 * Rounds + 1) /\ sends' = Append(sends, Ring!Turn(Len(sends)))
  <1>1. /\ PlaceInv /\ TypeOK /\ InPlace /\ CleanInv /\ Logged /\ InQueue /\ OnTheWayAt(p) /\ Links /\ Begun
        /\ \A q \in Procs : Ordered(q)
    <2>1. TypeOK /\ InPlace /\ CleanInv /\ Links /\ Begun /\ OnTheWayAt(p) /\ \A q \in Procs : Ordered(q)
      BY CleanState
    <2>. QED
      BY <2>1 DEF CleanInv, SignalInv
  <1>2. Spread /\ Spread' /\ Begun'
    <2>1. Spread
      BY <1>1, SpreadOf
    <2>2. TypeOK' /\ InPlace' /\ Counted' /\ InQueue'
      BY DEF SignalInv, PlaceInv, CleanInv
    <2>. QED
      BY <2>1, <2>2, SpreadAfter, ChainAfter
  <1>3. sends' = Append(sends, [from |-> p, to |-> Aim(p, c), sig |-> With(c)])
    BY <1>1, Aiming
  <1>4. Rounds \in Nat /\ Rounds >= 1
    BY RingAssumption
  <1>5. CASE c = "meet"
    <2>1. Len(sends) = 4 * 0 + (p - 1)
      <3>1. Len(sends) = p - 1 /\ p - 1 = 4 * 0 + (p - 1)
        BY <1>1, <1>2, <1>5, TurnToMeet DEF Procs
      <3>. QED
        BY <3>1
    <2>2. /\ Ring!Turn(Len(sends)) = [from |-> p, to |-> Right(p), sig |-> "USR1"]
          /\ Len(sends) < 4 * (2 * Rounds + 1)
      <3>1. 0 \in Nat /\ 0 <= Rounds
        BY <1>4
      <3>. QED
        BY <2>1, <3>1, Forth
    <2>3. Aim(p, c) = Right(p) /\ With(c) = "USR1"
      BY <1>5 DEF Aim, With
    <2>. QED
      BY <1>3, <2>2, <2>3
  <1>6. CASE c = "kill1"
    <2>1. /\ Len(sends) = 4 * (Done(p, "kill1") + 1) + (p - 1) /\ Done(p, "kill1") < Rounds
          /\ Done(p, "kill1") \in Nat
      BY <1>1, <1>2, <1>6, TurnToKill1
    <2>2. PICK m \in Nat : m = Done(p, "kill1") + 1
      BY <2>1
    <2>3. m <= Rounds /\ Len(sends) = 4 * m + (p - 1)
      BY <1>4, <2>1, <2>2
    <2>4. /\ Ring!Turn(Len(sends)) = [from |-> p, to |-> Right(p), sig |-> "USR1"]
          /\ Len(sends) < 4 * (2 * Rounds + 1)
      BY <2>3, Forth
    <2>5. Aim(p, c) = Right(p) /\ With(c) = "USR1"
      BY <1>6 DEF Aim, With
    <2>. QED
      BY <1>3, <2>4, <2>5
  <1>7. CASE c = "kill2"
    <2>1. /\ Len(sends) = 4 * (Rounds + 1) + 4 * Done(p, "kill2") + Before(p) /\ Done(p, "kill2") < Rounds
          /\ Done(p, "kill2") \in Nat
      BY <1>1, <1>2, <1>7, TurnToKill2
    <2>2. /\ Ring!Turn(Len(sends)) = [from |-> p, to |-> Left(p), sig |-> "USR2"]
          /\ Len(sends) < 4 * (2 * Rounds + 1)
      BY <2>1, Back
    <2>3. Aim(p, c) = Left(p) /\ With(c) = "USR2"
      BY <1>7 DEF Aim, With
    <2>. QED
      BY <1>3, <2>2, <2>3
  <1>. QED
    BY <1>5, <1>6, <1>7

\* Every step is a step of the round, or leaves it as it is.
LEMMA RoundStep ==
  ASSUME SignalInv, SignalInv', [Next]_vars
  PROVE  [Ring!Next]_(IF Clean THEN sends ELSE <<>>)
  <1>1. TypeOK /\ InPlace
    BY DEF SignalInv, PlaceInv
  <1>2. CASE ~Clean
    <2>1. ~Clean'
      BY <1>2, StaleGrows DEF Clean
    <2>. QED
      BY <1>2, <2>1
  <1>3. CASE Clean /\ ~Clean'
    <2>1. sends = <<>>
      BY <1>1, <1>3, CleanedBefore, StaysClean DEF Clean
    <2>. QED
      BY <1>3, <2>1
  <1>4. CASE Clean /\ Clean'
    <2>1. CASE sends' = sends
      BY <1>4, <2>1
    <2>2. CASE sends' # sends
      <3>1. PICK p \in Procs : Step(p) /\ SendSignal(p)
        <4>1. PICK p \in Procs : Launch(p) \/ Step(p) \/ Interrupt(p)
          BY <2>2 DEF Next, vars
        <4>2. Step(p)
          BY <2>2, <4>1 DEF Launch, Interrupt, Deliver
        <4>3. SendSignal(p)
          BY <2>2, <4>2 DEF Step, SemOpen, SemUnlink, SemPost, SemWait, RemoveQueue, MsgGet, MsgSnd, MsgRcv, MsgRcvFails,
             ChangeHandler, MaskSignal, UnmaskSignal
        <4>. QED
          BY <4>2, <4>3
      <3>2. /\ TypeOK' /\ InPlace' /\ Running(p) /\ UNCHANGED programs
        BY <1>1, <3>1, StepCall, StepType
      <3>3. PICK c \in Calls : AtCall(p, c) /\ Moves(p, c)
        BY <1>1, <3>1, StepCall
      <3>4. c \in {"meet", "kill1", "kill2"}
        <4>1. Meaning(p, c).op = "kill"
          BY <1>1, <3>1, <3>3, OnlyCall DEF SendSignal, Does
        <4>. QED
          BY <4>1, OpOf DEF Calls
      <3>5. Len(sends) < 4 * (2 * Rounds + 1) /\ sends' = Append(sends, Ring!Turn(Len(sends)))
        BY <1>4, <3>1, <3>2, <3>3, <3>4, InItsTurn DEF Makes
      <3>6. Ring!Next
        BY <1>4, <3>5 DEF Ring!Next, Ring!Length
      <3>. QED
        BY <3>6
    <2>. QED
      BY <2>1, <2>2
  <1>. QED
    BY <1>2, <1>3, <1>4


-----------------------------------------------------------------------------
(* What the rings promise *)

\* After a clean start every signal that was sent has been handled or is pending, none is
\* lost to another of its kind, for any number of turns (unmaskSignal before sem_post,
\* P2.c 187-191).
THEOREM EverySignalHandled == Prompt => (Spec => []NoSignalLost)
  <1>. SUFFICES ASSUME Prompt
                PROVE  Spec => []NoSignalLost
    OBVIOUS
  <1>1. Spec => []SignalInv
    BY SignalInvariant
  <1>. QED
    BY <1>1, NotLost, PTL

\* After a clean start the handlers print an introduction, then Rounds times the left
\* neighbour, then Rounds times the right one, and all of it before the process ends
\* (initHandler and circularHandler, P2.c 37-64).
THEOREM EverySignalInTurn == Prompt => (Spec => []HeardInTurn)
  <1>. SUFFICES ASSUME Prompt
                PROVE  Spec => []HeardInTurn
    OBVIOUS
  <1>1. Spec => []SignalInv
    BY SignalInvariant
  <1>. QED
    BY <1>1, InTurn, PTL

\* After a clean start a process that installs circularHandler knows both its neighbours,
\* though the signal may have ended its wait (getLeftFunc, P2.c 84-87).
THEOREM NeighboursFound == Prompt => (Spec => []LeftKnown)
  <1>. SUFFICES ASSUME Prompt
                PROVE  Spec => []LeftKnown
    OBVIOUS
  <1>1. Spec => []SignalInv
    BY SignalInvariant
  <1>. QED
    BY <1>1, NeighboursKnown, PTL

\* After a clean start P2 to P4 of the group end with the pid of P1 and P1 with those of the
\* three, though introductions and group ids have the same types (main of
\* group-signaling P1.c to P4.c).
THEOREM GroupAgreed == Prompt => (Spec => []GroupTold)
  <1>. SUFFICES ASSUME Prompt
                PROVE  Spec => []GroupTold
    OBVIOUS
  <1>1. Spec => []SignalInv
    BY SignalInvariant
  <1>. QED
    BY <1>1, AllTold, PTL

\* After a clean start SIGUSR2 finds a handler, for any number of turns (changeHandler,
\* P3.c 117-121).
THEOREM CleanStartKillsNobody == Prompt => (Spec => [](Clean => NobodyKilled))
  <1>. SUFFICES ASSUME Prompt
                PROVE  Spec => [](Clean => NobodyKilled)
    OBVIOUS
  <1>1. Spec => []SignalInv
    BY SignalInvariant
  <1>. QED
    BY <1>1, NotKilled, PTL

\* After a clean start signals go round the ring one at a time: the four programs implement
\* the round robin.
THEOREM RoundsImplemented == Prompt => (Spec => ImplementsRoundRobin)
  <1>. SUFFICES ASSUME Prompt
                PROVE  Spec => ImplementsRoundRobin
    OBVIOUS
  <1>1. Init => Ring!Init
    BY DEF Init, Ring!Init
  <1>2. SignalInv /\ SignalInv' /\ [Next]_vars => [Ring!Next]_(IF Clean THEN sends ELSE <<>>)
    BY RoundStep
  <1>3. Spec => []SignalInv
    BY SignalInvariant
  <1>. QED
    BY <1>1, <1>2, <1>3, PTL DEF Spec, ImplementsRoundRobin, Ring!Spec


=============================================================================
