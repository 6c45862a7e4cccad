------------------------ MODULE SemaphoreRingProofs -------------------------
(***************************************************************************)
(* The ring of semaphores has one turn and hands it on in order, for every  *)
(* number of processes.  The inductive invariant says where the turn is and *)
(* how far each process is ahead of the next, for both places it can be in. *)
(***************************************************************************)
EXTENDS SemaphoreRing, TLAPS

Opened(i) == at[i] \in {"post", "wait"}

\* Nobody holds a semaphore of an earlier run.
AllNew ==
    \A i \in Ring :
        /\ at[i] = "forward" => backwardSem[i] = 1
        /\ Opened(i) => backwardSem[i] = 1 /\ forwardSem[i] = 1

\* Nothing has happened before P1 has opened its semaphores.
NotBegun ==
    ~Opened(1) => \A i \in Ring : ~HasTurn(i) /\ semaphore[i][1] = 0 /\ posts[i] = 0

\* The parts of OneTurn.
OneHolder == \A i, j \in Ring : HasTurn(i) /\ HasTurn(j) => i = j
NotInBoth == \A i, n \in Ring : ~(HasTurn(i) /\ InSemaphore(n))
OneSemaphore == \A m, n \in Ring : InSemaphore(m) /\ InSemaphore(n) => m = n
Binary == \A n \in Ring : semaphore[n][1] <= 1
NotLost == Opened(1) => \E i \in Ring : HasTurn(i) \/ InSemaphore(i)

\* Those before the turn have posted once more than those behind it.
OrderAtHolder ==
    \A i \in Ring : HasTurn(i) =>
        \A j, k \in Ring :
            j < k => posts[j] = IF j < i /\ i <= k THEN posts[k] + 1 ELSE posts[k]

OrderAtSemaphore ==
    \A n \in Ring : InSemaphore(n) =>
        \A j, k \in Ring :
            j < k => posts[j] = IF j <= n /\ n < k THEN posts[k] + 1 ELSE posts[k]

WhenClean ==
    /\ AllNew /\ NotBegun
    /\ OneHolder /\ NotInBoth /\ OneSemaphore /\ Binary /\ NotLost
    /\ OrderAtHolder /\ OrderAtSemaphore

RingInv == SemaphoreTypeOK /\ (outdated = {} => WhenClean)

-----------------------------------------------------------------------------
\* The process before another one is another one.
LEMMA Neighbour ==
    ASSUME NEW i \in Ring
    PROVE  /\ getPreviousProcess(i) \in Ring /\ getPreviousProcess(i) # i
           /\ i # 1 => getPreviousProcess(i) = i - 1
           /\ i = 1 => getPreviousProcess(i) = N
BY SemaphoreAssumption DEF getPreviousProcess, Ring

\* Values keep their types (all of init_code and main).
LEMMA SemaphoreTypes ==
    ASSUME SemaphoreTypeOK, [SemaphoreNext]_semaphoreVars PROVE SemaphoreTypeOK'
<1> USE SemaphoreAssumption DEF SemaphoreTypeOK, Ring, Generations
<1>1. CASE Unlinks BY <1>1 DEF Unlinks
<1>2. ASSUME NEW i \in Ring, Starts(i) PROVE SemaphoreTypeOK' BY <1>2 DEF Starts
<1>3. ASSUME NEW i \in Ring, OpensBackward(i) PROVE SemaphoreTypeOK'
      BY <1>3 DEF OpensBackward, Current, OutdatedBy
<1>4. ASSUME NEW i \in Ring, OpensForward(i) PROVE SemaphoreTypeOK'
      BY <1>4 DEF OpensForward, Current, OutdatedBy
<1>5. ASSUME NEW i \in Ring, Posts(i) PROVE SemaphoreTypeOK'
  <2>1. forwardSem[i] \in Generations /\ semaphore[i][forwardSem[i]] + 1 \in Nat OBVIOUS
  <2>2. semaphore' \in [Ring -> [Generations -> Nat]] BY <1>5, <2>1 DEF Posts
  <2>3. posts[i] + 1 \in 0..MaxTurns BY <1>5 DEF Posts
  <2>4. posts' \in [Ring -> 0..MaxTurns] BY <1>5, <2>3 DEF Posts
  <2> QED BY <1>5, <2>2, <2>4 DEF Posts
<1>6. ASSUME NEW i \in Ring, Waits(i) PROVE SemaphoreTypeOK'
  <2> DEFINE n == getPreviousProcess(i)
  <2>1. n \in Ring BY Neighbour
  <2> HIDE DEF n
  <2>2. /\ semaphore[n][backwardSem[i]] > 0
        /\ semaphore' = [semaphore EXCEPT ![n][backwardSem[i]] = @ - 1]
        BY <1>6 DEF Waits, n
  <2>3. backwardSem[i] \in Generations /\ semaphore[n][backwardSem[i]] - 1 \in Nat
    <3>1. backwardSem[i] \in Generations OBVIOUS
    <3>2. semaphore[n][backwardSem[i]] \in Nat BY <2>1, <3>1
    <3>3. PICK v \in Nat : v = semaphore[n][backwardSem[i]] BY <3>2
    <3>4. v > 0 BY ONLY <2>2, <3>3
    <3>5. v - 1 \in Nat BY ONLY <3>3, <3>4
    <3> QED BY ONLY <3>1, <3>3, <3>5
  <2>4. semaphore' \in [Ring -> [Generations -> Nat]] BY <2>1, <2>2, <2>3
  <2> QED BY <1>6, <2>4 DEF Waits
<1>7. CASE UNCHANGED semaphoreVars BY <1>7 DEF semaphoreVars
<1> QED BY <1>1, <1>2, <1>3, <1>4, <1>5, <1>6, <1>7 DEF SemaphoreNext

\* What a post does: the turn goes from the process into its own semaphore.
LEMMA PostsKeeps ==
    ASSUME RingInv, outdated = {}, NEW i \in Ring, Posts(i), SemaphoreTypeOK'
    PROVE  WhenClean'
<1> USE SemaphoreAssumption DEF Ring
<1>1. WhenClean BY DEF RingInv
<1>2. HasTurn(i) /\ forwardSem[i] = 1
      BY <1>1 DEF WhenClean, AllNew, Posts, HasTurn, Opened
<1>3. \A n \in Ring : semaphore[n][1] = 0
  <2>1. \A n \in Ring : ~InSemaphore(n) BY <1>1, <1>2 DEF WhenClean, NotInBoth
  <2>2. \A n \in Ring : semaphore[n][1] \in Nat BY DEF RingInv, SemaphoreTypeOK, Generations
  <2> QED BY <2>1, <2>2 DEF InSemaphore
<1>4. /\ semaphore' = [semaphore EXCEPT ![i][1] = @ + 1]
      /\ at' = [at EXCEPT ![i] = "wait"] /\ posts' = [posts EXCEPT ![i] = @ + 1]
      /\ UNCHANGED <<backwardSem, forwardSem>>
      BY <1>2 DEF Posts
<1>5. \A n \in Ring : semaphore'[n][1] = IF n = i THEN 1 ELSE 0
      BY <1>3, <1>4 DEF RingInv, SemaphoreTypeOK, Generations
<1>6. \A j \in Ring : ~HasTurn(j)'
      BY <1>1, <1>2, <1>4 DEF WhenClean, OneHolder, HasTurn, RingInv, SemaphoreTypeOK
<1>7. \A j \in Ring : Opened(j)' <=> Opened(j)
      BY <1>2, <1>4 DEF Opened, HasTurn, RingInv, SemaphoreTypeOK
<1>8. AllNew'
  <2>1. \A j \in Ring : at'[j] = "forward" => at[j] = "forward"
        BY <1>4 DEF RingInv, SemaphoreTypeOK
  <2> QED BY <1>1, <1>4, <1>7, <2>1 DEF WhenClean, AllNew
<1>9. Opened(1)
      BY <1>1, <1>2 DEF WhenClean, NotBegun
<1>10. NotBegun' BY <1>7, <1>9 DEF NotBegun
<1>11. OneHolder' /\ NotInBoth' /\ OrderAtHolder'
       BY <1>6 DEF OneHolder, NotInBoth, OrderAtHolder
<1>12. OneSemaphore' /\ Binary' /\ NotLost'
       BY <1>5 DEF OneSemaphore, Binary, NotLost, InSemaphore
<1>13. OrderAtSemaphore'
  <2> SUFFICES ASSUME NEW j \in Ring, NEW k \in Ring, j < k
               PROVE  posts'[j] = IF j <= i /\ i < k THEN posts'[k] + 1 ELSE posts'[k]
      BY <1>5 DEF OrderAtSemaphore, InSemaphore
  <2>1. posts[j] = IF j < i /\ i <= k THEN posts[k] + 1 ELSE posts[k]
        BY <1>1, <1>2 DEF WhenClean, OrderAtHolder
  <2>2. posts \in [Ring -> 0..MaxTurns] BY DEF RingInv, SemaphoreTypeOK
  <2>3. posts[j] \in Nat /\ posts[k] \in Nat BY <2>2
  <2>4. /\ posts'[j] = IF j = i THEN posts[j] + 1 ELSE posts[j]
        /\ posts'[k] = IF k = i THEN posts[k] + 1 ELSE posts[k]
        BY <1>4, <2>2
  <2>5. i \in Nat /\ j \in Nat /\ k \in Nat OBVIOUS
  <2> QED BY <2>1, <2>3, <2>4, <2>5
<1> QED BY <1>8, <1>10, <1>11, <1>12, <1>13 DEF WhenClean

\* What a wait does: the turn goes from the semaphore before to the process.
LEMMA WaitsKeeps ==
    ASSUME RingInv, outdated = {}, NEW i \in Ring, Waits(i), SemaphoreTypeOK'
    PROVE  WhenClean'
<1> USE SemaphoreAssumption DEF Ring
<1> DEFINE p == getPreviousProcess(i)
<1>0. p \in Ring /\ p # i /\ (i # 1 => p = i - 1) /\ (i = 1 => p = N) BY Neighbour
<1> HIDE DEF p
<1>1. WhenClean BY DEF RingInv
<1>2. /\ at[i] = "wait" /\ backwardSem[i] = 1 /\ semaphore[p][1] > 0
      /\ semaphore' = [semaphore EXCEPT ![p][1] = @ - 1]
      /\ at' = [at EXCEPT ![i] = "post"] /\ UNCHANGED <<backwardSem, forwardSem, posts>>
      BY <1>1 DEF WhenClean, AllNew, Opened, Waits, p
<1>3. \A n \in Ring : semaphore[n][1] = IF n = p THEN 1 ELSE 0
  <2>1. \A n \in Ring : semaphore[n][1] \in Nat BY DEF RingInv, SemaphoreTypeOK, Generations
  <2>2. semaphore[p][1] = 1 BY <1>0, <1>1, <1>2, <2>1 DEF WhenClean, Binary
  <2>3. \A n \in Ring : n # p => ~InSemaphore(n)
        BY <1>0, <1>1, <1>2 DEF WhenClean, OneSemaphore, InSemaphore
  <2> QED BY <2>1, <2>2, <2>3 DEF InSemaphore
<1>4. \A n \in Ring : semaphore'[n][1] = 0
      BY <1>0, <1>2, <1>3 DEF RingInv, SemaphoreTypeOK, Generations
<1>5. \A j \in Ring : HasTurn(j)' <=> j = i
  <2>1. \A j \in Ring : ~HasTurn(j)
        BY <1>0, <1>1, <1>2 DEF WhenClean, NotInBoth, InSemaphore
  <2> QED BY <1>2, <2>1 DEF HasTurn, RingInv, SemaphoreTypeOK
<1>6. \A j \in Ring : Opened(j)' <=> Opened(j)
      BY <1>2 DEF Opened, RingInv, SemaphoreTypeOK
<1>7. AllNew'
  <2>1. \A j \in Ring : at'[j] = "forward" => at[j] = "forward"
        BY <1>2 DEF RingInv, SemaphoreTypeOK
  <2> QED BY <1>1, <1>2, <1>6, <2>1 DEF WhenClean, AllNew
<1>8. Opened(1) BY <1>0, <1>1, <1>2 DEF WhenClean, NotBegun
<1>9. NotBegun' BY <1>6, <1>8 DEF NotBegun
<1>10. OneHolder' /\ NotLost' BY <1>5 DEF OneHolder, NotLost
<1>11. NotInBoth' /\ OneSemaphore' /\ Binary' /\ OrderAtSemaphore'
       BY <1>4 DEF NotInBoth, OneSemaphore, Binary, OrderAtSemaphore, InSemaphore
<1>12. OrderAtHolder'
  <2> SUFFICES ASSUME NEW j \in Ring, NEW k \in Ring, j < k
               PROVE  posts'[j] = IF j < i /\ i <= k THEN posts'[k] + 1 ELSE posts'[k]
      BY <1>5 DEF OrderAtHolder
  <2>1. posts[j] = IF j <= p /\ p < k THEN posts[k] + 1 ELSE posts[k]
        BY <1>0, <1>1, <1>2 DEF WhenClean, OrderAtSemaphore, InSemaphore
  <2> QED BY <1>0, <1>2, <2>1
<1> QED BY <1>7, <1>9, <1>10, <1>11, <1>12 DEF WhenClean

\* Starting, removing names and opening change nothing about the turn, except
\* that P1 gets it when it opens its second semaphore.
LEMMA PreparationKeeps ==
    ASSUME RingInv, outdated = {}, outdated' = {}, SemaphoreTypeOK', NEW i \in Ring,
           Unlinks \/ Starts(i) \/ OpensBackward(i) \/ OpensForward(i)
    PROVE  WhenClean'
<1> USE SemaphoreAssumption DEF Ring
<1>1. WhenClean BY DEF RingInv
<1>2. UNCHANGED <<semaphore, posts>>
      BY DEF Unlinks, Starts, OpensBackward, OpensForward
<1>3. CASE Unlinks \/ Starts(i) \/ OpensBackward(i)
  <2>1. \A j \in Ring : at'[j] # at[j] => ~Opened(j) /\ ~Opened(j)'
        BY <1>3 DEF Unlinks, Starts, OpensBackward, Opened, RingInv, SemaphoreTypeOK
  <2>2. \A j \in Ring : (Opened(j)' <=> Opened(j)) /\ (HasTurn(j)' <=> HasTurn(j))
        BY <2>1 DEF Opened, HasTurn
  <2>3. AllNew'
    <3>1. CASE OpensBackward(i)
      <4>1. backwardSem' = [backwardSem EXCEPT ![i] = 1]
            BY <3>1 DEF OpensBackward, Current, OutdatedBy
      <4> QED BY <1>1, <2>2, <3>1, <4>1
              DEF WhenClean, AllNew, Opened, OpensBackward, RingInv, SemaphoreTypeOK
    <3>2. CASE Unlinks \/ Starts(i)
      <4>1. \A j \in Ring : at'[j] = "forward" => at[j] = "forward"
            BY <3>2 DEF Unlinks, Starts, RingInv, SemaphoreTypeOK
      <4>2. UNCHANGED <<backwardSem, forwardSem>> BY <3>2 DEF Unlinks, Starts
      <4> QED BY <1>1, <2>2, <4>1, <4>2 DEF WhenClean, AllNew
    <3> QED BY <1>3, <3>1, <3>2
  <2>4. NotBegun' /\ OneHolder' /\ NotInBoth' /\ OneSemaphore' /\ Binary' /\ NotLost'
        BY <1>1, <1>2, <2>2 DEF WhenClean, NotBegun, OneHolder, NotInBoth, OneSemaphore,
                                Binary, NotLost, InSemaphore
  <2>5. OrderAtHolder' /\ OrderAtSemaphore'
        BY <1>1, <1>2, <2>2 DEF WhenClean, OrderAtHolder, OrderAtSemaphore, InSemaphore
  <2> QED BY <2>3, <2>4, <2>5 DEF WhenClean
<1>4. CASE OpensForward(i)
  <2>1. /\ forwardSem' = [forwardSem EXCEPT ![i] = 1] /\ at[i] = "forward"
        /\ at' = [at EXCEPT ![i] = IF i = 1 THEN "post" ELSE "wait"]
        /\ UNCHANGED backwardSem
        BY <1>4 DEF OpensForward, Current, OutdatedBy
  <2>2. AllNew'
        BY <1>1, <2>1 DEF WhenClean, AllNew, Opened, RingInv, SemaphoreTypeOK
  <2>3. CASE i = 1
    <3>1. /\ \A j \in Ring : ~HasTurn(j) /\ semaphore[j][1] = 0 /\ posts[j] = 0
          BY <1>1, <2>1, <2>3 DEF WhenClean, NotBegun, Opened
    <3>2. \A j \in Ring : HasTurn(j)' <=> j = 1
          BY <2>1, <2>3, <3>1 DEF HasTurn, RingInv, SemaphoreTypeOK
    <3>3. \A j \in Ring : ~InSemaphore(j)' /\ posts'[j] = 0 /\ semaphore'[j][1] = 0
          BY <1>2, <3>1 DEF InSemaphore
    <3>4. NotBegun' BY <2>1, <2>3 DEF NotBegun, Opened, RingInv, SemaphoreTypeOK
    <3>5. OneHolder' /\ NotInBoth' /\ OneSemaphore' /\ Binary' /\ NotLost'
          BY <3>2, <3>3 DEF OneHolder, NotInBoth, OneSemaphore, Binary, NotLost
    <3>6. OrderAtHolder' /\ OrderAtSemaphore'
          BY <3>2, <3>3 DEF OrderAtHolder, OrderAtSemaphore
    <3> QED BY <2>2, <3>4, <3>5, <3>6 DEF WhenClean
  <2>4. CASE i # 1
    <3>1. (Opened(1)' <=> Opened(1)) /\ \A j \in Ring : HasTurn(j)' <=> HasTurn(j)
          BY <2>1, <2>4 DEF HasTurn, Opened, RingInv, SemaphoreTypeOK
    <3>2. NotBegun' /\ OneHolder' /\ NotInBoth' /\ OneSemaphore' /\ Binary' /\ NotLost'
          BY <1>1, <1>2, <3>1 DEF WhenClean, NotBegun, OneHolder, NotInBoth, OneSemaphore,
                                  Binary, NotLost, InSemaphore
    <3>3. OrderAtHolder' /\ OrderAtSemaphore'
          BY <1>1, <1>2, <3>1 DEF WhenClean, OrderAtHolder, OrderAtSemaphore, InSemaphore
    <3> QED BY <2>2, <3>2, <3>3 DEF WhenClean
  <2> QED BY <2>3, <2>4
<1> QED BY <1>3, <1>4

LEMMA RingInvInit == SemaphoreInit => RingInv
<1> USE SemaphoreAssumption DEF Ring, Generations
<1> SUFFICES ASSUME SemaphoreInit PROVE RingInv OBVIOUS
<1>1. SemaphoreTypeOK BY DEF SemaphoreInit, SemaphoreTypeOK
<1>2. \A i \in Ring : at[i] = "off" /\ semaphore[i][1] = 0 /\ posts[i] = 0
      BY DEF SemaphoreInit
<1>3. AllNew /\ NotBegun /\ OneHolder /\ NotInBoth /\ OneSemaphore /\ Binary /\ NotLost
      BY <1>2 DEF AllNew, NotBegun, OneHolder, NotInBoth, OneSemaphore, Binary, NotLost,
                  Opened, HasTurn, InSemaphore
<1>4. OrderAtHolder /\ OrderAtSemaphore
      BY <1>2 DEF OrderAtHolder, OrderAtSemaphore, HasTurn, InSemaphore
<1> QED BY <1>1, <1>3, <1>4 DEF RingInv, WhenClean

\* Nobody forgets that it was started too early.
LEMMA StaysOutdated ==
    ASSUME SemaphoreNext, outdated' = {} PROVE outdated = {}
<1>1. CASE Unlinks BY <1>1 DEF Unlinks
<1>2. ASSUME NEW i \in Ring,
             Starts(i) \/ OpensBackward(i) \/ OpensForward(i) \/ Posts(i) \/ Waits(i)
      PROVE  outdated = {}
      BY <1>2 DEF Starts, OpensBackward, OpensForward, Posts, Waits, OutdatedBy
<1> QED BY <1>1, <1>2 DEF SemaphoreNext

LEMMA RingInvNext == RingInv /\ [SemaphoreNext]_semaphoreVars => RingInv'
<1> SUFFICES ASSUME RingInv, [SemaphoreNext]_semaphoreVars PROVE RingInv' OBVIOUS
<1>1. SemaphoreTypeOK' BY SemaphoreTypes DEF RingInv
<1>2. CASE UNCHANGED semaphoreVars
  <2>1. /\ at' = at /\ semaphore' = semaphore /\ posts' = posts /\ outdated' = outdated
        /\ backwardSem' = backwardSem /\ forwardSem' = forwardSem
        BY <1>2 DEF semaphoreVars
  <2>2. WhenClean => WhenClean'
    <3> SUFFICES ASSUME WhenClean PROVE WhenClean' OBVIOUS
    <3>1. AllNew' /\ NotBegun'
          BY <2>1 DEF WhenClean, AllNew, NotBegun, Opened, HasTurn
    <3>2. OneHolder' /\ NotInBoth' /\ OneSemaphore' /\ Binary' /\ NotLost'
          BY <2>1 DEF WhenClean, OneHolder, NotInBoth, OneSemaphore, Binary, NotLost,
                      Opened, HasTurn, InSemaphore
    <3>3. OrderAtHolder' /\ OrderAtSemaphore'
          BY <2>1 DEF WhenClean, OrderAtHolder, OrderAtSemaphore, HasTurn, InSemaphore
    <3> QED BY <3>1, <3>2, <3>3 DEF WhenClean
  <2> QED BY <1>1, <2>1, <2>2 DEF RingInv
<1>3. CASE SemaphoreNext
  <2> SUFFICES ASSUME outdated' = {} PROVE WhenClean' BY <1>1 DEF RingInv
  <2>1. outdated = {} BY <1>3, StaysOutdated
  <2>2. 1 \in Ring BY SemaphoreAssumption DEF Ring
  <2>3. CASE Unlinks BY <1>1, <2>1, <2>2, <2>3, PreparationKeeps
  <2>4. ASSUME NEW i \in Ring, Starts(i) \/ OpensBackward(i) \/ OpensForward(i)
        PROVE  WhenClean'
        BY <1>1, <2>1, <2>4, PreparationKeeps
  <2>5. ASSUME NEW i \in Ring, Posts(i) PROVE WhenClean' BY <1>1, <2>1, <2>5, PostsKeeps
  <2>6. ASSUME NEW i \in Ring, Waits(i) PROVE WhenClean' BY <1>1, <2>1, <2>6, WaitsKeeps
  <2> QED BY <1>3, <2>3, <2>4, <2>5, <2>6 DEF SemaphoreNext
<1> QED BY <1>2, <1>3

LEMMA RingInvariant == SemaphoreSpec => []RingInv
<1>1. SemaphoreInit => RingInv BY RingInvInit
<1>2. RingInv /\ [SemaphoreNext]_semaphoreVars => RingInv' BY RingInvNext
<1> QED BY <1>1, <1>2, PTL DEF SemaphoreSpec

\* Type correctness of the ring, for every number of processes.
THEOREM SemaphoreTypeCorrect == SemaphoreSpec => []SemaphoreTypeOK
<1>1. RingInv => SemaphoreTypeOK BY DEF RingInv
<1> QED BY <1>1, RingInvariant, PTL

\* One turn, never two and never none, for every number of processes and
\* whatever an earlier run left (main of P1.c to P4.c).
THEOREM OneTurnAlways == SemaphoreSpec => []OneTurn
<1>1. RingInv => OneTurn
      BY DEF RingInv, WhenClean, OneTurn, OneHolder, NotInBoth, OneSemaphore, Binary,
             NotLost, Opened
<1> QED BY <1>1, RingInvariant, PTL

\* The turn goes round in order, for every number of processes.
THEOREM InOrderAlways == SemaphoreSpec => []InOrder
<1>1. RingInv => InOrder
  <2> SUFFICES ASSUME RingInv, outdated = {}, NEW i \in Ring, NEW j \in Ring, i < j
               PROVE  posts[i] \in {posts[j], posts[j] + 1}
      BY DEF InOrder
  <2>1. WhenClean BY DEF RingInv
  <2>2. CASE ~Opened(1) BY <2>1, <2>2 DEF WhenClean, NotBegun
  <2>3. CASE Opened(1)
    <3>1. PICK k \in Ring : HasTurn(k) \/ InSemaphore(k)
          BY <2>1, <2>3 DEF WhenClean, NotLost
    <3> QED BY <2>1, <3>1 DEF WhenClean, OrderAtHolder, OrderAtSemaphore
  <2> QED BY <2>2, <2>3
<1> QED BY <1>1, RingInvariant, PTL
=============================================================================
