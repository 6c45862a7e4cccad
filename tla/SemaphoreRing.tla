--------------------------- MODULE SemaphoreRing ----------------------------
(***************************************************************************)
(* 14-01-22-signal-sem-shm/synchronization-semaphores: P1 to P4 hand a turn *)
(* round a ring of named semaphores "S12", "S23", "S34", "S41".  P1 removes *)
(* the names an earlier run left, opens its two semaphores and begins with  *)
(* a post; the others open theirs and begin with a wait.                    *)
(*                                                                         *)
(* Semaphore n is the one from process n to the next.  A process that opens *)
(* it before P1 has removed the name gets the old one, generation 0.        *)
(***************************************************************************)
EXTENDS Naturals

CONSTANTS N,          \* processes; 4 in the code
          LeftPosted, \* semaphores an earlier run left at 1
          MaxTurns    \* how often the user of each lets it post; unbounded in the code

ASSUME SemaphoreAssumption ==
    /\ N \in Nat /\ N >= 2 /\ LeftPosted \subseteq 1..N /\ MaxTurns \in Nat \ {0}

Ring == 1..N

getNextProcess(i) == IF i = N THEN 1 ELSE i + 1
getPreviousProcess(i) == IF i = 1 THEN N ELSE i - 1

VARIABLES
    at,       \* the call a process is at
    unlinked, \* how many names P1 has removed
    backwardSem, forwardSem, \* the generation a process has opened
    semaphore,\* values, by name and generation
    posts,    \* how often a process has posted
    outdated  \* history: processes that opened a semaphore of an earlier run

semaphoreVars == <<at, unlinked, backwardSem, forwardSem, semaphore, posts, outdated>>

Generations == {0, 1}

SemaphoreTypeOK ==
    /\ at \in [Ring -> {"off", "unlink", "backward", "forward", "post", "wait"}]
    /\ unlinked \in 0..N
    /\ backwardSem \in [Ring -> Generations] /\ forwardSem \in [Ring -> Generations]
    /\ semaphore \in [Ring -> [Generations -> Nat]]
    /\ posts \in [Ring -> 0..MaxTurns] /\ outdated \subseteq Ring

SemaphoreInit ==
    /\ at = [i \in Ring |-> "off"] /\ unlinked = 0
    /\ backwardSem = [i \in Ring |-> 0] /\ forwardSem = [i \in Ring |-> 0]
    /\ semaphore = [n \in Ring |-> [g \in Generations |->
                       IF g = 0 /\ n \in LeftPosted THEN 1 ELSE 0]]
    /\ posts = [i \in Ring |-> 0] /\ outdated = {}

-----------------------------------------------------------------------------
Starts(i) ==
    /\ at[i] = "off"
    /\ at' = [at EXCEPT ![i] = IF i = 1 THEN "unlink" ELSE "backward"]
    /\ UNCHANGED <<unlinked, backwardSem, forwardSem, semaphore, posts, outdated>>

\* init_code of P1: the names one after the other.
Unlinks ==
    /\ at[1] = "unlink" /\ unlinked < N
    /\ unlinked' = unlinked + 1
    /\ at' = [at EXCEPT ![1] = IF unlinked' = N THEN "backward" ELSE "unlink"]
    /\ UNCHANGED <<backwardSem, forwardSem, semaphore, posts, outdated>>

\* What sem_open finds, and who got a semaphore of an earlier run by it.
Current(n) == IF n <= unlinked THEN 1 ELSE 0
OutdatedBy(i, n) == IF n <= unlinked THEN outdated ELSE outdated \cup {i}

OpensBackward(i) ==
    /\ at[i] = "backward"
    /\ backwardSem' = [backwardSem EXCEPT ![i] = Current(getPreviousProcess(i))]
    /\ outdated' = OutdatedBy(i, getPreviousProcess(i))
    /\ at' = [at EXCEPT ![i] = "forward"]
    /\ UNCHANGED <<unlinked, forwardSem, semaphore, posts>>

\* Mutant: every process begins with its turn.
OpensForwardAndPosts(i) ==
    /\ at[i] = "forward"
    /\ forwardSem' = [forwardSem EXCEPT ![i] = Current(i)]
    /\ outdated' = OutdatedBy(i, i)
    /\ at' = [at EXCEPT ![i] = "post"]
    /\ UNCHANGED <<unlinked, backwardSem, semaphore, posts>>

\* Then main: P1 begins with its turn, the others wait for theirs.
OpensForward(i) ==
    /\ at[i] = "forward"
    /\ forwardSem' = [forwardSem EXCEPT ![i] = Current(i)]
    /\ outdated' = OutdatedBy(i, i)
    /\ at' = [at EXCEPT ![i] = IF i = 1 THEN "post" ELSE "wait"]
    /\ UNCHANGED <<unlinked, backwardSem, semaphore, posts>>

\* The user enters a character, sem_post.
Posts(i) ==
    /\ at[i] = "post" /\ posts[i] < MaxTurns
    /\ semaphore' = [semaphore EXCEPT ![i][forwardSem[i]] = @ + 1]
    /\ posts' = [posts EXCEPT ![i] = @ + 1]
    /\ at' = [at EXCEPT ![i] = "wait"]
    /\ UNCHANGED <<unlinked, backwardSem, forwardSem, outdated>>

\* Mutant: the process waits for its own semaphore.
WaitsForward(i) ==
    LET n == i IN
    /\ at[i] = "wait" /\ semaphore[n][backwardSem[i]] > 0
    /\ semaphore' = [semaphore EXCEPT ![n][backwardSem[i]] = @ - 1]
    /\ at' = [at EXCEPT ![i] = "post"]
    /\ UNCHANGED <<unlinked, backwardSem, forwardSem, posts, outdated>>

Waits(i) ==
    LET n == getPreviousProcess(i) IN
    /\ at[i] = "wait" /\ semaphore[n][backwardSem[i]] > 0
    /\ semaphore' = [semaphore EXCEPT ![n][backwardSem[i]] = @ - 1]
    /\ at' = [at EXCEPT ![i] = "post"]
    /\ UNCHANGED <<unlinked, backwardSem, forwardSem, posts, outdated>>

SemaphoreNext ==
    \/ Unlinks
    \/ \E i \in Ring :
          Starts(i) \/ OpensBackward(i) \/ OpensForward(i) \/ Posts(i) \/ Waits(i)

\* Programs that run go on, and users enter characters; nobody has to start one.
SemaphoreFairness ==
    /\ WF_semaphoreVars(Unlinks)
    /\ \A i \in Ring :
          WF_semaphoreVars(OpensBackward(i) \/ OpensForward(i) \/ Posts(i) \/ Waits(i))

SemaphoreSpec == SemaphoreInit /\ [][SemaphoreNext]_semaphoreVars /\ SemaphoreFairness

-----------------------------------------------------------------------------
(* Properties *)

\* Where the turn is: with a process that may post, or in a semaphore.
HasTurn(i) == at[i] = "post"
InSemaphore(n) == semaphore[n][1] > 0

\* If nobody was started too early there is one turn from the moment P1 has
\* opened its semaphores, and no other before: never do two processes have it,
\* nor one while it is still in a semaphore, and it is never lost (main of P1.c
\* to P4.c).
OneTurn ==
    outdated = {} =>
        /\ \A i, j \in Ring : HasTurn(i) /\ HasTurn(j) => i = j
        /\ \A i, n \in Ring : ~(HasTurn(i) /\ InSemaphore(n))
        /\ \A m, n \in Ring : InSemaphore(m) /\ InSemaphore(n) => m = n
        /\ \A n \in Ring : semaphore[n][1] <= 1
        /\ at[1] \in {"post", "wait"} => \E i \in Ring : HasTurn(i) \/ InSemaphore(i)

\* Then the turn goes round in order: nobody is ahead of the process before it,
\* nor more than one turn behind P1.
InOrder ==
    outdated = {} =>
        \A i, j \in Ring : i < j => posts[i] \in {posts[j], posts[j] + 1}

\* Once all run, everybody gets all the turns its user can wish for, unless
\* somebody was started too early; then they may all wait for each other.
EverybodyPosts ==
    (\A i \in Ring : at[i] # "off")
        ~> (outdated # {} \/ \A i \in Ring : posts[i] = MaxTurns)
=============================================================================
