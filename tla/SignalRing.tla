----------------------------- MODULE SignalRing -----------------------------
(***************************************************************************)
(* 14-01-22-signal-sem-shm/signals: P1.c to P4.c form a ring.  They find    *)
(* their neighbours with a message queue and SIGUSR1, then signal each other*)
(* round the ring, three times with SIGUSR1 to the right and three times    *)
(* with SIGUSR2 to the left, in turns that named semaphores hand on.        *)
(*                                                                         *)
(* The programs of 14-01-22-signal-sem-shm/group-signaling find their       *)
(* neighbours in the same way; then P2 to P4 tell P1 who they are and get   *)
(* its pid, the id of the group, in a message.  That P1 cannot put them into*)
(* its group (setpgid fails, they are not its children) is only printed.    *)
(*                                                                         *)
(* Each program is a sequence of calls in four parts: "meet" (everything    *)
(* before the first loop), the loops "forward" and "back", and "turn"       *)
(* between them; those of the group have the first part only.  A call is    *)
(* one action.  Standard signals: one of a kind stays pending, a second one *)
(* is lost; handlers are installed without SA_RESTART, so that sem_wait and *)
(* msgrcv return when one has run.                                         *)
(*                                                                         *)
(* P2 removes the semaphores and the queue of an earlier run.  A process    *)
(* started before it is done keeps the old ones: generation 0.              *)
(***************************************************************************)
EXTENDS Integers, Sequences

CONSTANTS Rounds,      \* turns of each loop; 3 in the code
          Early,       \* processes that may be started before P2 has cleaned up
          StaleTypes,  \* types of messages an earlier run left in the queue
          StalePosts,  \* names of semaphores it left at 1
          Nobody,      \* a pid no process has
          Prompt       \* a signal is handled before the receiver's next call

Procs == 1..4
Signals == {"USR1", "USR2"}
Names == Procs \X (0..2)   \* "%d-%d"
Pids == Procs \cup {0, Nobody}
MsgTypes == (1..4) \cup {18}

ASSUME RingAssumption ==
    /\ Rounds \in Nat \ {0} /\ Nobody \notin Nat
    /\ Early \subseteq Procs \ {2}
    /\ StaleTypes \subseteq 1..4 /\ StalePosts \subseteq Names
    /\ Prompt \in BOOLEAN

VARIABLES
    programs,      \* the directory of the four programs
    phase, at, i,  \* the part a process executes, the call in it, its loop counter
    left, right,   \* leftPID, rightPID
    handler,       \* the handler of SIGUSR1 that is installed
    mask, pending, \* blocked signals; senders of pending ones
    unlinked,      \* names P2 has unlinked
    sees,          \* the generation of each name a process has opened
    sem,           \* values, of both generations
    queue, qid,    \* messages by generation and type; the queue a process got
    current,       \* the queue msgget gives: 1 once P2 has removed the old one
    allPIDs,       \* allPIDs of P1, without the leading entry for itself
    group,         \* history: the message P2 to P4 end with
    stale,         \* history: processes that hold a semaphore or queue of an earlier run
    sends,         \* history: signals sent
    told           \* history: what each process's handlers printed

progressVars == <<phase, at, i>>
knownVars == <<right, allPIDs, group>>
signalVars == <<left, handler, mask, pending, told>>
nameVars == <<unlinked, sees, sem>>
queueVars == <<queue, qid, current>>
vars == <<programs, progressVars, signalVars, nameVars, queueVars, knownVars, stale, sends>>

getNextProcess(p) == (p % 4) + 1
getPreviousProcess(p) == IF (p - 1 + 4) % 4 = 0 THEN 4 ELSE (p - 1 + 4) % 4

-----------------------------------------------------------------------------
(* The programs *)

Wait(p, j) == [op |-> "wait", sem |-> <<p, j>>]
Post(p, j) == [op |-> "post", sem |-> <<p, j>>]
Kill(to, sig) == [op |-> "kill", to |-> to, sig |-> sig]
Mask(sig) == [op |-> "mask", sig |-> sig]
Unmask(sig) == [op |-> "unmask", sig |-> sig]
Call(name) == [op |-> name]
Send(type, whose) == [op |-> "send", type |-> type, whose |-> whose]
Receive(type, into) == [op |-> "receive", type |-> type, into |-> into]

\* intializeSemaphores(j): the process's own semaphore and its neighbours'.
InitSems(p, j) ==
    <<[op |-> "open", sems |-> {getPreviousProcess(p), p, getNextProcess(p)} \X {j}]>>

\* init_code of P2: all the names, then the queue.
CleanUp == <<[op |-> "unlink", sems |-> Names], Call("remove")>>

\* Mutant: the right neighbour is woken before it is signalled.
GetRightPostsFirst(p, type) ==
    <<Call("msgget"), Receive(type, "right"), Post(getNextProcess(p), 0), Kill("right", "USR1")>>

\* getRightFunc
GetRight(p, type) ==
    <<Call("msgget"), Receive(type, "right"), Kill("right", "USR1"), Post(getNextProcess(p), 0)>>

\* Mutant: P1 waits before it signals, as the other three do.
P1WaitsFirst ==
      [meet    |-> InitSems(1, 0) \o GetRight(1, 2)
                   \o <<Wait(1, 0), Call("change")>> \o InitSems(1, 1),
       forward |-> <<Mask("USR1"), Wait(4, 1), Kill("right", "USR1"), Unmask("USR1"),
                     Post(1, 1)>>,
       turn    |-> InitSems(1, 2),
       back    |-> <<Mask("USR2"), Kill("left", "USR2"), Post(1, 2), Wait(2, 2),
                     Unmask("USR2")>>]

P1 == [meet    |-> InitSems(1, 0) \o GetRight(1, 2)
                   \o <<Wait(1, 0), Call("change")>> \o InitSems(1, 1),
       forward |-> <<Mask("USR1"), Kill("right", "USR1"), Post(1, 1), Wait(4, 1),
                     Unmask("USR1")>>,
       turn    |-> InitSems(1, 2),
       back    |-> <<Mask("USR2"), Kill("left", "USR2"), Post(1, 2), Wait(2, 2),
                     Unmask("USR2")>>]

P2 == [meet    |-> CleanUp \o InitSems(2, 0)
                   \o <<Call("msgget"), Send(2, "own"), Wait(2, 0)>> \o GetRight(2, 3)
                   \o <<Send(1, "left"), Call("change")>> \o InitSems(2, 1),
       forward |-> <<Mask("USR1"), Wait(1, 1), Kill("right", "USR1"), Unmask("USR1"),
                     Post(2, 1)>>,
       turn    |-> InitSems(2, 2),
       back    |-> <<Mask("USR2"), Wait(3, 2), Unmask("USR2"), Kill("left", "USR2"),
                     Post(2, 2)>>]

\* Mutants: the turn is handed on before the signal is sent, or before the
\* signal received is handled.
FollowerPostsFirst(p, type) ==
      [meet    |-> InitSems(p, 0) \o <<Call("msgget"), Send(p, "own"), Wait(p, 0)>>
                   \o GetRight(p, type) \o <<Call("change")>> \o InitSems(p, 1),
       forward |-> <<Mask("USR1"), Wait(getPreviousProcess(p), 1), Post(p, 1),
                     Kill("right", "USR1"), Unmask("USR1")>>,
       turn    |-> InitSems(p, 2),
       back    |-> <<Mask("USR2"), Wait(getNextProcess(p), 2), Kill("left", "USR2"),
                     Unmask("USR2"), Post(p, 2)>>]

FollowerPostsMasked(p, type) ==
      [meet    |-> InitSems(p, 0) \o <<Call("msgget"), Send(p, "own"), Wait(p, 0)>>
                   \o GetRight(p, type) \o <<Call("change")>> \o InitSems(p, 1),
       forward |-> <<Mask("USR1"), Wait(getPreviousProcess(p), 1), Kill("right", "USR1"),
                     Post(p, 1), Unmask("USR1")>>,
       turn    |-> InitSems(p, 2),
       back    |-> <<Mask("USR2"), Wait(getNextProcess(p), 2), Kill("left", "USR2"),
                     Unmask("USR2"), Post(p, 2)>>]

\* P3 and P4 differ in their number and in whose pid they ask for.
Follower(p, type) ==
      [meet    |-> InitSems(p, 0) \o <<Call("msgget"), Send(p, "own"), Wait(p, 0)>>
                   \o GetRight(p, type) \o <<Call("change")>> \o InitSems(p, 1),
       forward |-> <<Mask("USR1"), Wait(getPreviousProcess(p), 1), Kill("right", "USR1"),
                     Unmask("USR1"), Post(p, 1)>>,
       turn    |-> InitSems(p, 2),
       back    |-> <<Mask("USR2"), Wait(getNextProcess(p), 2), Kill("left", "USR2"),
                     Unmask("USR2"), Post(p, 2)>>]

P3 == Follower(3, 4)
P4 == Follower(4, 1)

\* getLeftFunc of group-signaling.
GetLeft(p) == <<Mask("USR1"), Wait(p, 0), Unmask("USR1")>>

\* makeGroupFromMessages
MakeGroup ==
    <<Call("msgget"), Receive(18, "all"), Receive(18, "all"), Receive(18, "all")>>

\* sendGroupIDToOthers
SendGroupID == <<Call("msgget"), Send(2, "own"), Send(3, "own"), Send(4, "own")>>

\* Mutant: the others are told before the last of them has introduced itself.
G1SendsFirst ==
    [meet |-> <<Mask("USR2")>> \o InitSems(1, 0) \o GetRight(1, 2) \o SendGroupID
              \o GetLeft(1) \o MakeGroup]

G1 == [meet |-> <<Mask("USR2")>> \o InitSems(1, 0) \o GetRight(1, 2) \o GetLeft(1)
                \o MakeGroup \o SendGroupID]

G2 == [meet |-> CleanUp \o <<Mask("USR2")>> \o InitSems(2, 0)
                \o <<Call("msgget"), Send(2, "own")>> \o GetLeft(2) \o GetRight(2, 3)
                \o <<Send(1, "left"), Send(18, "own"), Receive(2, "group")>>]

\* P3 and P4 of group-signaling.
Member(p, type) ==
    [meet |-> <<Mask("USR2")>> \o InitSems(p, 0) \o <<Call("msgget"), Send(p, "own")>>
              \o GetLeft(p) \o <<Send(18, "own")>> \o GetRight(p, type)
              \o <<Receive(p, "group")>>]

G3 == Member(3, 4)
G4 == Member(4, 1)

grouped == programs = "group-signaling"

Program == IF grouped THEN <<G1, G2, G3, G4>> ELSE <<P1, P2, P3, P4>>

After == [meet |-> IF grouped THEN "done" ELSE "forward", forward |-> "turn", turn |-> "back", back |-> "done"]

-----------------------------------------------------------------------------
Running(p) == phase[p] \in {"meet", "forward", "turn", "back"}

Now(p) == Program[p][phase[p]][at[p]]

Deliverable(p, s) == Running(p) /\ s \notin mask[p] /\ pending[p][s] # 0

At(p, op) == Running(p) /\ Now(p).op = op

\* The process makes the call it is at.  kill interrupts a process wherever it
\* is; POSIX leaves open how soon, and only if it is at once (Prompt) can the
\* receiver not go on with what the sender does next.
Does(p, op) ==
    At(p, op) /\ (Prompt => \A s \in Signals : ~Deliverable(p, s))

\* The next call, the next turn of the loop, or what follows it.
Advance(p) ==
    LET last == at[p] = Len(Program[p][phase[p]])
        again == phase[p] \in {"forward", "back"} /\ i[p] + 1 < Rounds
    IN  \/ /\ ~last
           /\ at' = [at EXCEPT ![p] = @ + 1] /\ UNCHANGED <<phase, i>>
        \/ /\ last /\ again
           /\ at' = [at EXCEPT ![p] = 1] /\ i' = [i EXCEPT ![p] = @ + 1]
           /\ UNCHANGED phase
        \/ /\ last /\ ~again
           /\ at' = [at EXCEPT ![p] = 1] /\ i' = [i EXCEPT ![p] = 0]
           /\ phase' = [phase EXCEPT ![p] = After[@]]

TypeOK ==
    /\ programs \in {"signals", "group-signaling"} /\ group \in [Procs -> Pids] /\ allPIDs \in Seq(Pids)
    /\ phase \in [Procs -> {"off", "meet", "forward", "turn", "back", "done"}]
    /\ at \in [Procs -> Nat \ {0}] /\ i \in [Procs -> 0..Rounds - 1]
    /\ \A p \in Procs : Running(p) => at[p] <= Len(Program[p][phase[p]])
    /\ left \in [Procs -> 0..4] /\ right \in [Procs -> Pids]
    /\ handler \in [Procs -> {"initHandler", "circularHandler"}] /\ mask \in [Procs -> SUBSET Signals]
    /\ pending \in [Procs -> [Signals -> 0..4]]
    /\ unlinked \in SUBSET Names /\ sees \in [Procs -> [Names -> {0, 1}]]
    /\ sem \in [Names -> [{0, 1} -> Nat]]
    /\ queue \in [{0, 1} -> [MsgTypes -> Seq(Pids)]] /\ qid \in [Procs -> {0, 1}]
    /\ current \in {0, 1} /\ stale \in SUBSET Procs
    /\ sends \in Seq([from : Procs, to : Pids, sig : Signals])
    /\ told \in [Procs -> Seq({"intro", "left", "right"})]

Init ==
    /\ programs \in {"signals", "group-signaling"} /\ group = [p \in Procs |-> 0] /\ allPIDs = <<>>
    /\ phase = [p \in Procs |-> "off"] /\ at = [p \in Procs |-> 1]
    /\ i = [p \in Procs |-> 0]
    /\ left = [p \in Procs |-> 0] /\ right = [p \in Procs |-> 0]
    /\ handler = [p \in Procs |-> "initHandler"] /\ mask = [p \in Procs |-> {}]
    /\ pending = [p \in Procs |-> [s \in Signals |-> 0]]
    /\ unlinked = {} /\ sees = [p \in Procs |-> [n \in Names |-> 0]]
    /\ sem = [n \in Names |-> [g \in {0, 1} |-> IF g = 0 /\ n \in StalePosts THEN 1 ELSE 0]]
    /\ queue = [g \in {0, 1} |-> [t \in MsgTypes |->
                    IF g = 0 /\ t \in StaleTypes THEN <<Nobody>> ELSE <<>>]]
    /\ qid = [p \in Procs |-> 0] /\ current = 0 /\ stale = {}
    /\ sends = <<>> /\ told = [p \in Procs |-> <<>>]

\* A user starts the program, which begins with installing initHandler.
Launch(p) ==
    /\ phase[p] = "off" /\ (p = 2 \/ p \in Early \/ current = 1)
    /\ phase' = [phase EXCEPT ![p] = "meet"]
    /\ UNCHANGED <<programs, at, i, signalVars, nameVars, queueVars, knownVars, stale, sends>>

-----------------------------------------------------------------------------
(* Semaphores *)

SemOpen(p) ==
    /\ Does(p, "open")
    /\ sees' = [sees EXCEPT ![p] = [n \in Names |->
                    IF n \notin Now(p).sems THEN @[n] ELSE IF n \in unlinked THEN 1 ELSE 0]]
    /\ stale' = IF Now(p).sems \subseteq unlinked THEN stale ELSE stale \cup {p}
    /\ Advance(p)
    /\ UNCHANGED <<signalVars, unlinked, sem, queueVars, knownVars, sends>>

SemUnlink(p) ==
    /\ Does(p, "unlink")
    /\ unlinked' = unlinked \cup Now(p).sems
    /\ Advance(p)
    /\ UNCHANGED <<signalVars, sees, sem, queueVars, knownVars, stale, sends>>

SemPost(p) ==
    /\ Does(p, "post")
    /\ LET n == Now(p).sem IN sem' = [sem EXCEPT ![n][sees[p][n]] = @ + 1]
    /\ Advance(p)
    /\ UNCHANGED <<signalVars, unlinked, sees, queueVars, knownVars, stale, sends>>

SemWait(p) ==
    /\ Does(p, "wait")
    /\ LET n == Now(p).sem
       IN  sem[n][sees[p][n]] > 0 /\ sem' = [sem EXCEPT ![n][sees[p][n]] = @ - 1]
    /\ Advance(p)
    /\ UNCHANGED <<signalVars, unlinked, sees, queueVars, knownVars, stale, sends>>

-----------------------------------------------------------------------------
(* The queue *)

RemoveQueue(p) ==
    /\ Does(p, "remove")
    /\ current' = 1
    /\ Advance(p)
    /\ UNCHANGED <<signalVars, nameVars, queue, qid, knownVars, stale, sends>>

MsgGet(p) ==
    /\ Does(p, "msgget")
    /\ qid' = [qid EXCEPT ![p] = current]
    /\ stale' = IF current = 1 THEN stale ELSE stale \cup {p}
    /\ Advance(p)
    /\ UNCHANGED <<signalVars, nameVars, queue, current, knownVars, sends>>

QueueGone(p) == qid[p] < current

\* msgsnd; its failure is not looked at.
MsgSnd(p) ==
    /\ Does(p, "send")
    /\ LET pid == IF Now(p).whose = "own" THEN p ELSE left[p]
       IN  queue' = IF QueueGone(p) THEN queue
                    ELSE [queue EXCEPT ![qid[p]][Now(p).type] = Append(@, pid)]
    /\ Advance(p)
    /\ UNCHANGED <<signalVars, nameVars, qid, current, knownVars, stale, sends>>

\* atoi of the message that was received.
Learns(p, pid) ==
    \/ /\ Now(p).into = "right"
       /\ right' = [right EXCEPT ![p] = pid] /\ UNCHANGED <<allPIDs, group>>
    \/ /\ Now(p).into = "all"
       /\ allPIDs' = Append(allPIDs, pid) /\ UNCHANGED <<right, group>>
    \/ /\ Now(p).into = "group"
       /\ group' = [group EXCEPT ![p] = pid] /\ UNCHANGED <<right, allPIDs>>

MsgRcv(p) ==
    /\ Does(p, "receive") /\ ~QueueGone(p)
    /\ LET m == queue[qid[p]][Now(p).type]
       IN  /\ m # <<>> /\ Learns(p, Head(m))
           /\ queue' = [queue EXCEPT ![qid[p]][Now(p).type] = Tail(m)]
    /\ Advance(p)
    /\ UNCHANGED <<signalVars, nameVars, qid, current, stale, sends>>

\* atoi of a message that was never filled in: no number, or the pid of nobody.
Garbage == {0, Nobody}

\* A failed msgrcv is not looked at either.
MsgRcvFails(p) ==
    /\ Does(p, "receive") /\ QueueGone(p)
    /\ \E pid \in Garbage : Learns(p, pid)
    /\ Advance(p)
    /\ UNCHANGED <<signalVars, nameVars, queueVars, stale, sends>>

-----------------------------------------------------------------------------
(* Signals *)

\* kill: pid 0 is the caller's process group, which is the caller.
SendSignal(p) ==
    /\ Does(p, "kill")
    /\ LET pid == IF Now(p).to = "right" THEN right[p] ELSE left[p]
           q == IF pid = 0 THEN p ELSE pid
           s == Now(p).sig
       IN  /\ sends' = Append(sends, [from |-> p, to |-> q, sig |-> s])
           /\ pending' = IF q \in Procs /\ Running(q) /\ pending[q][s] = 0
                         THEN [pending EXCEPT ![q][s] = p] ELSE pending
    /\ Advance(p)
    /\ UNCHANGED <<left, handler, mask, told, nameVars, queueVars, knownVars, stale>>

\* Mutant: initHandler stays.
ChangeHandlerNot(p) ==
    /\ Does(p, "change")
    /\ Advance(p)
    /\ UNCHANGED <<handler, left, mask, pending, told, nameVars, queueVars, knownVars, stale, sends>>

ChangeHandler(p) ==
    /\ Does(p, "change")
    /\ handler' = [handler EXCEPT ![p] = "circularHandler"]
    /\ Advance(p)
    /\ UNCHANGED <<left, mask, pending, told, nameVars, queueVars, knownVars, stale, sends>>

MaskSignal(p) ==
    /\ Does(p, "mask")
    /\ mask' = [mask EXCEPT ![p] = @ \cup {Now(p).sig}]
    /\ Advance(p)
    /\ UNCHANGED <<left, handler, pending, told, nameVars, queueVars, knownVars, stale, sends>>

\* initHandler takes the sender for the left neighbour; circularHandler takes
\* whoever is not the left neighbour for the right one.
Handle(p, s) ==
    LET sender == pending[p][s]
        intro == s = "USR1" /\ handler[p] = "initHandler"
        side == IF sender = left[p] THEN "left" ELSE "right"
    IN  /\ left' = IF intro THEN [left EXCEPT ![p] = sender] ELSE left
        /\ told' = [told EXCEPT ![p] = Append(@, IF intro THEN "intro" ELSE side)]
        /\ pending' = [pending EXCEPT ![p][s] = 0]

\* sigprocmask returns after the handler of a signal that was pending.
UnmaskSignal(p) ==
    /\ Does(p, "unmask")
    /\ LET s == Now(p).sig
       IN  /\ mask' = [mask EXCEPT ![p] = @ \ {s}]
           /\ IF pending[p][s] # 0 THEN Handle(p, s) ELSE UNCHANGED <<left, told, pending>>
    /\ Advance(p)
    /\ UNCHANGED <<handler, nameVars, queueVars, knownVars, stale, sends>>

\* A handler runs between two calls, or in one that waits, which then either
\* had not begun to wait or returns without what it waited for.  SIGUSR2 before
\* changeHandler would end the process; NobodyKilled says that it does not come.
Deliver(p, s) ==
    /\ Deliverable(p, s) /\ (s = "USR1" \/ handler[p] = "circularHandler")
    /\ Handle(p, s)
    /\ \/ UNCHANGED <<progressVars, knownVars>>
       \/ At(p, "wait") /\ Advance(p) /\ UNCHANGED knownVars
       \/ /\ At(p, "receive") /\ Advance(p)
          /\ \E pid \in Garbage : Learns(p, pid)
    /\ UNCHANGED <<handler, mask, nameVars, queueVars, stale, sends>>

-----------------------------------------------------------------------------
Step(p) ==
    /\ UNCHANGED programs
    /\ \/ SemOpen(p) \/ SemUnlink(p) \/ SemPost(p) \/ SemWait(p)
       \/ RemoveQueue(p) \/ MsgGet(p) \/ MsgSnd(p) \/ MsgRcv(p) \/ MsgRcvFails(p)
       \/ SendSignal(p) \/ ChangeHandler(p) \/ MaskSignal(p) \/ UnmaskSignal(p)

Interrupt(p) == UNCHANGED programs /\ \E s \in Signals : Deliver(p, s)

Next == \E p \in Procs : Launch(p) \/ Step(p) \/ Interrupt(p)

\* As long as a process can go on, with its program or with a handler, some
\* process does; users need not start anything.
Spec == Init /\ [][Next]_vars /\ WF_vars(\E p \in Procs : Step(p) \/ Interrupt(p))
=============================================================================
