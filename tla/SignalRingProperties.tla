------------------------ MODULE SignalRingProperties ------------------------
(***************************************************************************)
(* What the signal ring promises.  Clean means that P2 was given the time   *)
(* to clean up before the others were started.                             *)
(***************************************************************************)
EXTENDS SignalRing, FiniteSets, SequencesExt

Clean == stale = {}

\* After a clean start signals go round the ring one at a time, an introduction
\* and Rounds signals to the right, then Rounds to the left: no process sends
\* out of turn, whatever the scheduler and interrupted waits do (the loops of
\* P1.c 137-153 and of the other three).
Ring == INSTANCE RoundRobin WITH sends <- IF Clean THEN sends ELSE <<>>

ImplementsRoundRobin == Ring!Spec

\* After a clean start no signal is lost to one of its kind that is still
\* pending: the semaphores keep a second one back until the first has been
\* handled (sem_post comes after unmaskSignal, P2.c 187-191).
SentTo(p) == {k \in 1..Len(sends) : sends[k].to = p}

NoSignalLost ==
    Clean => \A p \in Procs :
        Cardinality(SentTo(p))
            = Len(told[p]) + Cardinality({s \in Signals : pending[p][s] # 0})

\* After a clean start a process hears of its left neighbour, then from it,
\* then from the right one, and has heard it all when it ends; only the first
\* turn may be taken for a second introduction, when it comes before
\* changeHandler (P2.c 182).
HeardInTurn ==
    Clean => \A p \in Procs :
        /\ \A k \in 1..Len(told[p]) :
              /\ k = 1 => told[p][k] = "intro"
              /\ k = 2 => told[p][k] \in {"intro", "left"}
              /\ k \in 3..Rounds + 1 => told[p][k] = "left"
              /\ k > 2 /\ k > Rounds + 1 => told[p][k] = "right"
        /\ phase[p] = "done" => Len(told[p]) = IF grouped THEN 1 ELSE 2 * Rounds + 1

\* After a clean start the signal that interrupts the wait for the left
\* neighbour is the introduction itself, so the neighbour is known after the
\* wait although its semaphore was not taken (getLeftFunc, P2.c 84-87).
LeftKnown ==
    Clean => \A p \in Procs :
        handler[p] = "circularHandler" \/ (grouped /\ phase[p] = "done") =>
            left[p] = getPreviousProcess(p) /\ right[p] = getNextProcess(p)

\* After a clean start of the group P2 to P4 end with the pid of P1, and P1 with
\* those of all: a message by which one of them introduced itself to its left
\* neighbour is never taken for the id of the group, though both have the
\* receiver's number for a type (main of group-signaling P1.c to P4.c).
GroupTold ==
    (Clean /\ grouped) =>
        /\ \A p \in Procs \ {1} : phase[p] = "done" => group[p] = 1
        /\ phase[1] = "done" => ToSet(allPIDs) = Procs \ {1}

\* SIGUSR2 does not come before a process has a handler for it (changeHandler,
\* P3.c 117-121), though processes may be started before P2 has cleaned up.  A
\* single turn would not be enough for that: semaphores an earlier run left up
\* then let P4 through both loops while P3, whose signal it got, is still at
\* the queue.
NobodyKilled == \A p \in Procs : pending[p]["USR2"] # 0 => handler[p] = "circularHandler"

\* Once all four run after a clean start, all four come to their end.
AllEnd ==
    (Clean /\ \A p \in Procs : phase[p] # "off") ~> (\A p \in Procs : phase[p] = "done")
=============================================================================
