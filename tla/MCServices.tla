----------------------------- MODULE MCServices -----------------------------
(* The toll plaza, the dispatcher and the semaphore ring, one at a time. *)
EXTENDS Toll, Dispatcher, SemaphoreRing

CONSTANTS d1, d2, v1, v2,   \* toll plaza
          c1, c2, p1, p2, S1, S2 \* dispatcher

VARIABLE program

vars == <<program, tollVars, dispatcherVars, semaphoreVars>>

Init ==
    /\ program \in {"toll", "dispatcher", "semaphores"}
    /\ TollInit /\ DispatcherInit /\ SemaphoreInit

TollStep == program = "toll" /\ TollNext /\ UNCHANGED <<program, dispatcherVars, semaphoreVars>>
DispatcherStep ==
    program = "dispatcher" /\ DispatcherNext /\ UNCHANGED <<program, tollVars, semaphoreVars>>
SemaphoreStep ==
    program = "semaphores" /\ SemaphoreNext /\ UNCHANGED <<program, tollVars, dispatcherVars>>

Next == TollStep \/ DispatcherStep \/ SemaphoreStep

Spec == /\ Init /\ [][Next]_vars
        /\ TollFairness /\ DispatcherFairness /\ SemaphoreFairness
=============================================================================
