----------------------------- MODULE RoundRobin -----------------------------
(***************************************************************************)
(* What the four signalling processes are for: one signal at a time goes    *)
(* round the ring, once to get acquainted, Rounds times from left to right  *)
(* (SIGUSR1), then Rounds times from right to left (SIGUSR2).  P1 begins.   *)
(***************************************************************************)
EXTENDS Integers, Sequences

CONSTANT Rounds   \* turns in each direction

VARIABLE sends   \* the signals sent so far

Length == 4 * (2 * Rounds + 1)

\* The signal that follows n others: P1 sends the first of each round, then
\* P2, P3, P4 on the way forward and P4, P3, P2 on the way back.
Turn(n) ==
    LET back == ((4 - (n % 4)) % 4) + 1
    IN  IF n < 4 * (Rounds + 1)
        THEN [from |-> (n % 4) + 1, to |-> ((n + 1) % 4) + 1, sig |-> "USR1"]
        ELSE [from |-> back, to |-> ((back + 2) % 4) + 1, sig |-> "USR2"]

Init == sends = <<>>

Next == Len(sends) < Length /\ sends' = Append(sends, Turn(Len(sends)))

Spec == Init /\ [][Next]_sends
=============================================================================
