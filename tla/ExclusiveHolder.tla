--------------------------- MODULE ExclusiveHolder ---------------------------
(***************************************************************************)
(* What the ESS clients promise each other, without queue, sockets or       *)
(* descriptors: one client at most holds the right to talk to the server.   *)
(* A client that is not asking may take the right when nobody has it; the   *)
(* holder passes it to a client that asks, or drops it.                     *)
(***************************************************************************)
CONSTANTS Clients, None

VARIABLES holder, asking

Init ==
    /\ holder = None
    /\ asking = {}

\* The first client, which finds no queue, simply takes the right.
Acquire(c) ==
    /\ holder = None
    /\ c \notin asking
    /\ holder' = c
    /\ UNCHANGED asking

Ask(c) ==
    /\ c \notin asking
    /\ holder # c
    /\ asking' = asking \cup {c}
    /\ UNCHANGED holder

\* The right passes from its holder to a client that asks, and no other way.
Transfer(c, d) ==
    /\ holder = c
    /\ d \in asking \ {c}
    /\ holder' = d
    /\ UNCHANGED asking

\* A client that was passed the right notices, and asks no more.
Notice(c) ==
    /\ holder = c
    /\ c \in asking
    /\ asking' = asking \ {c}
    /\ UNCHANGED holder

\* The holder leaves without passing the right on.
Release(c) ==
    /\ holder = c
    /\ holder' = None
    /\ asking' = asking \ {c}

\* A client that asks is killed.
GiveUp(c) ==
    /\ c \in asking
    /\ holder # c
    /\ asking' = asking \ {c}
    /\ UNCHANGED holder

Next ==
    \/ \E c \in Clients : Acquire(c) \/ Ask(c) \/ Notice(c) \/ Release(c) \/ GiveUp(c)
    \/ \E c, d \in Clients : Transfer(c, d)

Spec == Init /\ [][Next]_<<holder, asking>>
=============================================================================
