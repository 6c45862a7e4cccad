-------------------------------- MODULE MCESS --------------------------------
(* Small instances of ESSProperties for TLC. *)
EXTENDS ESSProperties, TLC

CONSTANTS c1, c2, c3

\* Every client started with its own client-no: the paths differ.  A client
\* stands for its own path, so permuting clients permutes paths with them.
OwnPaths == [c \in Clients |-> c]

Symmetric == Permutations(Clients) \cup Permutations(Conns) \cup Permutations(QIds)
=============================================================================
