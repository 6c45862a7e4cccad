------------------------------ MODULE MCRelay ------------------------------
(* Small instances of RelayProperties for TLC. *)
EXTENDS RelayProperties, TLC

CONSTANTS p1, p2, c1, c2

PackageNumbers == [p \in Packages |-> IF p = p1 THEN 1 ELSE 2]
ClientNumbers == [c \in Clients |-> IF c = c1 THEN 10 ELSE 20]
Addresses == [c \in Clients |-> c]
=============================================================================
