------------------------------ MODULE MCCricket ------------------------------
(* Small instances of CricketProperties for TLC. *)
EXTENDS CricketProperties

\* Fielders are named by their command-line numbers.
EachNumber == [f \in Fielders |-> f]

\* A boundary that counts 6, and shots where the ranges of fielders 2 and 3 meet.
Shots == {18, 25, 26}
=============================================================================
