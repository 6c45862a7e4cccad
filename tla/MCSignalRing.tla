---------------------------- MODULE MCSignalRing ----------------------------
(* A small instance of SignalRingProperties for TLC. *)
EXTENDS SignalRingProperties, TLC

LeftOver == {<<1, 0>>}
=============================================================================
