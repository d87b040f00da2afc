------------------------------ MODULE MCResync ------------------------------
(* Two hosts that share one entry, and a path of each class. *)
EXTENDS Resync
CONSTANTS c1, b1, s1
OneEntry == <<[path |-> s1, sha |-> 1]>>
=============================================================================
