------------------------------ MODULE MCProcess ------------------------------
(***************************************************************************)
(* An instance and the one that may replace it, be refused by it or be     *)
(* left by it, and two calls: one may be accepted while the other is on    *)
(* its way.  Every pair of options is an initial state.                    *)
(***************************************************************************)
EXTENDS Process

CONSTANTS first, second, c1, c2

MCInstances == {first, second}
MCCalls == {c1, c2}
=============================================================================
