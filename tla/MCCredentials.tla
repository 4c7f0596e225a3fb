---------------------------- MODULE MCCredentials ----------------------------
(* Credentials with transactions that overlap. *)
EXTENDS Credentials, TLC

Symmetric == Permutations(Transactions) \cup Permutations(Pins)
=============================================================================
