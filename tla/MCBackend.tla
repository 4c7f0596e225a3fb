------------------------------ MODULE MCBackend ------------------------------
(* Backend on a small bus. *)
EXTENDS Backend, TLC

Symmetric == Permutations(Peers) \cup Permutations(Calls)
SymmetricHandles == Symmetric \cup Permutations(Handles)
=============================================================================
