----------------------------- MODULE MCWebSession -----------------------------
(* One session among three hosts. *)
EXTENDS WebSession, TLC

AnyHost == Permutations(Hosts)
=============================================================================
