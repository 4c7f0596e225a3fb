------------------------------ MODULE MCLifetime ------------------------------
(***************************************************************************)
(* Three transactions: two that handlers of one callback may end together, *)
(* and one whose Start or chooser may come between.                        *)
(***************************************************************************)
EXTENDS Lifetime

CONSTANTS a, b, c

MCTransactions == {a, b, c}
=============================================================================
