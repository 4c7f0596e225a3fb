------------------------------- MODULE Options -------------------------------
(***************************************************************************)
(* The timeout option of Start (src/options.c): a request without a usable *)
(* value gets the fallback, and no request gets more than the ceiling.     *)
(***************************************************************************)
EXTENDS Naturals

CONSTANT NotGiven   \* an options dictionary with no "timeout" of type u

ASSUME NotGivenAssumption == NotGiven \notin Nat

WEBAUTH_DEFAULT_TIMEOUT == 300
WEBAUTH_MAX_TIMEOUT == 900

AtMost(n, ceiling) == IF n < ceiling THEN n ELSE ceiling

(* mutant: zero means no deadline                                            *)
ZeroDisables(given, fallback, ceiling) ==
    AtMost(IF given = NotGiven THEN fallback ELSE given, ceiling)

webauth_options_timeout(given, fallback, ceiling) ==
    AtMost(IF given \in {NotGiven, 0} THEN fallback ELSE given, ceiling)
=============================================================================
