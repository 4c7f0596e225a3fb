---------------------------- MODULE StartContract ----------------------------
(***************************************************************************)
(* What the backend promises of its one method, Start, with every          *)
(* mechanism removed: no bus queue, no owner cache, no engine.  A call is  *)
(* admitted only at an instant at which its sender owns the frontend name, *)
(* an admitted call gets exactly one answer, and a backend that stops has  *)
(* answered every call it admitted.  Backend.tla implements this module.   *)
(***************************************************************************)
CONSTANTS Calls, Peers, None

VARIABLES
    owner,   \* the owner of org.freedesktop.portal.Desktop, or None
    sender,  \* the peer that made each submitted call; its domain is the submitted calls
    call,    \* where each call stands
    stopped  \* the backend has left its main loop for good

vars == <<owner, sender, call, stopped>>

Submitted == DOMAIN sender
In(state) == {c \in Calls : call[c] = state}

Init ==
    /\ owner \in Peers \cup {None}
    /\ sender = [c \in {} |-> None]
    /\ call = [c \in Calls |-> "idle"]
    /\ stopped = FALSE

-----------------------------------------------------------------------------
(* The name changes hands at any time.                                     *)
ChangeOwner ==
    /\ owner' \in Peers \cup {None}
    /\ UNCHANGED <<sender, call, stopped>>

(* A peer submits a call.                                                   *)
Submit(c, p) ==
    /\ ~stopped
    /\ call[c] = "idle"
    /\ sender' = [d \in Submitted \cup {c} |-> IF d = c THEN p ELSE sender[d]]
    /\ call' = [call EXCEPT ![c] = "sent"]
    /\ UNCHANGED <<owner, stopped>>

(* A call of the present owner is admitted.                                 *)
Admit(c) ==
    /\ call[c] = "sent"
    /\ owner = sender[c]
    /\ call' = [call EXCEPT ![c] = "admitted"]
    /\ UNCHANGED <<owner, sender, stopped>>

(* A call of the present owner is answered at once, without a window.       *)
Settle(c) ==
    /\ call[c] = "sent"
    /\ owner = sender[c]
    /\ call' = [call EXCEPT ![c] = "answered"]
    /\ UNCHANGED <<owner, sender, stopped>>

(* Any call may be refused: the sender check errs on that side only.        *)
Deny(c) ==
    /\ call[c] = "sent"
    /\ call' = [call EXCEPT ![c] = "denied"]
    /\ UNCHANGED <<owner, sender, stopped>>

(* One event may answer several admitted calls, as the loss of the frontend *)
(* does.                                                                    *)
Conclude(S) ==
    /\ S # {}
    /\ S \subseteq In("admitted")
    /\ call' = [c \in Calls |-> IF c \in S THEN "answered" ELSE call[c]]
    /\ UNCHANGED <<owner, sender, stopped>>

(* Stopping answers what was admitted and loses what was not.               *)
Stop ==
    /\ ~stopped
    /\ stopped' = TRUE
    /\ call' = [c \in Calls |-> CASE call[c] = "admitted" -> "answered"
                                  [] call[c] = "sent"     -> "lost"
                                  [] OTHER                -> call[c]]
    /\ UNCHANGED <<owner, sender>>

Next ==
    \/ ChangeOwner
    \/ \E c \in Calls, p \in Peers : Submit(c, p)
    \/ \E c \in Calls : Admit(c) \/ Settle(c) \/ Deny(c)
    \/ \E S \in SUBSET Calls : Conclude(S)
    \/ Stop

Spec == Init /\ [][Next]_vars

-----------------------------------------------------------------------------
(* An answer is never withdrawn, changed or given twice, and no call goes   *)
(* back.                                                                    *)
FinalAnswers ==
    [][\A c \in Calls : call[c] \in {"answered", "denied", "lost"} => call'[c] = call[c]]_vars

(* Every admitted call is answered: the window always ends.                 *)
EveryAdmittedAnswered == \A c \in Calls : call[c] = "admitted" ~> call[c] = "answered"

(* Every call sent to a backend is answered, unless the backend stopped     *)
(* first.                                                                   *)
EverySentResolved ==
    \A c \in Calls : call[c] = "sent" ~> call[c] \in {"answered", "denied", "lost"}
=============================================================================
