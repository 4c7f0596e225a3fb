------------------------------- MODULE Lifetime -------------------------------
(***************************************************************************)
(* Who keeps a transaction, its impl Request and its web session alive:    *)
(* the reference counts of src/src/transaction.c and request-impl.c, taken *)
(* and dropped by handlers that run inside each other                      *)
(* (webauthentication-impl.c, webkit-session.c).                           *)
(*                                                                         *)
(* The program has one thread for all transactions; todo holds the calls   *)
(* it has still to make, and a call that makes others is replaced by them. *)
(* The main loop goes on when none is left: while a user looks at the      *)
(* certificate chooser it stands still.  A call on an object without       *)
(* references is a fault.                                                  *)
(***************************************************************************)
EXTENDS Integers, SequencesExt

CONSTANT Transactions

VARIABLES
    todo,
    refs,       \* ref_count of each transaction
    reqRefs,    \* references to its Request
    listed,     \* the transactions of the backend's list
    session,    \* its web session: "none", "alive" or "freed"
    exported,
    done,
    sources,    \* its armed callbacks, of {"deadline", "close"}
    answers,    \* how often its invocation has been answered
    fault

counts == <<refs, reqRefs>>
objects == <<listed, session, exported, done, sources, answers>>
vars == <<todo, counts, objects, fault>>

Init ==
    /\ todo = << >>
    /\ refs = [t \in Transactions |-> 0] /\ reqRefs = refs
    /\ listed = {}
    /\ session = [t \in Transactions |-> "none"]
    /\ exported = [t \in Transactions |-> FALSE] /\ done = exported
    /\ sources = [t \in Transactions |-> {}]
    /\ answers = refs
    /\ fault = FALSE

(* mutant: the constructor runs the main loop while it waits                *)
IdleInChooser == \A n \in DOMAIN todo : n > 1 \/ todo[n][1] = "acquire"

Idle == todo = << >>
Due(call, t) == todo # << >> /\ Head(todo) = <<call, t>>
Return == todo' = Tail(todo)
Calls(names, t) == [n \in 1 .. Len(names) |-> <<names[n], t>>]
Becomes(names, t) == todo' = Calls(names, t) \o Tail(todo)
Runs(calls) == todo' = calls \o todo
Touch(t) == fault' = (fault \/ refs[t] = 0)
TouchRequest(t) == fault' = (fault \/ reqRefs[t] = 0)

-----------------------------------------------------------------------------
(* The last reference to a transaction takes its callbacks along and lets   *)
(* go of the Request.                                                       *)
Ref(t) ==
    /\ Due("ref", t) /\ Return /\ Touch(t)
    /\ refs' = [refs EXCEPT ![t] = @ + 1]
    /\ UNCHANGED <<reqRefs, objects>>

(* mutant: the transaction goes without letting go of its Request           *)
UnrefKeepsRequest(t) ==
    /\ Due("unref", t) /\ Return /\ Touch(t)
    /\ refs' = [refs EXCEPT ![t] = @ - 1]
    /\ UNCHANGED <<reqRefs, objects>>

Unref(t) ==
    /\ Due("unref", t) /\ Touch(t)
    /\ refs' = [refs EXCEPT ![t] = @ - 1]
    /\ IF refs[t] = 1
         THEN Becomes(<<"unref_request">>, t) /\ sources' = [sources EXCEPT ![t] = {}]
         ELSE Return /\ UNCHANGED sources
    /\ UNCHANGED <<reqRefs, listed, session, exported, done, answers>>

RefRequest(t) ==
    /\ Due("ref_request", t) /\ Return /\ TouchRequest(t)
    /\ reqRefs' = [reqRefs EXCEPT ![t] = @ + 1]
    /\ UNCHANGED <<refs, objects>>

UnrefRequest(t) ==
    /\ Due("unref_request", t) /\ Return /\ TouchRequest(t)
    /\ reqRefs' = [reqRefs EXCEPT ![t] = @ - 1]
    /\ UNCHANGED <<refs, objects>>

-----------------------------------------------------------------------------
(* webauth_transaction_finish.                                              *)
FinishCalls ==
    <<"ref", "clear_sources", "teardown", "unexport", "reply", "forget", "unref">>

Finish(t) ==
    /\ Due("finish", t) /\ Touch(t)
    /\ IF done[t] THEN Return ELSE Becomes(FinishCalls, t)
    /\ done' = [done EXCEPT ![t] = TRUE]
    /\ UNCHANGED <<counts, listed, session, exported, sources, answers>>

ClearSources(t) ==
    /\ Due("clear_sources", t) /\ Return /\ Touch(t)
    /\ sources' = [sources EXCEPT ![t] = {}]
    /\ UNCHANGED <<counts, listed, session, exported, done, answers>>

(* mutant: the session goes without dropping its reference                  *)
TeardownKeepsRef(t) ==
    /\ Due("teardown", t) /\ Return /\ Touch(t)
    /\ session' = [session EXCEPT ![t] = "freed"]
    /\ UNCHANGED <<counts, listed, exported, done, sources, answers>>

(* teardown of webkit-session.c, which no_storage never set: the session    *)
(* goes, although one of its handlers may be the caller.                    *)
Teardown(t) ==
    /\ Due("teardown", t)
    /\ fault' = (fault \/ refs[t] = 0 \/ session[t] = "freed")
    /\ IF session[t] = "none"
         THEN Return /\ UNCHANGED session
         ELSE Becomes(<<"unref">>, t) /\ session' = [session EXCEPT ![t] = "freed"]
    /\ UNCHANGED <<counts, listed, exported, done, sources, answers>>

Unexport(t) ==
    /\ Due("unexport", t) /\ TouchRequest(t)
    /\ IF exported[t] THEN Becomes(<<"unref_request">>, t) ELSE Return
    /\ exported' = [exported EXCEPT ![t] = FALSE]
    /\ UNCHANGED <<counts, listed, session, done, sources, answers>>

Reply(t) ==
    /\ Due("reply", t) /\ Return /\ Touch(t)
    /\ answers' = [answers EXCEPT ![t] = @ + 1]
    /\ UNCHANGED <<counts, listed, session, exported, done, sources>>

ForgetTransaction(t) ==
    /\ Due("forget", t) /\ Touch(t)
    /\ IF t \in listed THEN Becomes(<<"unref">>, t) ELSE Return
    /\ listed' = listed \ {t}
    /\ UNCHANGED <<counts, session, exported, done, sources, answers>>

-----------------------------------------------------------------------------
(* handle_start: the Request is kept by the handler, the bus and the        *)
(* transaction; the transaction by the handler and the list, and by its     *)
(* session when one can be opened.                                          *)
HandleStart(t) ==
    /\ Idle /\ answers[t] = 0 /\ t \notin listed
    /\ refs' = [refs EXCEPT ![t] = 2] /\ reqRefs' = [reqRefs EXCEPT ![t] = 3]
    /\ exported' = [exported EXCEPT ![t] = TRUE]
    /\ listed' = listed \cup {t}
    /\ sources' = [sources EXCEPT ![t] = {"close"}]
    /\ Runs(Calls(<<"open", "unref", "unref_request">>, t))
    /\ UNCHANGED <<session, done, answers, fault>>

(* mutant: the window is presented and the deadline never armed             *)
SessionWithoutDeadline(t) ==
    /\ Due("open", t) /\ Return /\ Touch(t)
    /\ refs' = [refs EXCEPT ![t] = @ + 1]
    /\ session' = [session EXCEPT ![t] = "alive"]
    /\ UNCHANGED <<reqRefs, listed, exported, done, sources, answers>>

OpenSession(t) ==
    /\ Due("open", t) /\ Return /\ Touch(t)
    /\ refs' = [refs EXCEPT ![t] = @ + 1]
    /\ session' = [session EXCEPT ![t] = "alive"]
    /\ sources' = [sources EXCEPT ![t] = @ \cup {"deadline"}]
    /\ UNCHANGED <<reqRefs, listed, exported, done, answers>>

NoStorage(t) ==
    /\ Due("open", t) /\ Becomes(<<"finish">>, t) /\ Touch(t)
    /\ UNCHANGED <<counts, objects>>

-----------------------------------------------------------------------------
(* The main loop's callbacks: a signal of the view or the window, the       *)
(* deadline, and the loss of the frontend or a shutdown.                    *)
OnSession(t) ==
    /\ Idle /\ session[t] = "alive"
    /\ Runs(Calls(<<"finish">>, t))
    /\ UNCHANGED <<counts, objects, fault>>

OnDeadline(t) ==
    /\ Idle /\ "deadline" \in sources[t]
    /\ sources' = [sources EXCEPT ![t] = @ \ {"deadline"}]
    /\ Runs(Calls(<<"finish">>, t))
    /\ UNCHANGED <<counts, listed, session, exported, done, answers, fault>>

(* on_authenticate: the certificate constructor of the portal provider      *)
(* returns when the user has answered the chooser, and the handler goes on  *)
(* with its session.                                                        *)
OnAuthenticate(t) ==
    /\ Idle /\ session[t] = "alive"
    /\ Runs(Calls(<<"acquire">>, t))
    /\ UNCHANGED <<counts, objects, fault>>

Acquired(t) ==
    /\ Due("acquire", t) /\ Return
    /\ fault' = (fault \/ refs[t] = 0 \/ session[t] # "alive")
    /\ UNCHANGED <<counts, objects>>

(* cancel_all works on a copy of the list, with references of its own.      *)
CancelAll(order) ==
    LET each(call) == [n \in 1 .. Len(order) |-> <<call, order[n]>>]
    IN  /\ Idle
        /\ Runs(each("ref") \o each("finish") \o each("unref"))
        /\ UNCHANGED <<counts, objects, fault>>

(* Close.  The emission keeps the Request while on_request_close finishes   *)
(* its transaction; webauth_impl_request_handle_close then keeps it too.    *)
Emission(t) == reqRefs' = [reqRefs EXCEPT ![t] = @ + 1]

CloseCalls(t) ==
    Calls((IF "close" \in sources[t] THEN <<"finish">> ELSE << >>)
            \o <<"ref_request", "unexport", "unref_request", "unref_request">>, t)

OnRequestClose(t) ==
    /\ Idle /\ exported[t]
    /\ Emission(t)
    /\ Runs(CloseCalls(t))
    /\ UNCHANGED <<refs, objects, fault>>

Step(t) ==
    \/ Ref(t) \/ Unref(t) \/ RefRequest(t) \/ UnrefRequest(t)
    \/ Finish(t) \/ ClearSources(t) \/ Teardown(t) \/ Unexport(t) \/ Reply(t)
    \/ ForgetTransaction(t)
    \/ OpenSession(t) \/ NoStorage(t)

Next ==
    \/ \E t \in Transactions :
         \/ Step(t) \/ Acquired(t)
         \/ HandleStart(t) \/ OnSession(t) \/ OnDeadline(t) \/ OnAuthenticate(t)
         \/ OnRequestClose(t)
    \/ \E order \in SetToSeqs(listed) : CancelAll(order)

Spec == Init /\ [][Next]_vars

(* Code runs on; choosers are answered; and a turn of the main loop          *)
(* dispatches every source that was ready when it began, so a deadline that  *)
(* has passed is not overtaken for ever.                                     *)
FairSpec ==
    /\ Spec
    /\ \A t \in Transactions :
         WF_vars(Step(t)) /\ WF_vars(Acquired(t)) /\ SF_vars(OnDeadline(t))

-----------------------------------------------------------------------------
(* Properties.                                                              *)

(* "Teardown and the finished hook may drop the last external references"   *)
(* (transaction.c:147): in whatever order handlers run inside each other,   *)
(* none calls on a transaction, a Request or a session already freed, the   *)
(* one that waited for the user's choice of a certificate included.         *)
NoUseAfterFree == ~fault

One(holds) == IF holds THEN 1 ELSE 0

(* Between two callbacks of the main loop the references to a transaction   *)
(* are the list's and its session's, and those to its Request the           *)
(* transaction's and the bus's: no handler left one behind, or took one     *)
(* too many.                                                                *)
EveryRefHasAHolder ==
    Idle => \A t \in Transactions :
        /\ refs[t] = One(t \in listed) + One(session[t] = "alive")
        /\ reqRefs[t] = One(refs[t] > 0) + One(exported[t])

(* A transaction that is done has answered once and, when the handler that  *)
(* ended it returns, is freed with its Request, its session and its         *)
(* callbacks.                                                               *)
DoneIsFreed ==
    Idle => \A t \in Transactions : done[t] =>
        /\ answers[t] = 1
        /\ refs[t] = 0 /\ reqRefs[t] = 0 /\ session[t] # "alive" /\ sources[t] = {}

(* A listed transaction ends: however many sessions are challenged, and in  *)
(* whatever order choosers open before it, its deadline gets its turn.      *)
ListedEnds == \A t \in Transactions : t \in listed ~> done[t]
=============================================================================
