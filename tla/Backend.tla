------------------------------- MODULE Backend -------------------------------
(***************************************************************************)
(* The backend process as its callers see it: the main loop of main.c, the *)
(* sender check and transaction list of webauthentication-impl.c, the life *)
(* of a transaction (transaction.c) and of its impl Request                *)
(* (request-impl.c).  The WebKit session of a transaction appears only     *)
(* through the events by which it ends the transaction, and through the    *)
(* certificate chooser, in which the main context waits for a user.        *)
(*                                                                         *)
(* The process has one thread that matters here, the main context.  GDBus  *)
(* hands it messages in bus order: `inbox'.  A synchronous call runs no    *)
(* main-context source, but the bus moves on during it, so a handler is    *)
(* cut exactly at its synchronous owner lookups: `pc' says which lookup    *)
(* the handler of Head(inbox) is waiting for.  The same variable says when *)
(* the loop is held up in a session's chooser.                             *)
(*                                                                         *)
(* Delivery from the bus is not delayed: everything the bus sent before it *)
(* answered a lookup is read before that answer, so the inbox at the end   *)
(* of a lookup is the same as with a delayed connection.                   *)
(***************************************************************************)
EXTENDS Integers, Sequences, Options

CONSTANTS
    Peers,             \* unique names on the session bus
    Calls,             \* Start calls; a call also names the transaction it creates
    Closes,            \* Close calls
    Handles,           \* Request object paths
    TimeoutRequests,   \* values of the timeout option
    None,              \* no owner, and the NULL owner cache
    NoCall,            \* no request is exported
    MaxOwnerChanges,   \* bound on changes of the frontend name
    MaxFailedLookups   \* bound on GetNameOwner calls that fail although the name is owned

ASSUME NoneAssumption == None \notin Peers
ASSUME NoCallAssumption == NoCall \notin Calls
ASSUME TimeoutAssumption == TimeoutRequests \subseteq Nat \cup {NotGiven}
ASSUME BoundAssumption == MaxOwnerChanges \in Nat /\ MaxFailedLookups \in Nat

VARIABLES
    owner,          \* bus: the owner of org.freedesktop.portal.Desktop
    inbox,          \* messages queued for the main context, the one being handled included
    phase,          \* "off", "running", "quitting" (loop told to quit) or "exited"
    watch,          \* name watcher: "none", "asked", "answered" (reply queued), "settled"
    frontend_owner, \* the owner cache
    owner_resolved,
    pc,             \* what the main context waits for: a lookup, a chooser, or "idle"
    transactions,   \* the transaction list
    done,           \* transactions whose finish has begun: the guard of a single answer
    exported,       \* the call whose Request is exported at a handle, or NoCall
    sessions,       \* calls with a WebKit session, its window and connected callbacks
    deadlines,      \* calls whose deadline source is installed
    request,        \* what each call asked; its domain is the calls sent
    reply,          \* the answer to each Start
    closing,        \* the answer to each Close
    ownerChanges,   \* bounds
    failedLookups

bus == <<owner, request, ownerChanges>>
cache == <<frontend_owner, owner_resolved>>
tx == <<transactions, done, exported, sessions, deadlines, reply>>
vars == <<owner, inbox, phase, watch, frontend_owner, owner_resolved, pc, transactions,
          done, exported, sessions, deadlines, request, reply, closing, ownerChanges, failedLookups>>

-----------------------------------------------------------------------------
Owners == Peers \cup {None}
NoTenure == -1

(* `valid' abstracts the URI and session_mode checks of handle_start.       *)
(* `tenure' is no part of the message: it records for the properties during *)
(* which ownership its sender made the call, NoTenure if it owned nothing.  *)
Request == [sender : Peers, handle : Handles, valid : BOOLEAN, timeout : TimeoutRequests,
            tenure : {NoTenure} \cup 0 .. MaxOwnerChanges]

StartMsg == [type : {"Start"}, call : Calls]
CloseMsg == [type : {"Close"}, close : Closes, sender : Peers, call : Calls]
NoticeMsg == [type : {"NameOwnerChanged"}, old : Owners, new : Owners]
WatchMsg == [type : {"GetNameOwnerReply"}, new : Owners]
Message == StartMsg \cup CloseMsg \cup NoticeMsg \cup WatchMsg

Terminal == {"completed", "user_cancelled", "request_closed", "timeout", "load_failed",
             "tls_error", "session_terminated"}
Refused == {"access_denied"}
Answers == Terminal \cup Refused \cup {"invalid_request", "no_storage"}
CloseAnswers == {"ok", "access_denied", "unknown_method", "lost"}

Sent == DOMAIN request
Up == phase \in {"running", "quitting"}
Idle == Up /\ pc = "idle"
Delivers(type) == Idle /\ inbox # <<>> /\ Head(inbox).type = type

(* Two uses of Head(inbox): the Start or the Close being handled.           *)
Call == Head(inbox).call
Caller == IF Head(inbox).type = "Start" THEN request[Call].sender ELSE Head(inbox).sender
Handled == pc' = "idle" /\ inbox' = Tail(inbox)

Init ==
    /\ owner \in Owners
    /\ inbox = <<>>
    /\ phase = "off"
    /\ watch = "none"
    /\ frontend_owner = None
    /\ owner_resolved = FALSE
    /\ pc = "idle"
    /\ transactions = {}
    /\ done = {}
    /\ exported = [h \in Handles |-> NoCall]
    /\ sessions = {}
    /\ deadlines = {}
    /\ request = [c \in {} |-> None]
    /\ reply = [c \in Calls |-> "none"]
    /\ closing = [k \in Closes |-> "unsent"]
    /\ ownerChanges = 0
    /\ failedLookups = 0

-----------------------------------------------------------------------------
(* The bus and its peers.                                                   *)

(* The name is acquired, released or taken over; the watcher is told.       *)
ChangeOwner(new) ==
    /\ Up
    /\ new # owner
    /\ ownerChanges < MaxOwnerChanges
    /\ owner' = new
    /\ ownerChanges' = ownerChanges + 1
    /\ inbox' = Append(inbox, [type |-> "NameOwnerChanged", old |-> owner, new |-> new])
    /\ UNCHANGED <<phase, watch, cache, pc, tx, request, closing, failedLookups>>

SendStart(c, p, h, valid, timeout) ==
    /\ Up
    /\ c \notin Sent
    /\ request' = [d \in Sent \cup {c} |->
                     IF d = c
                       THEN [sender |-> p, handle |-> h, valid |-> valid, timeout |-> timeout,
                             tenure |-> IF p = owner THEN ownerChanges ELSE NoTenure]
                       ELSE request[d]]
    /\ inbox' = Append(inbox, [type |-> "Start", call |-> c])
    /\ UNCHANGED <<owner, phase, watch, cache, pc, tx, closing, ownerChanges, failedLookups>>

(* GDBus looks the object up when a Close arrives, not when it dispatches   *)
(* it: a Close of a path with no Request fails at once, even if the Start   *)
(* that would export it is in the inbox.                                    *)
SendClose(k, p, h) ==
    /\ Up
    /\ closing[k] = "unsent"
    /\ IF exported[h] = NoCall
         THEN /\ closing' = [closing EXCEPT ![k] = "unknown_method"]
              /\ UNCHANGED inbox
         ELSE /\ closing' = [closing EXCEPT ![k] = "queued"]
              /\ inbox' = Append(inbox, [type |-> "Close", close |-> k, sender |-> p,
                                         call |-> exported[h]])
    /\ UNCHANGED <<bus, phase, watch, cache, pc, tx, failedLookups>>

(* The answer to the query with which g_bus_watch_name starts.              *)
BusAnswersWatch ==
    /\ Up
    /\ watch = "asked"
    /\ watch' = "answered"
    /\ inbox' = Append(inbox, [type |-> "GetNameOwnerReply", new |-> owner])
    /\ UNCHANGED <<bus, phase, cache, pc, tx, closing, failedLookups>>

-----------------------------------------------------------------------------
(* Ending transactions.                                                     *)

(* webauth_transaction_finish for every call of S, except those already     *)
(* done: source and signal removal, session teardown, unexport, reply,      *)
(* finished hook.                                                           *)
NotDone(S) == S \ done
DeadlinesKept(S) == deadlines  \* mutant: the source outlives the transaction
DeadlinesWithout(S) == deadlines \ S
Teardown(S) == sessions \ S
LateUnexport(S) == exported  \* mutant: the Request stays on the bus
Unexport(S) == [h \in Handles |-> IF exported[h] \in S THEN NoCall ELSE exported[h]]
ForgetTransaction(S) == transactions \ S

Finish(S, answer) ==
    /\ done' = done \cup S
    /\ deadlines' = DeadlinesWithout(NotDone(S))
    /\ sessions' = Teardown(NotDone(S))
    /\ exported' = Unexport(NotDone(S))
    /\ reply' = [c \in Calls |-> IF c \in NotDone(S) THEN answer ELSE reply[c]]
    /\ transactions' = ForgetTransaction(NotDone(S))

(* mutant: the loop runs over the live list, which the finished hook shrinks *)
CancelFirst ==
    Finish(IF transactions = {} THEN {} ELSE {CHOOSE c \in transactions : TRUE},
           "session_terminated")
CancelAll == Finish(transactions, "session_terminated")

-----------------------------------------------------------------------------
(* The name watcher.  A notice that overtakes the watcher's first reply is  *)
(* ignored; a change from one owner to another is vanished, then appeared.  *)

OnFrontendVanished == frontend_owner' = None /\ CancelAll
(* mutants: the cache is left to lookups; a new owner ends the old windows    *)
AppearedUncached(new) == UNCHANGED <<frontend_owner, tx>>
AppearedCancels(new) == frontend_owner' = new /\ CancelAll
OnFrontendAppeared(new) == frontend_owner' = new /\ UNCHANGED tx

OnGetNameOwnerReply ==
    /\ Delivers("GetNameOwnerReply")
    /\ watch' = "settled"
    /\ IF Head(inbox).new = None THEN OnFrontendVanished ELSE OnFrontendAppeared(Head(inbox).new)
    /\ Handled
    /\ UNCHANGED <<bus, phase, owner_resolved, closing, failedLookups>>

(* mutant: a takeover is reported as appeared, then vanished                  *)
VanishedLast ==
    /\ Delivers("NameOwnerChanged")
    /\ IF watch # "settled"
         THEN UNCHANGED <<cache, tx>>
         ELSE /\ UNCHANGED owner_resolved
              /\ IF Head(inbox).old = None
                   THEN OnFrontendAppeared(Head(inbox).new)
                   ELSE OnFrontendVanished
    /\ Handled
    /\ UNCHANGED <<bus, phase, watch, closing, failedLookups>>

OnNameOwnerChanged ==
    /\ Delivers("NameOwnerChanged")
    /\ IF watch # "settled"
         THEN UNCHANGED <<cache, tx>>
         ELSE /\ UNCHANGED owner_resolved
              /\ IF Head(inbox).old = None
                   THEN OnFrontendAppeared(Head(inbox).new)
                   ELSE frontend_owner' = Head(inbox).new /\ CancelAll
    /\ Handled
    /\ UNCHANGED <<bus, phase, watch, closing, failedLookups>>

-----------------------------------------------------------------------------
(* The sender check.  The cache may refuse by itself; acceptance takes a    *)
(* lookup.  A failed lookup leaves a NULL cache.  The bus answers one       *)
(* connection's queries in order, so no lookup is answered before the       *)
(* watcher's own query; one that fails by its timeout may return first.     *)
CachedLookup == {owner, frontend_owner}  \* mutant: the cache may accept
LookupResults ==
    (IF watch # "asked" THEN {owner} ELSE {})
      \cup (IF failedLookups < MaxFailedLookups THEN {None} ELSE {})

ResolveFrontendOwner(result) ==
    /\ owner_resolved' = TRUE
    /\ frontend_owner' = result
    /\ failedLookups' = IF watch # "asked" /\ result = owner THEN failedLookups
                                                            ELSE failedLookups + 1

CacheRefuses == frontend_owner # Caller

(* mutants: the message is released before the lookup that needs it; a        *)
(* refusal forgets to answer                                                 *)
ReleasedEarly ==
    /\ Delivers("Start")
    /\ IF owner_resolved /\ CacheRefuses
         THEN reply' = [reply EXCEPT ![Call] = "access_denied"] /\ Handled
         ELSE /\ pc' = IF owner_resolved THEN "verify" ELSE "resolve"
              /\ inbox' = Tail(inbox) /\ UNCHANGED reply
    /\ UNCHANGED <<bus, phase, watch, cache, transactions, done, exported, sessions,
                   deadlines, closing, failedLookups>>
SilentRefusal ==
    /\ Delivers("Start")
    /\ IF owner_resolved /\ CacheRefuses
         THEN Handled
         ELSE pc' = (IF owner_resolved THEN "verify" ELSE "resolve") /\ UNCHANGED inbox
    /\ UNCHANGED <<bus, phase, watch, cache, tx, closing, failedLookups>>

(* Handle a Start as far as the first lookup: refuse from the cache, or go  *)
(* and ask the bus (twice if the cache was never resolved).                 *)
DispatchStart ==
    /\ Delivers("Start")
    /\ IF owner_resolved /\ CacheRefuses
         THEN /\ reply' = [reply EXCEPT ![Call] = "access_denied"]
              /\ Handled
         ELSE /\ pc' = IF owner_resolved THEN "verify" ELSE "resolve"
              /\ UNCHANGED <<inbox, reply>>
    /\ UNCHANGED <<bus, phase, watch, cache, transactions, done, exported, sessions,
                   deadlines, closing, failedLookups>>

ResolveForStart ==
    /\ Up /\ pc = "resolve"
    /\ \E result \in LookupResults :
         /\ ResolveFrontendOwner(result)
         /\ IF result # Caller
              THEN reply' = [reply EXCEPT ![Call] = "access_denied"] /\ Handled
              ELSE pc' = "verify" /\ UNCHANGED <<inbox, reply>>
    /\ UNCHANGED <<bus, phase, watch, transactions, done, exported, sessions, deadlines,
                   closing>>

(* The rest of handle_start, once the sender is accepted.                   *)
HandleFree == exported[request[Call].handle] = NoCall
StartIsServable == request[Call].valid /\ HandleFree

AnswerAtOnce(answer) ==
    /\ reply' = [reply EXCEPT ![Call] = answer]
    /\ UNCHANGED <<transactions, done, exported, sessions, deadlines>>

StartDeadline(c) ==
    LET seconds == webauth_options_timeout(request[c].timeout, WEBAUTH_DEFAULT_TIMEOUT,
                                           WEBAUTH_MAX_TIMEOUT)
    IN  IF seconds = 0 THEN deadlines ELSE deadlines \cup {c}

(* Request exported, transaction listed, session created and presented.     *)
Admit(c) ==
    /\ exported' = [exported EXCEPT ![request[c].handle] = c]
    /\ transactions' = transactions \cup {c}
    /\ sessions' = sessions \cup {c}
    /\ deadlines' = StartDeadline(c)
    /\ UNCHANGED <<done, reply>>

(* Session creation failed: the new transaction is finished in the same      *)
(* handler, which withdraws the Request it had exported.                    *)
AbortStart(c) ==
    /\ done' = done \cup {c}
    /\ reply' = [reply EXCEPT ![c] = "no_storage"]
    /\ UNCHANGED <<transactions, exported, sessions, deadlines>>

(* mutant: no return after the answer to an invalid request                   *)
FallsThrough ==
    IF StartIsServable
      THEN Admit(Call) \/ AbortStart(Call)
      ELSE /\ reply' = [reply EXCEPT ![Call] = "invalid_request"]
           /\ exported' = [exported EXCEPT ![request[Call].handle] = Call]
           /\ transactions' = transactions \cup {Call}
           /\ sessions' = sessions \cup {Call}
           /\ deadlines' = StartDeadline(Call)
           /\ UNCHANGED done

HandleStart ==
    IF StartIsServable
      THEN Admit(Call) \/ AbortStart(Call)
      ELSE AnswerAtOnce("invalid_request")

VerifyStart ==
    /\ Up /\ pc = "verify"
    /\ \E result \in LookupResults :
         /\ ResolveFrontendOwner(result)
         /\ IF result # Caller THEN AnswerAtOnce("access_denied") ELSE HandleStart
    /\ Handled
    /\ UNCHANGED <<bus, phase, watch, closing>>

-----------------------------------------------------------------------------
(* Close: the transaction's handler checks the sender and finishes, then    *)
(* the Request's default handler checks again and answers.                  *)
AnswerClose(answer) ==
    /\ closing' = [closing EXCEPT ![Head(inbox).close] = answer]
    /\ Handled

StillExported(c) == \E h \in Handles : exported[h] = c

(* GDBus drops a Close whose Request was unexported while it was queued;    *)
(* a cached refusal refuses twice without a lookup.                         *)
DispatchClose ==
    /\ Delivers("Close")
    /\ IF ~StillExported(Call) THEN AnswerClose("unknown_method")
       ELSE IF CacheRefuses THEN AnswerClose("access_denied")
       ELSE pc' = "close_first" /\ UNCHANGED <<inbox, closing>>
    /\ UNCHANGED <<bus, phase, watch, cache, tx, failedLookups>>

(* mutants: the handler leaves the ending to the default handler; it claims   *)
(* the Close as handled                                                      *)
CloseWithoutFinish ==
    /\ Up /\ pc = "close_first"
    /\ \E result \in LookupResults :
         /\ ResolveFrontendOwner(result)
         /\ IF result # Caller THEN AnswerClose("access_denied")
                               ELSE pc' = "close_second" /\ UNCHANGED <<inbox, closing>>
    /\ UNCHANGED <<bus, phase, watch, tx>>
CloseClaimed ==
    /\ Up /\ pc = "close_first"
    /\ \E result \in LookupResults :
         /\ ResolveFrontendOwner(result)
         /\ IF result # Caller THEN AnswerClose("access_denied") /\ UNCHANGED tx
                               ELSE Finish({Call}, "request_closed") /\ Handled /\ UNCHANGED closing
    /\ UNCHANGED <<bus, phase, watch>>

(* on_request_close; a refusal here leaves a cache that refuses at once in  *)
(* the default handler.                                                     *)
OnRequestClose ==
    /\ Up /\ pc = "close_first"
    /\ \E result \in LookupResults :
         /\ ResolveFrontendOwner(result)
         /\ IF result # Caller
              THEN AnswerClose("access_denied") /\ UNCHANGED tx
              ELSE /\ Finish({Call}, "request_closed")
                   /\ pc' = "close_second"
                   /\ UNCHANGED <<inbox, closing>>
    /\ UNCHANGED <<bus, phase, watch>>

(* webauth_impl_request_handle_close: the second check, and the answer.     *)
HandleClose ==
    /\ Up /\ pc = "close_second"
    /\ \E result \in LookupResults :
         /\ ResolveFrontendOwner(result)
         /\ IF result # Caller
              THEN AnswerClose("access_denied") /\ UNCHANGED exported
              ELSE AnswerClose("ok") /\ exported' = Unexport({Call})
    /\ UNCHANGED <<bus, phase, watch, transactions, done, sessions, deadlines, reply>>

-----------------------------------------------------------------------------
(* The other ways a transaction ends.                                       *)

OnDeadline(c) ==
    /\ Idle
    /\ c \in deadlines
    /\ Finish({c}, "timeout")
    /\ UNCHANGED <<bus, inbox, phase, watch, cache, pc, closing, failedLookups>>

EndSession(c, answer) ==
    /\ Idle
    /\ c \in sessions
    /\ Finish({c}, answer)
    /\ UNCHANGED <<bus, inbox, phase, watch, cache, pc, closing, failedLookups>>

OnCancel(c) == EndSession(c, "user_cancelled")
CompleteOn(c) == EndSession(c, "completed")
OnLoadFailed(c) == EndSession(c, "load_failed")
OnLoadFailedTls(c) == EndSession(c, "tls_error")
OnWebProcessTerminated(c) == EndSession(c, "session_terminated")

(* A certificate challenge of any session: its handler constructs the       *)
(* certificate synchronously, for as long as the user leaves the chooser    *)
(* open.  Neither messages nor deadlines are dispatched meanwhile.          *)
OnAuthenticate ==
    /\ Idle
    /\ sessions # {}
    /\ pc' = "choosing"
    /\ UNCHANGED <<bus, inbox, phase, watch, cache, tx, closing, failedLookups>>

Acquired ==
    /\ Up /\ pc = "choosing"
    /\ pc' = "idle"
    /\ UNCHANGED <<bus, inbox, phase, watch, cache, tx, closing, failedLookups>>

Chooser == OnAuthenticate \/ Acquired

-----------------------------------------------------------------------------
(* The process.                                                             *)

Launch ==
    /\ phase = "off"
    /\ phase' = "running"
    /\ watch' = "asked"
    /\ UNCHANGED <<bus, inbox, cache, pc, tx, closing, failedLookups>>

(* A signal, or the loss of the backend's own bus name.  Sources already    *)
(* due in this iteration of the loop still run.                             *)
Quit ==
    /\ phase = "running" /\ pc = "idle"
    /\ phase' = "quitting"
    /\ UNCHANGED <<bus, inbox, watch, cache, pc, tx, closing, failedLookups>>

(* mutant: the connection goes down with transactions still open              *)
AbruptShutdown ==
    /\ phase = "quitting" /\ pc = "idle"
    /\ phase' = "exited"
    /\ inbox' = <<>>
    /\ closing' = [k \in Closes |-> IF closing[k] = "queued" THEN "lost" ELSE closing[k]]
    /\ UNCHANGED <<bus, watch, cache, pc, tx, failedLookups>>

(* The main loop has returned: cancel everything, flush, disconnect.  The   *)
(* bus fails the calls that were never dispatched.                          *)
Shutdown ==
    /\ phase = "quitting" /\ pc = "idle"
    /\ phase' = "exited"
    /\ CancelAll
    /\ inbox' = <<>>
    /\ closing' = [k \in Closes |-> IF closing[k] = "queued" THEN "lost" ELSE closing[k]]
    /\ UNCHANGED <<bus, watch, cache, pc, failedLookups>>

Exited == phase = "exited" /\ UNCHANGED vars

-----------------------------------------------------------------------------
Peer ==
    \/ \E new \in Owners : ChangeOwner(new)
    \/ \E c \in Calls, p \in Peers, h \in Handles, valid \in BOOLEAN, t \in TimeoutRequests :
         SendStart(c, p, h, valid, t)
    \/ \E k \in Closes, p \in Peers, h \in Handles : SendClose(k, p, h)

MainContext ==
    \/ OnGetNameOwnerReply
    \/ OnNameOwnerChanged
    \/ DispatchStart \/ ResolveForStart \/ VerifyStart
    \/ DispatchClose \/ OnRequestClose \/ HandleClose

Engine(c) ==
    \/ OnCancel(c) \/ CompleteOn(c) \/ OnLoadFailed(c) \/ OnLoadFailedTls(c)
    \/ OnWebProcessTerminated(c)

Next ==
    \/ Peer
    \/ BusAnswersWatch
    \/ MainContext
    \/ \E c \in Calls : OnDeadline(c) \/ Engine(c)
    \/ Chooser
    \/ Launch \/ Quit \/ Shutdown \/ Exited

Spec == Init /\ [][Next]_vars

(* What the program rests on: lookups return within their 1000 ms, and      *)
(* every chooser is answered some time (the code puts no limit on it, so    *)
(* this is an assumption about users and the certificate portal).  Given    *)
(* these a turn of the main loop ends, and each turn dispatches every       *)
(* message and every due timer that was ready when it began, and returns if *)
(* the loop was told to quit: however often choosers open in between, none  *)
(* is put off for ever.  Nothing is assumed of peers, pages or the engine.  *)
Fairness ==
    /\ WF_vars(BusAnswersWatch)
    /\ WF_vars(Acquired)
    /\ SF_vars(MainContext)
    /\ \A c \in Calls : SF_vars(OnDeadline(c))
    /\ SF_vars(Shutdown)

FairSpec == Spec /\ Fairness

-----------------------------------------------------------------------------
(* Properties.                                                              *)

(* The variables keep their types; a Start is queued only after it was      *)
(* sent, and a handler that waits for a lookup has its message at the head  *)
(* of the inbox.                                                            *)
OwnerTypes ==
    /\ owner \in Owners
    /\ frontend_owner \in Owners
    /\ owner_resolved \in BOOLEAN
    /\ watch \in {"none", "asked", "answered", "settled"}
    /\ phase \in {"off", "running", "quitting", "exited"}
    /\ ownerChanges \in 0 .. MaxOwnerChanges
    /\ failedLookups \in 0 .. MaxFailedLookups

TransactionTypes ==
    /\ transactions \in SUBSET Calls
    /\ done \in SUBSET Calls
    /\ sessions \in SUBSET Calls
    /\ deadlines \in SUBSET Calls
    /\ exported \in [Handles -> Calls \cup {NoCall}]
    /\ reply \in [Calls -> Answers \cup {"none"}]

CallTypes ==
    /\ Sent \subseteq Calls
    /\ request \in [Sent -> Request]
    /\ closing \in [Closes -> CloseAnswers \cup {"unsent", "queued"}]

InboxTypes ==
    /\ inbox \in Seq(Message)
    /\ \A i \in 1 .. Len(inbox) : inbox[i] \in StartMsg => inbox[i].call \in Sent

HandlerTypes ==
    /\ pc \in {"idle", "resolve", "verify", "close_first", "close_second", "choosing"}
    /\ pc \in {"resolve", "verify"} => inbox # <<>> /\ Head(inbox) \in StartMsg
    /\ pc \in {"close_first", "close_second"} => inbox # <<>> /\ Head(inbox) \in CloseMsg

TypeOK == OwnerTypes /\ TransactionTypes /\ CallTypes /\ InboxTypes /\ HandlerTypes

Queued(message) == \E i \in 1 .. Len(inbox) : inbox[i] = message
DepartureQueued(p) == \E new \in Owners :
    Queued([type |-> "NameOwnerChanged", old |-> p, new |-> new])
NoticeQueued == \E i \in 1 .. Len(inbox) : inbox[i] \in NoticeMsg

(* Once the watcher knows the owner and no notice is on its way, the cache  *)
(* is right, unless a lookup failed: lookups and notices race for it, and   *)
(* the notices win (webauthentication-impl.c, set_frontend_owner's callers).*)
CacheConverges ==
    Up /\ watch = "settled" /\ ~NoticeQueued /\ failedLookups = 0 => frontend_owner = owner

(* The frontend vanishing cancels every transaction: while the loop runs, a *)
(* transaction whose caller no longer owns the name has the notice that     *)
(* will end it still ahead of it in the inbox.                              *)
NoOrphan ==
    Up => \A c \in transactions :
            request[c].sender = owner \/ DepartureQueued(request[c].sender)

(* A Request is reachable exactly while its transaction runs, so a Close    *)
(* never reaches a finished transaction and a running one can always be     *)
(* closed.                                                                  *)
ExportedExactlyWhileLive ==
    /\ \A h \in Handles : exported[h] # NoCall =>
         exported[h] \in transactions /\ request[exported[h]].handle = h
    /\ \A c \in transactions : exported[request[c].handle] = c

(* Every pointer into a transaction (deadline source, session callbacks,    *)
(* list entry) is dropped by the finish that answers it, and a listed       *)
(* transaction always has the window and the deadline that can end it.      *)
CallbacksExactlyWhileLive ==
    /\ sessions = transactions
    /\ deadlines = transactions
    /\ transactions \cap done = {}
    /\ \A c \in transactions : reply[c] = "none"

(* The inductive invariant behind the three above.  A Start waits in the    *)
(* inbox once, untouched until it is handled; a transaction is what its     *)
(* handler made of a sent call, done only with an answer.                   *)
StartsWaitOnce ==
    \A i, j \in 1 .. Len(inbox) :
        inbox[i] \in StartMsg =>
            /\ inbox[i].call \notin transactions \cup done
            /\ reply[inbox[i].call] = "none"
            /\ inbox[j] = inbox[i] => i = j

TransactionsAreSent ==
    /\ transactions \cup done \subseteq Sent
    /\ \A c \in done : reply[c] # "none"
    /\ \A c \in Calls \ Sent : reply[c] = "none"

(* Between its two lookups a Close holds a running transaction, after the   *)
(* second it has ended it.                                                  *)
CloseTarget ==
    /\ pc = "close_first" => Call \in transactions
    /\ pc = "close_second" => Call \in done

(* The watcher's first reply comes before every notice that matters to a    *)
(* transaction, because no lookup is answered before it is queued.          *)
WatchQueued(i) == \E j \in 1 .. (i - 1) : inbox[j] \in WatchMsg
HeededDeparture(p) ==
    \E i \in 1 .. Len(inbox) : /\ inbox[i] \in NoticeMsg /\ inbox[i].old = p
                               /\ watch = "settled" \/ WatchQueued(i)
WatchIsAhead ==
    /\ watch = "none" <=> phase = "off"
    /\ watch = "answered" /\ Up => WatchQueued(Len(inbox) + 1)
    /\ transactions # {} => watch \in {"answered", "settled"}
    /\ Up => \A c \in transactions :
               request[c].sender = owner \/ HeededDeparture(request[c].sender)

Inv ==
    /\ TypeOK
    /\ ExportedExactlyWhileLive
    /\ CallbacksExactlyWhileLive
    /\ StartsWaitOnce
    /\ TransactionsAreSent
    /\ CloseTarget
    /\ WatchIsAhead

(* No Start is answered twice.                                              *)
AnswersAreFinal == [][\A c \in Calls : reply[c] # "none" => reply'[c] = reply[c]]_vars

(* Whatever a Start obtains beyond a refusal, it obtains in a step in which *)
(* its sender owns the frontend name on the bus, not in the cache.          *)
Obtains(c) == c \in transactions' \/ reply'[c] \notin {"none", "access_denied"}
ServedOnlyToOwner ==
    [][\A c \in Sent : reply[c] = "none" /\ c \notin transactions /\ Obtains(c)
         => request[c].sender = owner]_vars

(* The sender of c has owned the name since before it sent c.               *)
InTenure(c) == request[c].tenure = ownerChanges

(* With no failed lookup, a frontend that keeps the name is never refused.  *)
FrontendNotRefused ==
    [][\A c \in Sent : reply[c] = "none" /\ reply'[c] = "access_denied" /\ failedLookups' = 0
         => ~InTenure(c)]_vars

(* A notice, late or early, never ends the transaction of a frontend that   *)
(* kept the name since it sent the call.                                    *)
WatchEvent == Idle /\ (OnGetNameOwnerReply \/ OnNameOwnerChanged)
NoticesSpareTheFrontend ==
    [][WatchEvent => \A c \in transactions \ transactions' : ~InTenure(c)]_vars

(* A Close answered with success has ended its transaction.                 *)
CloseEnds ==
    [][\A k \in Closes : closing[k] = "queued" /\ closing'[k] = "ok"
         => Call \notin transactions' /\ reply'[Call] # "none"]_vars

(* A Close that is refused has ended nothing.  It does not hold, and no run *)
(* claims it: the owner may change, or a lookup fail, between the first     *)
(* check, which ends the transaction, and the second, which refuses.        *)
RefusedCloseEndsNothing ==
    [][\A k \in Closes : closing[k] = "queued" /\ closing'[k] = "access_denied"
         => Call \notin done]_vars

(* "Cached refusals avoid a bus round trip for each message from an         *)
(* unauthorized sender" (webauthentication-impl.c:73): with no notice on    *)
(* its way, a Start refused without a lookup comes from a peer that does    *)
(* not own the name.                                                        *)
CachedRefusalsAreOfStrangers ==
    [][\A c \in Sent : Idle /\ reply[c] = "none" /\ reply'[c] = "access_denied"
                         /\ watch = "settled" /\ ~NoticeQueued
         => request[c].sender # owner]_vars

(* The contract: what the state above means for a caller of Start.          *)
AbstractCall == [c \in Calls |->
    CASE reply[c] = "access_denied" -> "denied"
      [] reply[c] \notin {"none", "access_denied"} -> "answered"
      [] reply[c] = "none" /\ c \in transactions -> "admitted"
      [] reply[c] = "none" /\ c \notin transactions /\ c \notin Sent -> "idle"
      [] OTHER -> IF phase = "exited" THEN "lost" ELSE "sent"]
Contract == INSTANCE StartContract WITH
    call <- AbstractCall,
    sender <- [c \in Sent |-> request[c].sender],
    stopped <- phase = "exited"

(* Every Start is admitted, answered, refused and lost only as the contract *)
(* allows.                                                                  *)
ImplementsContract == Contract!Spec

(* Every accepted Start is answered whatever page, engine and peers do, if  *)
(* users answer the choosers they are shown: by its deadline at the latest, *)
(* which waits for an open chooser but not for those opened after it.       *)
EveryAdmittedAnswered == Contract!EveryAdmittedAnswered

(* If choosers are answered, every Start is answered or lost to an exit,    *)
(* and every Close is answered.                                             *)
EverySentResolved == Contract!EverySentResolved
EveryCloseResolved == \A k \in Closes : closing[k] = "queued" ~> closing[k] \in CloseAnswers
=============================================================================
