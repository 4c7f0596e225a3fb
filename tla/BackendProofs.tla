---------------------------- MODULE BackendProofs ----------------------------
(***************************************************************************)
(* Theorems about Backend, for every bus, every number of calls and every  *)
(* bound.                                                                  *)
(***************************************************************************)
EXTENDS Backend, TLAPS

(* Queuing a message leaves the ones before it, and the head, where they    *)
(* are.                                                                     *)
LEMMA AppendLemma ==
    ASSUME NEW S, NEW s \in Seq(S), NEW e \in S
    PROVE  /\ Append(s, e) \in Seq(S)
           /\ Len(Append(s, e)) = Len(s) + 1
           /\ \A i \in 1 .. Len(s) : Append(s, e)[i] = s[i]
           /\ Append(s, e)[Len(s) + 1] = e
           /\ s # <<>> => Append(s, e) # <<>> /\ Head(Append(s, e)) = Head(s)
  OBVIOUS

(* Dropping the head moves the rest up by one.                              *)
LEMMA TailLemma ==
    ASSUME NEW S, NEW s \in Seq(S), s # <<>>
    PROVE  /\ Tail(s) \in Seq(S)
           /\ Len(Tail(s)) = Len(s) - 1
           /\ Len(s) \in Nat \ {0}
           /\ \A i \in 1 .. Len(Tail(s)) : Tail(s)[i] = s[i + 1]
           /\ Head(s) = s[1]
           /\ Head(s) \in S
  OBVIOUS

(* Queuing and dropping a message keep the inbox well formed.               *)
LEMMA QueueKeepsInbox ==
    ASSUME InboxTypes, NEW m \in Message, inbox' = Append(inbox, m), Sent \subseteq Sent',
           m \in StartMsg => m.call \in Sent'
    PROVE  /\ InboxTypes'
           /\ inbox # <<>> => inbox' # <<>> /\ Head(inbox') = Head(inbox)
  <1>1. /\ inbox' \in Seq(Message)
        /\ Len(inbox') = Len(inbox) + 1
        /\ \A i \in 1 .. Len(inbox) : inbox'[i] = inbox[i]
        /\ inbox'[Len(inbox) + 1] = m
        /\ inbox # <<>> => inbox' # <<>> /\ Head(inbox') = Head(inbox)
    BY AppendLemma DEF InboxTypes
  <1>2. ASSUME NEW i \in 1 .. Len(inbox'), inbox'[i] \in StartMsg
        PROVE  inbox'[i].call \in Sent'
    <2>1. Len(inbox) \in Nat
      BY DEF InboxTypes
    <2>2. CASE i = Len(inbox) + 1
      BY <1>1, <1>2, <2>2
    <2>3. CASE i \in 1 .. Len(inbox)
      BY <1>1, <1>2, <2>3 DEF InboxTypes
    <2> QED BY <1>1, <2>1, <2>2, <2>3
  <1> QED BY <1>1, <1>2 DEF InboxTypes

(* Handling the head of the inbox leaves the rest well typed.                *)
LEMMA PopKeepsInbox ==
    ASSUME InboxTypes, inbox # <<>>, inbox' = Tail(inbox), Sent' = Sent
    PROVE  InboxTypes'
  <1>1. /\ inbox' \in Seq(Message)
        /\ Len(inbox) \in Nat \ {0}
        /\ Len(inbox') = Len(inbox) - 1
        /\ \A i \in 1 .. Len(inbox') : inbox'[i] = inbox[i + 1]
    BY TailLemma DEF InboxTypes
  <1>2. \A i \in 1 .. Len(inbox') : i + 1 \in 1 .. Len(inbox)
    BY <1>1
  <1> QED BY <1>1, <1>2 DEF InboxTypes

-----------------------------------------------------------------------------
(* The message being handled has the fields its handler reads.             *)
LEMMA HeadLemma ==
    ASSUME TypeOK, inbox # <<>>
    PROVE  /\ Head(inbox) \in Message
           /\ Head(inbox) \in StartMsg => Call \in Sent /\ Call \in Calls /\ Caller \in Peers
           /\ Head(inbox) \in CloseMsg => Call \in Calls /\ Caller \in Peers
  <1>1. /\ Head(inbox) = inbox[1]
        /\ Head(inbox) \in Message
        /\ 1 \in 1 .. Len(inbox)
    BY TailLemma DEF TypeOK, InboxTypes
  <1>2. ASSUME Head(inbox) \in StartMsg
        PROVE  Call \in Sent /\ Call \in Calls /\ Caller \in Peers
    BY <1>1, <1>2 DEF TypeOK, InboxTypes, CallTypes, Call, Caller, StartMsg, Request
  <1>3. ASSUME Head(inbox) \in CloseMsg
        PROVE  Call \in Calls /\ Caller \in Peers
    BY <1>3 DEF Call, Caller, CloseMsg
  <1> QED BY <1>1, <1>2, <1>3

(* Messages of the four kinds differ in their type field.                   *)
LEMMA MessageKinds ==
    ASSUME NEW m \in Message
    PROVE  /\ m \in StartMsg <=> m.type = "Start"
           /\ m \in CloseMsg <=> m.type = "Close"
           /\ m \in NoticeMsg <=> m.type = "NameOwnerChanged"
           /\ m \in WatchMsg <=> m.type = "GetNameOwnerReply"
  BY DEF Message, StartMsg, CloseMsg, NoticeMsg, WatchMsg

(* Finishing transactions keeps the types.                                  *)
LEMMA FinishTypes ==
    ASSUME TransactionTypes, NEW S \in SUBSET Calls, NEW answer \in Answers, Finish(S, answer)
    PROVE  TransactionTypes'
  BY DEF TransactionTypes, Finish, NotDone, DeadlinesWithout, Teardown, Unexport,
         ForgetTransaction

(* A lookup keeps the types.                                                *)
LEMMA ResolveTypes ==
    ASSUME OwnerTypes, NEW result \in LookupResults, ResolveFrontendOwner(result),
           UNCHANGED <<bus, phase, watch>>
    PROVE  OwnerTypes'
  BY BoundAssumption DEF OwnerTypes, LookupResults, ResolveFrontendOwner, bus, Owners

(* The answers the handlers give are answers.                               *)
LEMMA AnswerKinds ==
    /\ {"timeout", "user_cancelled", "completed", "load_failed", "tls_error",
        "session_terminated", "request_closed", "access_denied", "invalid_request",
        "no_storage"} \subseteq Answers
    /\ {"ok", "access_denied", "unknown_method", "lost"} \subseteq CloseAnswers
  BY DEF Answers, Terminal, Refused, CloseAnswers

(* What handle_start does once the sender is accepted keeps the types.      *)
LEMMA HandleStartTypes ==
    ASSUME TransactionTypes, CallTypes, Call \in Sent, HandleStart
    PROVE  TransactionTypes'
  <1>1. Call \in Calls /\ request[Call].handle \in Handles
    BY DEF CallTypes, Request
  <1>2. CASE Admit(Call)
    BY <1>1, <1>2 DEF Admit, StartDeadline, TransactionTypes
  <1>3. CASE AbortStart(Call)
    BY <1>1, <1>3, AnswerKinds DEF AbortStart, TransactionTypes
  <1>4. CASE AnswerAtOnce("invalid_request")
    BY <1>1, <1>4, AnswerKinds DEF AnswerAtOnce, TransactionTypes
  <1> QED BY <1>2, <1>3, <1>4 DEF HandleStart

(* Handled pops the message and leaves the handler idle.                    *)
LEMMA HandledTypes ==
    ASSUME InboxTypes, inbox # <<>>, Handled, Sent' = Sent
    PROVE  InboxTypes' /\ HandlerTypes'
  BY PopKeepsInbox DEF Handled, HandlerTypes

(* The initial state is well typed.                                         *)
LEMMA TypeInit ==
    ASSUME Init
    PROVE  TypeOK
  <1>1. OwnerTypes
    <2>1. 0 \in 0 .. MaxOwnerChanges /\ 0 \in 0 .. MaxFailedLookups
      BY BoundAssumption
    <2>2. None \in Owners
      BY DEF Owners
    <2> QED BY <2>1, <2>2 DEF Init, OwnerTypes
  <1>2. TransactionTypes
    BY DEF Init, TransactionTypes
  <1>3. CallTypes
    BY DEF Init, CallTypes, Sent
  <1>4. InboxTypes
    BY DEF Init, InboxTypes
  <1>5. HandlerTypes
    BY DEF Init, HandlerTypes
  <1> QED BY <1>1, <1>2, <1>3, <1>4, <1>5 DEF TypeOK

(* Every step keeps the types.                                              *)
LEMMA TypeStep ==
    ASSUME TypeOK, [Next]_vars
    PROVE  TypeOK'
  <1> USE DEF TypeOK
  <1>1. ASSUME NEW new \in Owners, ChangeOwner(new) PROVE TypeOK'
    <2> DEFINE m == [type |-> "NameOwnerChanged", old |-> owner, new |-> new]
    <2>1. m \in Message /\ m \notin StartMsg
      BY DEF Message, NoticeMsg, StartMsg, OwnerTypes
    <2>2. inbox' = Append(inbox, m) /\ Sent' = Sent
      BY <1>1 DEF ChangeOwner, Sent
    <2>3. InboxTypes' /\ (inbox # <<>> => inbox' # <<>> /\ Head(inbox') = Head(inbox))
      BY <2>1, <2>2, QueueKeepsInbox
    <2>4. OwnerTypes' /\ TransactionTypes' /\ CallTypes'
      BY <1>1, BoundAssumption DEF ChangeOwner, OwnerTypes, TransactionTypes, CallTypes, cache, tx, Sent
    <2>5. HandlerTypes'
      BY <1>1, <2>3 DEF ChangeOwner, HandlerTypes
    <2> QED BY <2>3, <2>4, <2>5
  <1>2. ASSUME NEW c \in Calls, NEW p \in Peers, NEW h \in Handles, NEW valid \in BOOLEAN,
               NEW t \in TimeoutRequests, SendStart(c, p, h, valid, t)
        PROVE  TypeOK'
    <2> DEFINE m == [type |-> "Start", call |-> c]
    <2>1. m \in Message /\ Sent' = Sent \cup {c}
      BY <1>2 DEF Message, StartMsg, SendStart, Sent
    <2>2. inbox' = Append(inbox, m)
      BY <1>2 DEF SendStart
    <2>3. InboxTypes' /\ (inbox # <<>> => inbox' # <<>> /\ Head(inbox') = Head(inbox))
      BY <2>1, <2>2, QueueKeepsInbox
    <2>4. OwnerTypes' /\ TransactionTypes'
      BY <1>2 DEF SendStart, OwnerTypes, TransactionTypes, cache, tx
    <2>5. CallTypes'
      BY <1>2, <2>1, BoundAssumption DEF SendStart, CallTypes, OwnerTypes, Request, Sent
    <2>6. HandlerTypes'
      BY <1>2, <2>3 DEF SendStart, HandlerTypes
    <2> QED BY <2>3, <2>4, <2>5, <2>6
  <1>3. ASSUME NEW k \in Closes, NEW p \in Peers, NEW h \in Handles, SendClose(k, p, h)
        PROVE  TypeOK'
    <2> DEFINE m == [type |-> "Close", close |-> k, sender |-> p, call |-> exported[h]]
    <2>1. Sent' = Sent /\ OwnerTypes' /\ TransactionTypes' /\ CallTypes'
      BY <1>3, AnswerKinds DEF SendClose, OwnerTypes, TransactionTypes, CallTypes, bus, cache, tx,
         Sent
    <2>2. CASE exported[h] = NoCall
      BY <1>3, <2>1, <2>2 DEF SendClose, InboxTypes, HandlerTypes
    <2>3. CASE exported[h] # NoCall
      <3>1. m \in Message /\ m \notin StartMsg
        BY <2>3 DEF Message, CloseMsg, StartMsg, TransactionTypes
      <3>2. inbox' = Append(inbox, m)
        BY <1>3, <2>3 DEF SendClose
      <3>3. InboxTypes' /\ (inbox # <<>> => inbox' # <<>> /\ Head(inbox') = Head(inbox))
        BY <2>1, <3>1, <3>2, QueueKeepsInbox
      <3> QED BY <1>3, <2>1, <3>3 DEF SendClose, HandlerTypes
    <2> QED BY <2>2, <2>3
  <1>4. ASSUME BusAnswersWatch PROVE TypeOK'
    <2> DEFINE m == [type |-> "GetNameOwnerReply", new |-> owner]
    <2>1. m \in Message /\ m \notin StartMsg
      BY DEF Message, WatchMsg, StartMsg, OwnerTypes
    <2>2. inbox' = Append(inbox, m) /\ Sent' = Sent
      BY <1>4 DEF BusAnswersWatch, bus, Sent
    <2>3. InboxTypes' /\ (inbox # <<>> => inbox' # <<>> /\ Head(inbox') = Head(inbox))
      BY <2>1, <2>2, QueueKeepsInbox
    <2>4. OwnerTypes' /\ TransactionTypes' /\ CallTypes'
      BY <1>4 DEF BusAnswersWatch, OwnerTypes, TransactionTypes, CallTypes, bus, cache, tx, Sent
    <2> QED BY <1>4, <2>3, <2>4 DEF BusAnswersWatch, HandlerTypes
  <1>5. ASSUME OnGetNameOwnerReply PROVE TypeOK'
    <2>1. Head(inbox) \in WatchMsg /\ inbox # <<>>
      BY <1>5, HeadLemma, MessageKinds DEF OnGetNameOwnerReply, Delivers
    <2>2. Head(inbox).new \in Owners
      BY <2>1 DEF WatchMsg
    <2>3. frontend_owner' \in Owners /\ TransactionTypes'
      BY <1>5, <2>2, FinishTypes, AnswerKinds
      DEF OnGetNameOwnerReply, OnFrontendVanished, OnFrontendAppeared, CancelAll,
          TransactionTypes, tx, Owners
    <2>4. OwnerTypes' /\ CallTypes' /\ Sent' = Sent
      BY <1>5, <2>3 DEF OnGetNameOwnerReply, OwnerTypes, CallTypes, bus, Sent
    <2>5. InboxTypes' /\ HandlerTypes'
      BY <1>5, <2>1, <2>4, HandledTypes DEF OnGetNameOwnerReply
    <2> QED BY <2>3, <2>4, <2>5
  <1>6. ASSUME OnNameOwnerChanged PROVE TypeOK'
    <2>1. Head(inbox) \in NoticeMsg /\ inbox # <<>>
      BY <1>6, HeadLemma, MessageKinds DEF OnNameOwnerChanged, Delivers
    <2>2. Head(inbox).new \in Owners
      BY <2>1 DEF NoticeMsg
    <2>3. frontend_owner' \in Owners /\ owner_resolved' = owner_resolved /\ TransactionTypes'
      <3>1. CASE watch # "settled"
        BY <1>6, <3>1 DEF OnNameOwnerChanged, cache, tx, TransactionTypes, OwnerTypes
      <3>2. CASE watch = "settled" /\ Head(inbox).old = None
        BY <1>6, <2>2, <3>2 DEF OnNameOwnerChanged, OnFrontendAppeared, tx, TransactionTypes
      <3>3. CASE watch = "settled" /\ Head(inbox).old # None
        BY <1>6, <2>2, <3>3, FinishTypes, AnswerKinds
        DEF OnNameOwnerChanged, CancelAll, TransactionTypes
      <3> QED BY <3>1, <3>2, <3>3
    <2>4. OwnerTypes' /\ CallTypes' /\ Sent' = Sent
      BY <1>6, <2>3 DEF OnNameOwnerChanged, OwnerTypes, CallTypes, bus, Sent
    <2>5. InboxTypes' /\ HandlerTypes'
      BY <1>6, <2>1, <2>4, HandledTypes DEF OnNameOwnerChanged
    <2> QED BY <2>3, <2>4, <2>5
  <1>7. ASSUME DispatchStart PROVE TypeOK'
    <2>1. /\ Head(inbox) \in StartMsg /\ inbox # <<>> /\ Call \in Calls
          /\ Sent' = Sent /\ OwnerTypes' /\ CallTypes'
      BY <1>7, HeadLemma, MessageKinds
      DEF DispatchStart, Delivers, OwnerTypes, CallTypes, bus, cache, Sent
    <2>2. TransactionTypes'
      BY <1>7, <2>1, AnswerKinds DEF DispatchStart, TransactionTypes
    <2>3. CASE owner_resolved /\ CacheRefuses
      BY <1>7, <2>1, <2>2, <2>3, HandledTypes DEF DispatchStart
    <2>4. CASE ~(owner_resolved /\ CacheRefuses)
      BY <1>7, <2>1, <2>2, <2>4 DEF DispatchStart, InboxTypes, HandlerTypes
    <2> QED BY <2>3, <2>4
  <1>8. ASSUME ResolveForStart PROVE TypeOK'
    <2>1. PICK result \in LookupResults :
            /\ ResolveFrontendOwner(result)
            /\ IF result # Caller
                 THEN reply' = [reply EXCEPT ![Call] = "access_denied"] /\ Handled
                 ELSE pc' = "verify" /\ UNCHANGED <<inbox, reply>>
      BY <1>8 DEF ResolveForStart
    <2>2. /\ Head(inbox) \in StartMsg /\ inbox # <<>> /\ Call \in Calls
          /\ Sent' = Sent /\ CallTypes'
      BY <1>8, HeadLemma DEF ResolveForStart, HandlerTypes, CallTypes, bus, Sent
    <2>3. OwnerTypes'
      BY <1>8, <2>1, ResolveTypes DEF ResolveForStart
    <2>4. TransactionTypes'
      BY <1>8, <2>1, <2>2, AnswerKinds DEF ResolveForStart, TransactionTypes
    <2>5. CASE result # Caller
      BY <2>1, <2>2, <2>3, <2>4, <2>5, HandledTypes
    <2>6. CASE result = Caller
      BY <2>1, <2>2, <2>3, <2>4, <2>6 DEF InboxTypes, HandlerTypes
    <2> QED BY <2>5, <2>6
  <1>9. ASSUME VerifyStart PROVE TypeOK'
    <2>1. PICK result \in LookupResults :
            /\ ResolveFrontendOwner(result)
            /\ IF result # Caller THEN AnswerAtOnce("access_denied") ELSE HandleStart
      BY <1>9 DEF VerifyStart
    <2>2. /\ Head(inbox) \in StartMsg /\ inbox # <<>> /\ Call \in Sent /\ Call \in Calls
          /\ Sent' = Sent /\ CallTypes'
      BY <1>9, HeadLemma DEF VerifyStart, HandlerTypes, CallTypes, bus, Sent
    <2>3. OwnerTypes'
      BY <1>9, <2>1, ResolveTypes DEF VerifyStart
    <2>4. TransactionTypes'
      <3>1. CASE AnswerAtOnce("access_denied")
        BY <2>2, <3>1, AnswerKinds DEF AnswerAtOnce, TransactionTypes
      <3>2. CASE HandleStart
        BY <2>2, <3>2, HandleStartTypes
      <3> QED BY <2>1, <3>1, <3>2
    <2>5. InboxTypes' /\ HandlerTypes'
      BY <1>9, <2>2, HandledTypes DEF VerifyStart
    <2> QED BY <2>2, <2>3, <2>4, <2>5
  <1>10. ASSUME DispatchClose PROVE TypeOK'
    <2>1. /\ Head(inbox) \in CloseMsg /\ inbox # <<>> /\ Sent' = Sent
          /\ OwnerTypes' /\ TransactionTypes'
      BY <1>10, HeadLemma, MessageKinds
      DEF DispatchClose, Delivers, OwnerTypes, TransactionTypes, bus, cache, tx, Sent
    <2>2. ASSUME NEW answer \in CloseAnswers, AnswerClose(answer)
          PROVE  TypeOK'
      BY <1>10, <2>1, <2>2, HandledTypes DEF DispatchClose, AnswerClose, CallTypes, bus, Sent
    <2>3. CASE pc' = "close_first" /\ UNCHANGED <<inbox, closing>>
      BY <1>10, <2>1, <2>3 DEF DispatchClose, InboxTypes, HandlerTypes, CallTypes, bus, Sent
    <2> QED BY <1>10, <2>2, <2>3, AnswerKinds DEF DispatchClose
  <1>11. ASSUME OnRequestClose PROVE TypeOK'
    <2>1. PICK result \in LookupResults :
            /\ ResolveFrontendOwner(result)
            /\ IF result # Caller
                 THEN AnswerClose("access_denied") /\ UNCHANGED tx
                 ELSE /\ Finish({Call}, "request_closed")
                      /\ pc' = "close_second"
                      /\ UNCHANGED <<inbox, closing>>
      BY <1>11 DEF OnRequestClose
    <2>2. Head(inbox) \in CloseMsg /\ inbox # <<>> /\ Call \in Calls /\ Sent' = Sent
      BY <1>11, HeadLemma DEF OnRequestClose, HandlerTypes, bus, Sent
    <2>3. OwnerTypes'
      BY <1>11, <2>1, ResolveTypes DEF OnRequestClose
    <2>4. CASE result # Caller
      BY <1>11, <2>1, <2>2, <2>3, <2>4, HandledTypes, AnswerKinds
      DEF OnRequestClose, AnswerClose, CallTypes, TransactionTypes, tx, bus, Sent
    <2>5. CASE result = Caller
      <3>1. TransactionTypes'
        BY <2>1, <2>2, <2>5, FinishTypes, AnswerKinds
      <3>2. CallTypes' /\ InboxTypes' /\ HandlerTypes'
        BY <1>11, <2>1, <2>2, <2>5
        DEF OnRequestClose, CallTypes, InboxTypes, HandlerTypes, bus, Sent
      <3> QED BY <2>3, <3>1, <3>2
    <2> QED BY <2>4, <2>5
  <1>12. ASSUME HandleClose PROVE TypeOK'
    <2>1. PICK result \in LookupResults :
            /\ ResolveFrontendOwner(result)
            /\ IF result # Caller
                 THEN AnswerClose("access_denied") /\ UNCHANGED exported
                 ELSE AnswerClose("ok") /\ exported' = Unexport({Call})
      BY <1>12 DEF HandleClose
    <2>2. Head(inbox) \in CloseMsg /\ inbox # <<>> /\ Sent' = Sent
      BY <1>12, HeadLemma DEF HandleClose, HandlerTypes, bus, Sent
    <2>3. OwnerTypes'
      BY <1>12, <2>1, ResolveTypes DEF HandleClose
    <2>4. TransactionTypes'
      BY <1>12, <2>1 DEF HandleClose, TransactionTypes, Unexport
    <2>5. CallTypes' /\ Handled
      BY <1>12, <2>1, AnswerKinds DEF HandleClose, AnswerClose, CallTypes, bus, Sent
    <2> QED BY <2>2, <2>3, <2>4, <2>5, HandledTypes
  <1>13. ASSUME NEW c \in Calls, OnDeadline(c) PROVE TypeOK'
    <2>1. TransactionTypes'
      BY <1>13, FinishTypes, AnswerKinds DEF OnDeadline
    <2> QED BY <1>13, <2>1
            DEF OnDeadline, OwnerTypes, CallTypes, InboxTypes, HandlerTypes, bus, cache, Sent
  <1>14. ASSUME NEW c \in Calls, Engine(c) PROVE TypeOK'
    <2>1. PICK answer \in Answers : EndSession(c, answer)
      BY <1>14, AnswerKinds
      DEF Engine, OnCancel, CompleteOn, OnLoadFailed, OnLoadFailedTls, OnWebProcessTerminated
    <2>2. TransactionTypes'
      BY <2>1, FinishTypes DEF EndSession
    <2> QED BY <2>1, <2>2
            DEF EndSession, OwnerTypes, CallTypes, InboxTypes, HandlerTypes, bus, cache, Sent
  <1>15. CASE Launch
    BY <1>15 DEF Launch, OwnerTypes, TransactionTypes, CallTypes, InboxTypes, HandlerTypes,
                 bus, cache, tx, Sent
  <1>16. CASE Quit
    BY <1>16 DEF Quit, OwnerTypes, TransactionTypes, CallTypes, InboxTypes, HandlerTypes,
                 bus, cache, tx, Sent
  <1>17. CASE Shutdown
    <2>1. TransactionTypes'
      BY <1>17, FinishTypes, AnswerKinds DEF Shutdown, CancelAll, TransactionTypes
    <2>2. OwnerTypes' /\ CallTypes'
      BY <1>17, AnswerKinds DEF Shutdown, OwnerTypes, CallTypes, bus, cache, Sent
    <2>3. InboxTypes' /\ HandlerTypes'
      BY <1>17 DEF Shutdown, InboxTypes, HandlerTypes
    <2> QED BY <2>1, <2>2, <2>3
  <1>18. CASE UNCHANGED vars
    BY <1>18 DEF vars, OwnerTypes, TransactionTypes, CallTypes, InboxTypes, HandlerTypes, Sent
  <1>19. CASE Chooser
    BY <1>19 DEF Chooser, OnAuthenticate, Acquired, OwnerTypes, TransactionTypes, CallTypes,
                 InboxTypes, HandlerTypes, bus, cache, tx, Sent
  <1> QED
    BY <1>1, <1>2, <1>3, <1>4, <1>5, <1>6, <1>7, <1>8, <1>9, <1>10, <1>11, <1>12, <1>13,
       <1>14, <1>15, <1>16, <1>17, <1>18, <1>19
    DEF Next, Peer, MainContext, Exited

(* In every execution the variables keep their types.                       *)
THEOREM TypeCorrect == Spec => []TypeOK
  <1>1. Init => TypeOK
    BY TypeInit
  <1>2. TypeOK /\ [Next]_vars => TypeOK'
    BY TypeStep
  <1> QED BY <1>1, <1>2, PTL DEF Spec

-----------------------------------------------------------------------------
(* The inbox.                                                               *)

(* A dropped head: every message of the new inbox was one further back.     *)
LEMMA PopShift ==
    ASSUME InboxTypes, inbox # <<>>, inbox' = Tail(inbox)
    PROVE  /\ Len(inbox) \in Nat \ {0} /\ Len(inbox') = Len(inbox) - 1
           /\ \A i \in 1 .. Len(inbox') : i + 1 \in 2 .. Len(inbox) /\ inbox'[i] = inbox[i + 1]
           /\ \A i \in 2 .. Len(inbox) : i - 1 \in 1 .. Len(inbox') /\ inbox'[i - 1] = inbox[i]
           /\ Head(inbox) = inbox[1] /\ 1 \in 1 .. Len(inbox)
  <1>1. /\ Len(inbox) \in Nat \ {0}
        /\ Len(inbox') = Len(inbox) - 1
        /\ \A i \in 1 .. Len(inbox') : inbox'[i] = inbox[i + 1]
        /\ Head(inbox) = inbox[1]
    BY TailLemma DEF InboxTypes
  <1>2. \A i \in 1 .. Len(inbox') : i + 1 \in 2 .. Len(inbox)
    BY <1>1
  <1>3. ASSUME NEW i \in 2 .. Len(inbox)
        PROVE  i - 1 \in 1 .. Len(inbox') /\ inbox'[i - 1] = inbox[i]
    <2>1. i - 1 \in 1 .. Len(inbox') /\ (i - 1) + 1 = i
      BY <1>1
    <2> QED BY <1>1, <2>1
  <1> QED BY <1>1, <1>2, <1>3

(* A call no handler has touched stays untouched.                           *)
Untouched(c) == c \notin transactions \cup done /\ reply[c] = "none"

(* The waiting Starts stay as they are while the inbox keeps its messages,  *)
LEMMA StartsStay ==
    ASSUME InboxTypes, StartsWaitOnce, inbox' = inbox,
           \A c \in Calls : Untouched(c) => Untouched(c)'
    PROVE  StartsWaitOnce'
  <1>1. \A i \in 1 .. Len(inbox) : inbox[i] \in StartMsg => inbox[i].call \in Calls
    BY DEF StartMsg
  <1> QED BY <1>1 DEF StartsWaitOnce, Untouched

(* and while the head is dropped, whatever became of the head's own call.   *)
LEMMA StartsPop ==
    ASSUME InboxTypes, StartsWaitOnce, inbox # <<>>, inbox' = Tail(inbox),
           \A c \in Calls : Untouched(c) => \/ Untouched(c)'
                                            \/ Head(inbox) \in StartMsg /\ c = Call
    PROVE  StartsWaitOnce'
  <1> SUFFICES ASSUME NEW i \in 1 .. Len(inbox'), NEW j \in 1 .. Len(inbox'),
                      inbox'[i] \in StartMsg
               PROVE  /\ inbox'[i].call \notin transactions' \cup done'
                      /\ reply'[inbox'[i].call] = "none"
                      /\ inbox'[j] = inbox'[i] => i = j
    BY DEF StartsWaitOnce
  <1>1. /\ i + 1 \in 2 .. Len(inbox) /\ inbox'[i] = inbox[i + 1]
        /\ j + 1 \in 2 .. Len(inbox) /\ inbox'[j] = inbox[j + 1]
        /\ Head(inbox) = inbox[1] /\ 1 \in 1 .. Len(inbox)
    BY PopShift
  <1>2. /\ i + 1 \in 1 .. Len(inbox) /\ j + 1 \in 1 .. Len(inbox)
        /\ i + 1 # 1 /\ i \in Int /\ j \in Int
    BY <1>1
  <1>3. Untouched(inbox'[i].call) /\ inbox'[i].call \in Calls
    BY <1>1, <1>2 DEF StartsWaitOnce, Untouched, StartMsg
  <1>4. ~(Head(inbox) \in StartMsg /\ inbox'[i].call = Call)
    <2>1. inbox[1] # inbox[i + 1]
      BY <1>1, <1>2 DEF StartsWaitOnce
    <2> QED BY <1>1, <2>1 DEF Call, StartMsg
  <1>5. inbox'[j] = inbox'[i] => i = j
    BY <1>1, <1>2 DEF StartsWaitOnce
  <1> QED BY <1>3, <1>4, <1>5 DEF Untouched

(* A queued message leaves the waiting Starts alone, if it is not itself a  *)
(* Start, or the Start of a call never sent before.                         *)
LEMMA StartsQueue ==
    ASSUME InboxTypes, StartsWaitOnce, NEW m \in Message, inbox' = Append(inbox, m),
           UNCHANGED <<transactions, done, reply>>,
           m \in StartMsg => m.call \notin Sent /\ Untouched(m.call)
    PROVE  StartsWaitOnce'
  <1>1. /\ Len(inbox) \in Nat /\ Len(inbox') = Len(inbox) + 1
        /\ \A i \in 1 .. Len(inbox) : inbox'[i] = inbox[i]
        /\ inbox'[Len(inbox) + 1] = m
    BY AppendLemma DEF InboxTypes
  <1> SUFFICES ASSUME NEW i \in 1 .. Len(inbox'), NEW j \in 1 .. Len(inbox'),
                      inbox'[i] \in StartMsg
               PROVE  /\ Untouched(inbox'[i].call)
                      /\ inbox'[j] = inbox'[i] => i = j
    BY DEF StartsWaitOnce, Untouched
  <1>2. \A k \in 1 .. Len(inbox) : inbox[k] \in StartMsg =>
            inbox[k].call \in Sent /\ Untouched(inbox[k].call)
    BY DEF InboxTypes, StartsWaitOnce, Untouched
  <1>3. CASE i \in 1 .. Len(inbox) /\ j \in 1 .. Len(inbox)
    BY <1>1, <1>2, <1>3 DEF StartsWaitOnce
  <1>4. CASE i = Len(inbox) + 1 /\ j = Len(inbox) + 1
    BY <1>1, <1>4
  <1>5. CASE i = Len(inbox) + 1 /\ j \in 1 .. Len(inbox)
    BY <1>1, <1>2, <1>5
  <1>6. CASE i \in 1 .. Len(inbox) /\ j = Len(inbox) + 1
    BY <1>1, <1>2, <1>6
  <1> QED BY <1>1, <1>3, <1>4, <1>5, <1>6

-----------------------------------------------------------------------------
(* The transactions.                                                        *)

TransactionsOK ==
    ExportedExactlyWhileLive /\ CallbacksExactlyWhileLive /\ TransactionsAreSent

(* Every request has a deadline: no timeout option switches it off.         *)
LEMMA DeadlineAlwaysArmed ==
    ASSUME CallTypes, NEW c \in Sent
    PROVE  StartDeadline(c) = deadlines \cup {c}
  <1>1. request[c].timeout \in Nat \cup {NotGiven}
    BY TimeoutAssumption DEF CallTypes, Request
  <1>2. webauth_options_timeout(request[c].timeout, 300, 900) # 0
    BY <1>1 DEF webauth_options_timeout, AtMost
  <1> QED BY <1>2 DEF StartDeadline, WEBAUTH_DEFAULT_TIMEOUT, WEBAUTH_MAX_TIMEOUT

(* Finishing some running transactions removes all that belongs to them and *)
(* touches nothing else.                                                    *)
LEMMA FinishTransactions ==
    ASSUME TypeOK, TransactionsOK, NEW S \in SUBSET transactions, NEW answer \in Answers,
           Finish(S, answer), request' = request
    PROVE  /\ TransactionsOK'
           /\ transactions' = transactions \ S
           /\ done' = done \cup S
           /\ \A c \in Calls : Untouched(c) => Untouched(c)'
           /\ \A c \in Calls : reply[c] # "none" => reply'[c] = reply[c]
           /\ \A c \in S : reply'[c] = answer
  <1>1. NotDone(S) = S /\ S \subseteq Calls /\ answer # "none"
    BY DEF TransactionsOK, CallbacksExactlyWhileLive, NotDone, TypeOK, TransactionTypes, Answers,
           Terminal, Refused
  <1>2. /\ transactions' = transactions \ S
        /\ done' = done \cup S
        /\ sessions' = sessions \ S
        /\ deadlines' = deadlines \ S
        /\ exported' = [h \in Handles |-> IF exported[h] \in S THEN NoCall ELSE exported[h]]
        /\ reply' = [c \in Calls |-> IF c \in S THEN answer ELSE reply[c]]
    BY <1>1 DEF Finish, DeadlinesWithout, Teardown, Unexport, ForgetTransaction
  <1>3. CallbacksExactlyWhileLive'
    BY <1>1, <1>2 DEF TransactionsOK, CallbacksExactlyWhileLive, TypeOK, TransactionTypes
  <1>4. TransactionsAreSent'
    BY <1>1, <1>2 DEF TransactionsOK, TransactionsAreSent, Sent, TypeOK, TransactionTypes
  <1>5. ExportedExactlyWhileLive'
    <2>1. ASSUME NEW h \in Handles, exported'[h] # NoCall
          PROVE  exported'[h] \in transactions' /\ request'[exported'[h]].handle = h
      BY <1>2, <2>1 DEF TransactionsOK, ExportedExactlyWhileLive
    <2>2. ASSUME NEW c \in transactions'
          PROVE  exported'[request'[c].handle] = c
      <3>1. c \in transactions \ S /\ c \in Sent
        BY <1>2, <2>2 DEF TransactionsOK, TransactionsAreSent
      <3>2. request[c].handle \in Handles
        BY <3>1 DEF TypeOK, CallTypes, Request
      <3> QED BY <1>2, <3>1, <3>2 DEF TransactionsOK, ExportedExactlyWhileLive
    <2> QED BY <2>1, <2>2 DEF ExportedExactlyWhileLive
  <1>6. \A c \in S : reply[c] = "none"
    BY DEF TransactionsOK, CallbacksExactlyWhileLive
  <1>7. /\ \A c \in Calls : Untouched(c) => Untouched(c)'
        /\ \A c \in Calls : reply[c] # "none" => reply'[c] = reply[c]
        /\ \A c \in S : reply'[c] = answer
    BY <1>1, <1>2, <1>6 DEF Untouched
  <1> QED BY <1>2, <1>3, <1>4, <1>5, <1>7 DEF TransactionsOK

(* Nothing happens to the transactions; more calls may have been sent.      *)
LEMMA SameTransactions ==
    ASSUME TypeOK, TransactionsOK, UNCHANGED tx, Sent \subseteq Sent',
           \A c \in Sent : request'[c] = request[c]
    PROVE  TransactionsOK'
  <1>1. transactions \subseteq Sent
    BY DEF TransactionsOK, TransactionsAreSent
  <1> QED
    BY <1>1 DEF TransactionsOK, ExportedExactlyWhileLive, CallbacksExactlyWhileLive,
                TransactionsAreSent, tx

(* A new answer to an untouched call concerns no transaction.               *)
LEMMA AnswerTransactions ==
    ASSUME TypeOK, TransactionsOK, NEW c \in Sent, c \notin transactions,
           NEW answer \in Answers, reply' = [reply EXCEPT ![c] = answer],
           done' \in {done, done \cup {c}},
           UNCHANGED <<transactions, exported, sessions, deadlines, request>>
    PROVE  /\ TransactionsOK'
           /\ \A d \in Calls : Untouched(d) => Untouched(d)' \/ d = c
  <1>1. answer # "none" /\ c \in Calls
    BY DEF Answers, Terminal, Refused, TypeOK, CallTypes
  <1>2. reply' = [d \in Calls |-> IF d = c THEN answer ELSE reply[d]]
    BY DEF TypeOK, TransactionTypes
  <1>3. ExportedExactlyWhileLive'
    BY DEF TransactionsOK, ExportedExactlyWhileLive
  <1>4. CallbacksExactlyWhileLive'
    BY <1>2 DEF TransactionsOK, CallbacksExactlyWhileLive, TypeOK, TransactionTypes
  <1>5. TransactionsAreSent'
    BY <1>1, <1>2 DEF TransactionsOK, TransactionsAreSent, TypeOK, TransactionTypes, Sent
  <1>6. \A d \in Calls : Untouched(d) => Untouched(d)' \/ d = c
    BY <1>2 DEF Untouched
  <1> QED BY <1>3, <1>4, <1>5, <1>6 DEF TransactionsOK

(* Admission makes one transaction out of an untouched call.                *)
LEMMA AdmitTransactions ==
    ASSUME TypeOK, TransactionsOK, NEW c \in Sent, Untouched(c),
           exported[request[c].handle] = NoCall, Admit(c), request' = request
    PROVE  /\ TransactionsOK'
           /\ \A d \in Calls : Untouched(d) => Untouched(d)' \/ d = c
  <1>1. c \in Calls /\ request[c].handle \in Handles /\ c # NoCall
    BY NoCallAssumption DEF TypeOK, CallTypes, Request
  <1>2. /\ exported' = [exported EXCEPT ![request[c].handle] = c]
        /\ transactions' = transactions \cup {c}
        /\ sessions' = sessions \cup {c}
        /\ deadlines' = deadlines \cup {c}
        /\ UNCHANGED <<done, reply>>
    BY DeadlineAlwaysArmed DEF Admit, TypeOK
  <1>3. CallbacksExactlyWhileLive'
    BY <1>2 DEF TransactionsOK, CallbacksExactlyWhileLive, Untouched
  <1>4. TransactionsAreSent'
    BY <1>2 DEF TransactionsOK, TransactionsAreSent, Sent
  <1>5. ASSUME NEW h \in Handles, exported'[h] # NoCall
        PROVE  exported'[h] \in transactions' /\ request'[exported'[h]].handle = h
    <2>1. CASE h = request[c].handle
      BY <1>1, <1>2, <2>1 DEF TypeOK, TransactionTypes
    <2>2. CASE h # request[c].handle
      BY <1>2, <1>5, <2>2 DEF TransactionsOK, ExportedExactlyWhileLive, TypeOK, TransactionTypes
    <2> QED BY <2>1, <2>2
  <1>6. ASSUME NEW d \in transactions'
        PROVE  exported'[request'[d].handle] = d
    <2>1. CASE d = c
      BY <1>1, <1>2, <2>1 DEF TypeOK, TransactionTypes
    <2>2. CASE d # c
      <3>1. d \in transactions /\ d \in Sent /\ d \in Calls
        BY <1>2, <1>6, <2>2 DEF TransactionsOK, TransactionsAreSent, TypeOK, CallTypes
      <3>2. exported[request[d].handle] = d /\ request[d].handle # request[c].handle
        BY <3>1, NoCallAssumption DEF TransactionsOK, ExportedExactlyWhileLive
      <3>3. request[d].handle \in Handles
        BY <3>1 DEF TypeOK, CallTypes, Request
      <3> QED BY <1>2, <3>2, <3>3 DEF TypeOK, TransactionTypes
    <2> QED BY <2>1, <2>2
  <1>7. \A d \in Calls : Untouched(d) => Untouched(d)' \/ d = c
    BY <1>2 DEF Untouched
  <1> QED BY <1>3, <1>4, <1>5, <1>6, <1>7 DEF TransactionsOK, ExportedExactlyWhileLive

-----------------------------------------------------------------------------
(* The watcher and the departures.                                          *)

(* A message queued behind others moves none of them.                       *)
LEMMA QueueKeepsDepartures ==
    ASSUME InboxTypes, NEW m \in Message, inbox' = Append(inbox, m), watch' = watch
    PROVE  /\ \A p \in Peers : HeededDeparture(p) => HeededDeparture(p)'
           /\ WatchQueued(Len(inbox) + 1) => WatchQueued(Len(inbox) + 1)'
           /\ Len(inbox) \in Nat /\ Len(inbox') = Len(inbox) + 1
           /\ inbox'[Len(inbox) + 1] = m
  <1>1. /\ Len(inbox) \in Nat /\ Len(inbox') = Len(inbox) + 1
        /\ \A i \in 1 .. Len(inbox) : inbox'[i] = inbox[i]
        /\ inbox'[Len(inbox) + 1] = m
    BY AppendLemma DEF InboxTypes
  <1>2. ASSUME NEW i \in 1 .. Len(inbox) + 1, WatchQueued(i)
        PROVE  \E j \in 1 .. (i - 1) : inbox'[j] \in WatchMsg
    BY <1>1, <1>2 DEF WatchQueued
  <1>3. ASSUME NEW p \in Peers, HeededDeparture(p)
        PROVE  HeededDeparture(p)'
    <2>1. PICK i \in 1 .. Len(inbox) : /\ inbox[i] \in NoticeMsg /\ inbox[i].old = p
                                       /\ watch = "settled" \/ WatchQueued(i)
      BY <1>3 DEF HeededDeparture
    <2>2. i \in 1 .. Len(inbox') /\ i \in 1 .. Len(inbox) + 1 /\ inbox'[i] = inbox[i]
      BY <1>1
    <2>3. watch' = "settled" \/ \E j \in 1 .. (i - 1) : inbox'[j] \in WatchMsg
      BY <1>2, <2>1, <2>2
    <2> QED BY <2>1, <2>2, <2>3 DEF HeededDeparture, WatchQueued
  <1>4. Len(inbox) + 1 \in 1 .. Len(inbox) + 1
    BY <1>1
  <1>5. WatchQueued(Len(inbox) + 1) => \E j \in 1 .. Len(inbox) : inbox'[j] \in WatchMsg
    BY <1>1 DEF WatchQueued
  <1>6. WatchQueued(Len(inbox) + 1) => WatchQueued(Len(inbox) + 1)'
    <2> SUFFICES ASSUME WatchQueued(Len(inbox) + 1)
                 PROVE  \E j \in 1 .. ((Len(inbox') + 1) - 1) : inbox'[j] \in WatchMsg
      BY DEF WatchQueued
    <2>1. PICK j \in 1 .. Len(inbox) : inbox'[j] \in WatchMsg
      BY <1>5
    <2>2. j \in 1 .. ((Len(inbox') + 1) - 1)
      BY <1>1
    <2> QED BY <2>1, <2>2
  <1> QED BY <1>1, <1>3, <1>6

(* Dropping a head that is neither the watcher's reply nor the departure in *)
(* question leaves both in the inbox.                                       *)
LEMMA PopKeepsDepartures ==
    ASSUME InboxTypes, inbox # <<>>, inbox' = Tail(inbox)
    PROVE  /\ Head(inbox) \notin WatchMsg /\ WatchQueued(Len(inbox) + 1)
                => WatchQueued(Len(inbox) + 1)'
           /\ \A p \in Peers :
                /\ HeededDeparture(p)
                /\ \/ Head(inbox) \notin WatchMsg /\ watch' = watch
                   \/ watch' = "settled"
                /\ ~(Head(inbox) \in NoticeMsg /\ Head(inbox).old = p /\ watch = "settled")
                => HeededDeparture(p)'
  <1>1. /\ Len(inbox) \in Nat \ {0} /\ Len(inbox') = Len(inbox) - 1
        /\ \A i \in 1 .. Len(inbox') : i + 1 \in 2 .. Len(inbox) /\ inbox'[i] = inbox[i + 1]
        /\ \A i \in 2 .. Len(inbox) : i - 1 \in 1 .. Len(inbox') /\ inbox'[i - 1] = inbox[i]
        /\ Head(inbox) = inbox[1] /\ 1 \in 1 .. Len(inbox)
    BY PopShift
  <1>2. ASSUME Head(inbox) \notin WatchMsg, NEW i \in 2 .. Len(inbox) + 1, WatchQueued(i)
        PROVE  \E j \in 1 .. ((i - 1) - 1) : inbox'[j] \in WatchMsg
    <2>1. PICK j \in 1 .. (i - 1) : inbox[j] \in WatchMsg
      BY <1>2 DEF WatchQueued
    <2>2. j \in 2 .. Len(inbox) /\ j - 1 \in 1 .. ((i - 1) - 1)
      <3>1. j # 1
        BY <1>1, <1>2, <2>1
      <3> QED BY <1>1, <3>1
    <2>3. inbox'[j - 1] \in WatchMsg
      BY <1>1, <2>1, <2>2
    <2> QED BY <2>2, <2>3
  <1>3. ASSUME Head(inbox) \notin WatchMsg, WatchQueued(Len(inbox) + 1)
        PROVE  WatchQueued(Len(inbox) + 1)'
    <2>1. Len(inbox) + 1 \in 2 .. Len(inbox) + 1
      BY <1>1
    <2>2. \E j \in 1 .. (((Len(inbox) + 1) - 1) - 1) : inbox'[j] \in WatchMsg
      BY <1>2, <1>3, <2>1
    <2>3. ((Len(inbox) + 1) - 1) - 1 = (Len(inbox') + 1) - 1
      BY <1>1
    <2> QED BY <2>2, <2>3 DEF WatchQueued
  <1>4. ASSUME NEW p \in Peers, HeededDeparture(p),
               \/ Head(inbox) \notin WatchMsg /\ watch' = watch
               \/ watch' = "settled",
               ~(Head(inbox) \in NoticeMsg /\ Head(inbox).old = p /\ watch = "settled")
        PROVE  HeededDeparture(p)'
    <2>1. PICK i \in 1 .. Len(inbox) : /\ inbox[i] \in NoticeMsg /\ inbox[i].old = p
                                       /\ watch = "settled" \/ WatchQueued(i)
      BY <1>4 DEF HeededDeparture
    <2>2. i # 1
      <3>1. CASE watch = "settled"
        BY <1>1, <1>4, <2>1, <3>1
      <3>2. CASE WatchQueued(i)
        BY <3>2 DEF WatchQueued
      <3> QED BY <2>1, <3>1, <3>2
    <2>3. i \in 2 .. Len(inbox) /\ i \in 2 .. Len(inbox) + 1
      BY <1>1, <2>2
    <2>4. i - 1 \in 1 .. Len(inbox') /\ inbox'[i - 1] = inbox[i]
      BY <1>1, <2>3
    <2>5. watch' = "settled" \/ \E j \in 1 .. ((i - 1) - 1) : inbox'[j] \in WatchMsg
      BY <1>2, <1>4, <2>1, <2>3
    <2> QED BY <2>1, <2>4, <2>5 DEF HeededDeparture, WatchQueued
  <1> QED BY <1>3, <1>4

(* A departure that is still heeded: what a transaction's caller is owed.   *)
CallerWatched(c) == request[c].sender = owner \/ HeededDeparture(request[c].sender)

(* The inbox does not move, no transaction is new.                          *)
LEMMA WatchStays ==
    ASSUME TypeOK, TransactionsOK, WatchIsAhead, UNCHANGED <<inbox, owner, request>>,
           \/ UNCHANGED <<watch, phase>>
           \/ phase = "off" /\ phase' = "running" /\ watch' = "asked"
           \/ Up /\ phase' \in {"quitting", "exited"} /\ UNCHANGED watch,
           transactions' \subseteq transactions
    PROVE  WatchIsAhead'
  <1>1. watch' = "none" <=> phase' = "off"
    BY DEF WatchIsAhead, Up
  <1>2. phase = "off" => transactions = {}
    BY DEF WatchIsAhead
  <1>3. transactions' # {} => watch' \in {"answered", "settled"} /\ UNCHANGED watch
    BY <1>2 DEF WatchIsAhead
  <1>4. Up' /\ UNCHANGED watch => Up
    BY <1>1 DEF WatchIsAhead, Up, TypeOK, OwnerTypes
  <1>5. watch' = "answered" /\ Up' => WatchQueued(Len(inbox) + 1)'
    <2> SUFFICES ASSUME watch' = "answered", Up' PROVE WatchQueued(Len(inbox) + 1)'
      OBVIOUS
    <2>1. UNCHANGED watch
      OBVIOUS
    <2> QED BY <1>4, <2>1 DEF WatchIsAhead, WatchQueued
  <1>6. ASSUME Up', NEW c \in transactions'
        PROVE  CallerWatched(c)'
    <2>1. UNCHANGED watch /\ Up /\ c \in transactions
      BY <1>3, <1>4, <1>6
    <2>2. CallerWatched(c)
      BY <2>1 DEF WatchIsAhead, CallerWatched
    <2> QED BY <2>1, <2>2 DEF CallerWatched, HeededDeparture, WatchQueued
  <1> QED BY <1>1, <1>3, <1>5, <1>6 DEF WatchIsAhead, CallerWatched

(* A message is queued: a change of owner queues the departure of the old   *)
(* one.                                                                     *)
LEMMA WatchQueues ==
    ASSUME TypeOK, TransactionsOK, WatchIsAhead, Up, NEW m \in Message,
           inbox' = Append(inbox, m), UNCHANGED <<phase, transactions>>,
           \A c \in Sent : request'[c] = request[c],
           \/ UNCHANGED watch
           \/ watch = "asked" /\ watch' = "answered" /\ m \in WatchMsg,
           owner' # owner => m \in NoticeMsg /\ m.old = owner
    PROVE  WatchIsAhead'
  <1>1. CASE watch = "asked" /\ watch' = "answered" /\ m \in WatchMsg
    <2>1. Len(inbox) \in Nat /\ Len(inbox') = Len(inbox) + 1 /\ inbox'[Len(inbox) + 1] = m
      BY AppendLemma DEF TypeOK, InboxTypes
    <2>2. Len(inbox) + 1 \in 1 .. ((Len(inbox') + 1) - 1)
      BY <2>1
    <2>3. WatchQueued(Len(inbox) + 1)'
      BY <1>1, <2>1, <2>2 DEF WatchQueued
    <2>4. transactions = {}
      BY <1>1 DEF WatchIsAhead
    <2> QED BY <1>1, <2>3, <2>4 DEF WatchIsAhead, Up
  <1>2. CASE UNCHANGED watch
    <2>1. /\ \A p \in Peers : HeededDeparture(p) => HeededDeparture(p)'
          /\ WatchQueued(Len(inbox) + 1) => WatchQueued(Len(inbox) + 1)'
          /\ Len(inbox) \in Nat /\ Len(inbox') = Len(inbox) + 1
          /\ inbox'[Len(inbox) + 1] = m
      BY <1>2, QueueKeepsDepartures DEF TypeOK
    <2>2. ASSUME NEW c \in transactions
          PROVE  CallerWatched(c)'
      <3>1. c \in Sent /\ request'[c] = request[c] /\ request[c].sender \in Peers
        BY DEF TransactionsOK, TransactionsAreSent, TypeOK, CallTypes, Request
      <3>2. CASE HeededDeparture(request[c].sender)
        BY <2>1, <3>1, <3>2 DEF CallerWatched
      <3>3. CASE request[c].sender = owner /\ owner' = owner
        BY <3>1, <3>3 DEF CallerWatched
      <3>4. CASE request[c].sender = owner /\ owner' # owner
        <4>1. watch = "settled" \/ WatchQueued(Len(inbox) + 1)
          BY DEF WatchIsAhead
        <4>2. watch = "settled" \/ \E j \in 1 .. Len(inbox) : inbox[j] \in WatchMsg
          BY <2>1, <4>1 DEF WatchQueued
        <4>3. \A i \in 1 .. Len(inbox) : inbox'[i] = inbox[i]
          BY AppendLemma DEF TypeOK, InboxTypes
        <4>4. watch' = "settled" \/ \E j \in 1 .. ((Len(inbox) + 1) - 1) : inbox'[j] \in WatchMsg
          BY <1>2, <2>1, <4>2, <4>3
        <4>5. Len(inbox) + 1 \in 1 .. Len(inbox')
          BY <2>1
        <4>6. HeededDeparture(request[c].sender)'
          BY <2>1, <3>1, <3>4, <4>4, <4>5 DEF HeededDeparture, WatchQueued
        <4> QED BY <4>6 DEF CallerWatched
      <3> QED BY <3>2, <3>3, <3>4 DEF WatchIsAhead, CallerWatched
    <2> QED BY <1>2, <2>1, <2>2 DEF WatchIsAhead, CallerWatched, Up
  <1> QED BY <1>1, <1>2

(* The head is dropped by its handler.                                      *)
LEMMA WatchPops ==
    ASSUME TypeOK, TransactionsOK, WatchIsAhead, Up, inbox # <<>>, inbox' = Tail(inbox),
           UNCHANGED <<owner, request, phase>>,
           \/ Head(inbox) \notin WatchMsg /\ UNCHANGED watch
           \/ watch' = "settled",
           Head(inbox) \in NoticeMsg /\ Head(inbox).old # None /\ watch = "settled"
             => transactions' = {},
           transactions' # {} => watch' \in {"answered", "settled"},
           \A c \in transactions' : c \in transactions \/ request[c].sender = owner
    PROVE  WatchIsAhead'
  <1>1. Up' /\ (watch' = "none" <=> phase' = "off")
    BY DEF WatchIsAhead, Up
  <1>2. watch' = "answered" => WatchQueued(Len(inbox) + 1)'
    BY PopKeepsDepartures DEF WatchIsAhead, TypeOK
  <1>3. ASSUME NEW c \in transactions'
        PROVE  CallerWatched(c)'
    <2>1. CASE request[c].sender = owner
      BY <2>1 DEF CallerWatched
    <2>2. CASE request[c].sender # owner
      <3>1. c \in transactions /\ c \in Sent
        BY <2>2 DEF TransactionsOK, TransactionsAreSent
      <3>2. request[c].sender \in Peers /\ HeededDeparture(request[c].sender)
        BY <2>2, <3>1 DEF WatchIsAhead, TypeOK, CallTypes, Request
      <3>3. ~(/\ Head(inbox) \in NoticeMsg
              /\ Head(inbox).old = request[c].sender
              /\ watch = "settled")
        BY <1>3, <3>2, NoneAssumption
      <3>4. HeededDeparture(request[c].sender)'
        BY <3>2, <3>3, PopKeepsDepartures DEF TypeOK
      <3> QED BY <3>4 DEF CallerWatched
    <2> QED BY <2>1, <2>2
  <1> QED BY <1>1, <1>2, <1>3 DEF WatchIsAhead, CallerWatched

-----------------------------------------------------------------------------
(* Inv is inductive.                                                        *)
LEMMA InvInit ==
    ASSUME Init
    PROVE  Inv
  <1>1. TypeOK
    BY TypeInit
  <1>2. ExportedExactlyWhileLive /\ CallbacksExactlyWhileLive /\ TransactionsAreSent
    BY DEF Init, ExportedExactlyWhileLive, CallbacksExactlyWhileLive, TransactionsAreSent
  <1>3. StartsWaitOnce /\ CloseTarget
    BY DEF Init, StartsWaitOnce, CloseTarget
  <1>4. WatchIsAhead
    BY DEF Init, WatchIsAhead, Up
  <1> QED BY <1>1, <1>2, <1>3, <1>4 DEF Inv

(* The Start being handled has not been touched, and its caller is a peer.  *)
LEMMA HandledStart ==
    ASSUME Inv, inbox # <<>>, Head(inbox) \in StartMsg
    PROVE  Call \in Sent /\ Call \in Calls /\ Untouched(Call) /\ Caller = request[Call].sender
  <1>1. Head(inbox) = inbox[1] /\ 1 \in 1 .. Len(inbox)
    BY TailLemma DEF Inv, TypeOK, InboxTypes
  <1>2. Call \in Sent /\ Call \in Calls
    BY HeadLemma DEF Inv
  <1> QED BY <1>1, <1>2 DEF Inv, StartsWaitOnce, Untouched, Call, Caller, StartMsg

(* No step breaks the invariant.                                            *)
LEMMA InvStep ==
    ASSUME Inv, [Next]_vars
    PROVE  Inv'
  <1>0. TypeOK /\ TransactionsOK /\ StartsWaitOnce /\ CloseTarget /\ WatchIsAhead /\ TypeOK'
    BY TypeStep DEF Inv, TransactionsOK
  <1>1. ASSUME NEW m \in Message, Up, inbox' = Append(inbox, m),
               UNCHANGED <<tx, phase, pc>>, Sent \subseteq Sent',
               \A c \in Sent : request'[c] = request[c],
               m \in StartMsg => m.call \notin Sent /\ m.call \in Sent',
               \/ watch' = watch
               \/ watch = "asked" /\ watch' = "answered" /\ m \in WatchMsg,
               owner' # owner => m \in NoticeMsg /\ m.old = owner
        PROVE  Inv'
    <2>1. TransactionsOK'
      BY <1>0, <1>1, SameTransactions
    <2>2. StartsWaitOnce'
      <3>1. m \in StartMsg => Untouched(m.call)
        BY <1>0, <1>1 DEF TransactionsOK, TransactionsAreSent, Untouched, StartMsg
      <3> QED BY <1>0, <1>1, <3>1, StartsQueue DEF TypeOK, tx
    <2>3. CloseTarget'
      <3>1. inbox # <<>> => Head(inbox') = Head(inbox)
        BY <1>0, <1>1, AppendLemma DEF TypeOK, InboxTypes
      <3> QED BY <1>0, <1>1, <3>1 DEF CloseTarget, Call, tx, TypeOK, HandlerTypes
    <2>4. WatchIsAhead'
      BY <1>0, <1>1, WatchQueues DEF tx
    <2> QED BY <1>0, <2>1, <2>2, <2>3, <2>4 DEF Inv, TransactionsOK
  <1>2. ASSUME NEW new \in Owners, ChangeOwner(new) PROVE Inv'
    <2> DEFINE m == [type |-> "NameOwnerChanged", old |-> owner, new |-> new]
    <2>1. m \in Message /\ m \notin StartMsg /\ m \in NoticeMsg /\ m.old = owner
      BY <1>0 DEF Message, NoticeMsg, StartMsg, TypeOK, OwnerTypes
    <2>2. /\ Up /\ inbox' = Append(inbox, m) /\ UNCHANGED <<tx, phase, pc>>
          /\ watch' = watch /\ Sent' = Sent /\ request' = request
      BY <1>2 DEF ChangeOwner, Sent
    <2> HIDE DEF m
    <2> QED BY <1>1, <2>1, <2>2
  <1>3. ASSUME NEW c \in Calls, NEW p \in Peers, NEW h \in Handles, NEW valid \in BOOLEAN,
               NEW t \in TimeoutRequests, SendStart(c, p, h, valid, t)
        PROVE  Inv'
    <2> DEFINE m == [type |-> "Start", call |-> c]
    <2>1. m \in Message /\ m.call \notin Sent /\ m.call = c
      BY <1>3 DEF Message, StartMsg, SendStart
    <2>2. Sent' = Sent \cup {c} /\ \A d \in Sent : request'[d] = request[d]
      BY <1>3 DEF SendStart, Sent
    <2>3. /\ Up /\ inbox' = Append(inbox, m) /\ UNCHANGED <<tx, phase, pc>>
          /\ watch' = watch /\ owner' = owner
      BY <1>3 DEF SendStart
    <2> HIDE DEF m
    <2> QED BY <1>1, <2>1, <2>2, <2>3
  <1>4. ASSUME NEW k \in Closes, NEW p \in Peers, NEW h \in Handles, SendClose(k, p, h)
        PROVE  Inv'
    <2> DEFINE m == [type |-> "Close", close |-> k, sender |-> p, call |-> exported[h]]
    <2>1. CASE exported[h] = NoCall
      <3>1. UNCHANGED <<inbox, tx, pc, owner, request, watch, phase>>
        BY <1>4, <2>1 DEF SendClose, bus
      <3>2. TransactionsOK' /\ StartsWaitOnce' /\ CloseTarget'
        BY <1>0, <3>1, SameTransactions, StartsStay
        DEF tx, TypeOK, Untouched, CloseTarget, Call, Sent
      <3>3. WatchIsAhead'
        BY <1>0, <3>1, WatchStays DEF tx
      <3> QED BY <1>0, <3>2, <3>3 DEF Inv, TransactionsOK
    <2>2. CASE exported[h] # NoCall
      <3>1. m \in Message /\ m \notin StartMsg
        BY <1>0, <2>2 DEF Message, CloseMsg, StartMsg, TypeOK, TransactionTypes
      <3>2. /\ Up /\ inbox' = Append(inbox, m)
            /\ UNCHANGED <<tx, phase, pc>>
            /\ watch' = watch /\ owner' = owner /\ request' = request /\ Sent' = Sent
        BY <1>4, <2>2 DEF SendClose, bus, Sent
      <3> HIDE DEF m
      <3> QED BY <1>1, <3>1, <3>2
    <2> QED BY <2>1, <2>2
  <1>5. ASSUME BusAnswersWatch PROVE Inv'
    <2> DEFINE m == [type |-> "GetNameOwnerReply", new |-> owner]
    <2>1. m \in Message /\ m \notin StartMsg /\ m \in WatchMsg
      BY <1>0 DEF Message, WatchMsg, StartMsg, TypeOK, OwnerTypes
    <2>2. /\ Up /\ inbox' = Append(inbox, m) /\ watch = "asked" /\ watch' = "answered"
          /\ UNCHANGED <<tx, phase, pc, owner, request>>
      BY <1>5 DEF BusAnswersWatch, bus
    <2> HIDE DEF m
    <2> QED BY <1>1, <2>1, <2>2 DEF Sent
  (* The head is dropped, and its handler leaves all other calls alone.     *)
  <1>6. ASSUME Up, inbox # <<>>, Handled, TransactionsOK',
               \A c \in Calls : Untouched(c) => \/ Untouched(c)'
                                                \/ Head(inbox) \in StartMsg /\ c = Call,
               owner' = owner, request' = request, phase' = phase,
               \/ Head(inbox) \notin WatchMsg /\ watch' = watch
               \/ watch' = "settled",
               Head(inbox) \in NoticeMsg /\ Head(inbox).old # None /\ watch = "settled"
                 => transactions' = {},
               transactions' # {} => watch' \in {"answered", "settled"},
               \A c \in transactions' : c \in transactions \/ request[c].sender = owner
        PROVE  Inv'
    <2>1. inbox' = Tail(inbox) /\ pc' = "idle"
      BY <1>6 DEF Handled
    <2>2. StartsWaitOnce'
      BY <1>0, <1>6, <2>1, StartsPop DEF TypeOK
    <2>3. CloseTarget'
      BY <2>1 DEF CloseTarget
    <2>4. WatchIsAhead'
      BY <1>0, <1>6, <2>1, WatchPops
    <2> QED BY <1>0, <1>6, <2>2, <2>3, <2>4 DEF Inv, TransactionsOK
  (* The inbox stays, some transactions may end.                            *)
  <1>7. ASSUME TransactionsOK', inbox' = inbox, owner' = owner, request' = request,
               \A c \in Calls : Untouched(c) => Untouched(c)',
               \/ watch' = watch /\ phase' = phase
               \/ phase = "off" /\ phase' = "running" /\ watch' = "asked"
               \/ Up /\ phase' \in {"quitting", "exited"} /\ watch' = watch,
               transactions' \subseteq transactions,
               CloseTarget'
        PROVE  Inv'
    <2>1. StartsWaitOnce'
      BY <1>0, <1>7, StartsStay DEF TypeOK
    <2>2. WatchIsAhead'
      BY <1>0, <1>7, WatchStays
    <2> QED BY <1>0, <1>7, <2>1, <2>2 DEF Inv, TransactionsOK
  <1>8. transactions # {} => watch \in {"answered", "settled"}
    BY <1>0 DEF WatchIsAhead
  <1>9. UNCHANGED <<tx, request>> => TransactionsOK' /\ \A c \in Calls : Untouched(c) => Untouched(c)'
    BY <1>0, SameTransactions DEF tx, Untouched, Sent
  <1>10. "session_terminated" \in Answers /\ transactions \in SUBSET transactions
    BY AnswerKinds
  <1>11. CancelAll /\ request' = request =>
           /\ TransactionsOK'
           /\ transactions' = {}
           /\ \A c \in Calls : Untouched(c) => Untouched(c)'
    BY <1>0, <1>10, FinishTransactions DEF CancelAll
  <1>12. ASSUME OnGetNameOwnerReply PROVE Inv'
    <2>1. /\ Up /\ inbox # <<>> /\ Handled /\ watch' = "settled"
          /\ owner' = owner /\ request' = request /\ phase' = phase
      BY <1>12 DEF OnGetNameOwnerReply, Delivers, Idle, bus
    <2>2. Head(inbox) \in WatchMsg /\ Head(inbox) \notin NoticeMsg
      BY <1>0, <1>12, HeadLemma, MessageKinds
      DEF OnGetNameOwnerReply, Delivers, NoticeMsg, WatchMsg
    <2>3. /\ TransactionsOK'
          /\ transactions' \subseteq transactions
          /\ \A c \in Calls : Untouched(c) => Untouched(c)'
      <3>1. CASE Head(inbox).new = None
        BY <1>11, <1>12, <2>1, <3>1 DEF OnGetNameOwnerReply, OnFrontendVanished
      <3>2. CASE Head(inbox).new # None
        BY <1>9, <1>12, <2>1, <3>2 DEF OnGetNameOwnerReply, OnFrontendAppeared, tx
      <3> QED BY <3>1, <3>2
    <2> QED BY <1>6, <2>1, <2>2, <2>3
  <1>13. ASSUME OnNameOwnerChanged PROVE Inv'
    <2>1. /\ Up /\ inbox # <<>> /\ Handled /\ watch' = watch
          /\ owner' = owner /\ request' = request /\ phase' = phase
      BY <1>13 DEF OnNameOwnerChanged, Delivers, Idle, bus
    <2>2. Head(inbox) \in NoticeMsg /\ Head(inbox) \notin WatchMsg /\ Head(inbox) \notin StartMsg
      BY <1>0, <1>13, HeadLemma, MessageKinds
      DEF OnNameOwnerChanged, Delivers, NoticeMsg, WatchMsg, StartMsg
    <2>3. CASE watch = "settled" /\ Head(inbox).old # None
      <3>1. CancelAll
        BY <1>13, <2>3 DEF OnNameOwnerChanged
      <3> QED BY <1>6, <1>11, <2>1, <2>2, <3>1
    <2>4. CASE ~(watch = "settled" /\ Head(inbox).old # None)
      <3>1. UNCHANGED tx
        BY <1>13, <2>4 DEF OnNameOwnerChanged, OnFrontendAppeared
      <3>2. transactions' = transactions
        BY <3>1 DEF tx
      <3> QED BY <1>6, <1>8, <1>9, <2>1, <2>2, <2>4, <3>1, <3>2
    <2> QED BY <2>3, <2>4
  (* The Start at the head is answered, refused, or becomes a transaction.  *)
  <1>14. ASSUME Up, inbox # <<>>, Head(inbox) \in StartMsg, NEW answer \in Answers,
                reply' = [reply EXCEPT ![Call] = answer],
                done' \in {done, done \cup {Call}},
                UNCHANGED <<transactions, exported, sessions, deadlines, request>>,
                Handled, owner' = owner, watch' = watch, phase' = phase
         PROVE  Inv'
    <2>1. Call \in Sent /\ Call \in Calls /\ Call \notin transactions
      BY <1>14, HandledStart DEF Untouched
    <2>2. Head(inbox) \notin WatchMsg /\ Head(inbox) \notin NoticeMsg
      BY <1>14 DEF StartMsg, WatchMsg, NoticeMsg
    <2>3. TransactionsOK' /\ \A c \in Calls : Untouched(c) => Untouched(c)' \/ c = Call
      BY <1>0, <1>14, <2>1, AnswerTransactions
    <2> QED BY <1>6, <1>8, <1>14, <2>2, <2>3
  <1>15. ASSUME inbox' = inbox, owner' = owner, request' = request, watch' = watch,
                phase' = phase, UNCHANGED tx, pc' \in {"verify", "resolve"}
         PROVE  Inv'
    <2>1. CloseTarget' /\ transactions' = transactions
      BY <1>15 DEF CloseTarget, tx
    <2> QED BY <1>7, <1>9, <1>15, <2>1
  <1>16. ASSUME DispatchStart PROVE Inv'
    <2>1. /\ Up /\ inbox # <<>> /\ Head(inbox) \in StartMsg
          /\ owner' = owner /\ request' = request /\ watch' = watch /\ phase' = phase
          /\ UNCHANGED <<transactions, done, exported, sessions, deadlines>>
      BY <1>0, <1>16, HeadLemma, MessageKinds DEF DispatchStart, Delivers, Idle, bus
    <2>2. CASE owner_resolved /\ CacheRefuses
      BY <1>14, <1>16, <2>1, <2>2, AnswerKinds DEF DispatchStart
    <2>3. CASE ~(owner_resolved /\ CacheRefuses)
      <3>1. pc' \in {"verify", "resolve"} /\ inbox' = inbox /\ reply' = reply
        BY <1>16, <2>3 DEF DispatchStart
      <3> QED BY <1>15, <2>1, <3>1 DEF tx
    <2> QED BY <2>2, <2>3
  <1>17. ASSUME ResolveForStart PROVE Inv'
    <2>1. PICK result \in LookupResults :
            IF result # Caller
              THEN reply' = [reply EXCEPT ![Call] = "access_denied"] /\ Handled
              ELSE pc' = "verify" /\ UNCHANGED <<inbox, reply>>
      BY <1>17 DEF ResolveForStart
    <2>2. /\ Up /\ inbox # <<>> /\ Head(inbox) \in StartMsg
          /\ owner' = owner /\ request' = request /\ watch' = watch /\ phase' = phase
          /\ UNCHANGED <<transactions, done, exported, sessions, deadlines>>
      BY <1>0, <1>17 DEF ResolveForStart, TypeOK, HandlerTypes, bus
    <2>3. CASE result # Caller
      BY <1>14, <2>1, <2>2, <2>3, AnswerKinds
    <2>4. CASE result = Caller
      BY <1>15, <2>1, <2>2, <2>4 DEF tx
    <2> QED BY <2>3, <2>4
  <1>18. ASSUME VerifyStart PROVE Inv'
    <2>1. PICK result \in LookupResults :
            /\ ResolveFrontendOwner(result)
            /\ IF result # Caller THEN AnswerAtOnce("access_denied") ELSE HandleStart
      BY <1>18 DEF VerifyStart
    <2>2. /\ Up /\ inbox # <<>> /\ Head(inbox) \in StartMsg /\ Handled
          /\ owner' = owner /\ request' = request /\ watch' = watch /\ phase' = phase
      BY <1>0, <1>18 DEF VerifyStart, TypeOK, HandlerTypes, bus
    <2>3. Call \in Sent /\ Call \in Calls /\ Untouched(Call) /\ Caller = request[Call].sender
      BY <2>2, HandledStart
    <2>4. ASSUME NEW answer \in Answers, AnswerAtOnce(answer) PROVE Inv'
      BY <1>14, <2>2, <2>4 DEF AnswerAtOnce
    <2>5. ASSUME AbortStart(Call) PROVE Inv'
      BY <1>14, <2>2, <2>5, AnswerKinds DEF AbortStart
    <2>6. ASSUME result = Caller, StartIsServable, Admit(Call) PROVE Inv'
      <3>1. TransactionsOK' /\ \A c \in Calls : Untouched(c) => Untouched(c)' \/ c = Call
        BY <1>0, <2>2, <2>3, <2>6, AdmitTransactions DEF StartIsServable, HandleFree
      <3>2. Caller = owner /\ watch # "asked"
        <4>1. Caller \in Peers
          BY <1>0, <2>2, HeadLemma
        <4> QED BY <2>6, <4>1, NoneAssumption DEF LookupResults
      <3>3. watch \in {"answered", "settled"}
        BY <1>0, <2>2, <3>2 DEF WatchIsAhead, Up, TypeOK, OwnerTypes
      <3>4. \A c \in transactions' : c \in transactions \/ request[c].sender = owner
        BY <2>3, <2>6, <3>2 DEF Admit
      <3>5. Head(inbox) \notin WatchMsg /\ Head(inbox) \notin NoticeMsg
        BY <2>2 DEF StartMsg, WatchMsg, NoticeMsg
      <3> QED BY <1>6, <2>2, <3>1, <3>3, <3>4, <3>5
    <2> QED BY <2>1, <2>4, <2>5, <2>6, AnswerKinds DEF HandleStart
  (* A Close is answered without touching the transactions.                 *)
  <1>19. ASSUME Up, inbox # <<>>, Head(inbox) \in CloseMsg, NEW answer, AnswerClose(answer),
                UNCHANGED tx, owner' = owner, request' = request, watch' = watch, phase' = phase
         PROVE  Inv'
    <2>1. Head(inbox) \notin WatchMsg /\ Head(inbox) \notin NoticeMsg
      BY <1>19 DEF CloseMsg, WatchMsg, NoticeMsg
    <2>2. transactions' = transactions /\ Handled
      BY <1>19 DEF tx, AnswerClose
    <2> QED BY <1>6, <1>8, <1>9, <1>19, <2>1, <2>2
  <1>20. ASSUME DispatchClose PROVE Inv'
    <2>1. /\ Up /\ inbox # <<>> /\ Head(inbox) \in CloseMsg /\ UNCHANGED tx
          /\ owner' = owner /\ request' = request /\ watch' = watch /\ phase' = phase
      BY <1>0, <1>20, HeadLemma, MessageKinds DEF DispatchClose, Delivers, Idle, bus
    <2>2. ASSUME StillExported(Call), pc' = "close_first", UNCHANGED <<inbox, closing>>
          PROVE  Inv'
      <3>1. Call \in transactions
        <4>1. PICK h \in Handles : exported[h] = Call
          BY <2>2 DEF StillExported
        <4>2. Call # NoCall
          BY <1>0, <2>1, HeadLemma, NoCallAssumption
        <4> QED BY <1>0, <4>1, <4>2 DEF TransactionsOK, ExportedExactlyWhileLive
      <3>2. CloseTarget' /\ transactions' = transactions
        BY <2>1, <2>2, <3>1 DEF CloseTarget, Call, tx
      <3> QED BY <1>7, <1>9, <2>1, <2>2, <3>2
    <2> QED BY <1>19, <1>20, <2>1, <2>2 DEF DispatchClose
  <1>21. ASSUME OnRequestClose PROVE Inv'
    <2>1. PICK result \in LookupResults :
            IF result # Caller
              THEN AnswerClose("access_denied") /\ UNCHANGED tx
              ELSE /\ Finish({Call}, "request_closed")
                   /\ pc' = "close_second"
                   /\ UNCHANGED <<inbox, closing>>
      BY <1>21 DEF OnRequestClose
    <2>2. /\ Up /\ inbox # <<>> /\ Head(inbox) \in CloseMsg /\ Call \in transactions
          /\ owner' = owner /\ request' = request /\ watch' = watch /\ phase' = phase
      BY <1>0, <1>21 DEF OnRequestClose, TypeOK, HandlerTypes, CloseTarget, bus
    <2>3. CASE result # Caller
      BY <1>19, <2>1, <2>2, <2>3
    <2>4. CASE result = Caller
      <3>1. /\ TransactionsOK'
            /\ transactions' = transactions \ {Call}
            /\ done' = done \cup {Call}
            /\ \A c \in Calls : Untouched(c) => Untouched(c)'
        BY <1>0, <2>1, <2>2, <2>4, AnswerKinds, FinishTransactions
      <3>2. CloseTarget'
        BY <2>1, <2>4, <3>1 DEF CloseTarget, Call
      <3> QED BY <1>7, <2>1, <2>2, <2>4, <3>1, <3>2
    <2> QED BY <2>3, <2>4
  <1>22. ASSUME HandleClose PROVE Inv'
    <2>1. PICK answer :
            /\ AnswerClose(answer)
            /\ UNCHANGED exported \/ exported' = Unexport({Call})
      BY <1>22 DEF HandleClose
    <2>2. /\ Up /\ inbox # <<>> /\ Head(inbox) \in CloseMsg /\ Call \in done
          /\ owner' = owner /\ request' = request /\ watch' = watch /\ phase' = phase
          /\ UNCHANGED <<transactions, done, sessions, deadlines, reply>>
      BY <1>0, <1>22 DEF HandleClose, TypeOK, HandlerTypes, CloseTarget, bus
    <2>3. \A h \in Handles : exported[h] # Call
      BY <1>0, <2>2, HeadLemma, NoCallAssumption
      DEF TransactionsOK, ExportedExactlyWhileLive, CallbacksExactlyWhileLive
    <2>4. Unexport({Call}) = exported
      BY <1>0, <2>3 DEF Unexport, TypeOK, TransactionTypes
    <2>5. UNCHANGED tx
      BY <2>1, <2>2, <2>4 DEF tx
    <2> QED BY <1>19, <2>1, <2>2, <2>5
  (* A transaction ends by itself.                                          *)
  <1>23. ASSUME Idle, NEW c \in transactions, NEW answer \in Answers, Finish({c}, answer),
                UNCHANGED <<bus, inbox, phase, watch, cache, pc, closing, failedLookups>>
         PROVE  Inv'
    <2>1. request' = request /\ owner' = owner /\ CloseTarget'
      BY <1>23 DEF bus, Idle, CloseTarget
    <2>2. /\ TransactionsOK'
          /\ transactions' \subseteq transactions
          /\ \A d \in Calls : Untouched(d) => Untouched(d)'
      BY <1>0, <1>23, <2>1, FinishTransactions
    <2> QED BY <1>7, <1>23, <2>1, <2>2
  <1>24. ASSUME NEW c \in Calls, OnDeadline(c) PROVE Inv'
    <2>1. c \in transactions
      BY <1>0, <1>24 DEF OnDeadline, TransactionsOK, CallbacksExactlyWhileLive
    <2> QED BY <1>23, <1>24, <2>1, AnswerKinds DEF OnDeadline
  <1>25. ASSUME NEW c \in Calls, Engine(c) PROVE Inv'
    <2>1. PICK answer \in Answers : EndSession(c, answer)
      BY <1>25, AnswerKinds
      DEF Engine, OnCancel, CompleteOn, OnLoadFailed, OnLoadFailedTls, OnWebProcessTerminated
    <2>2. c \in transactions
      BY <1>0, <2>1 DEF EndSession, TransactionsOK, CallbacksExactlyWhileLive
    <2> QED BY <1>23, <2>1, <2>2 DEF EndSession
  <1>26. ASSUME Launch PROVE Inv'
    <2>1. /\ phase = "off" /\ phase' = "running" /\ watch' = "asked" /\ UNCHANGED <<tx, pc>>
          /\ inbox' = inbox /\ owner' = owner /\ request' = request
      BY <1>26 DEF Launch, bus
    <2>2. CloseTarget' /\ transactions' = transactions
      BY <1>0, <2>1 DEF CloseTarget, Call, tx
    <2> QED BY <1>7, <1>9, <2>1, <2>2
  <1>27. ASSUME Quit PROVE Inv'
    <2>1. /\ Up /\ phase' = "quitting" /\ watch' = watch /\ UNCHANGED <<tx, pc>>
          /\ inbox' = inbox /\ owner' = owner /\ request' = request
      BY <1>27 DEF Quit, Up, bus
    <2>2. CloseTarget' /\ transactions' = transactions
      BY <1>0, <2>1 DEF CloseTarget, Call, tx
    <2> QED BY <1>7, <1>9, <2>1, <2>2
  <1>28. ASSUME Shutdown PROVE Inv'
    <2>1. /\ TransactionsOK' /\ transactions' = {} /\ inbox' = <<>> /\ pc' = "idle"
          /\ phase' = "exited" /\ watch' = watch /\ Up
      BY <1>11, <1>28 DEF Shutdown, Up, bus
    <2>2. StartsWaitOnce' /\ CloseTarget'
      BY <2>1 DEF StartsWaitOnce, CloseTarget
    <2>3. WatchIsAhead'
      BY <1>0, <2>1 DEF WatchIsAhead, Up
    <2> QED BY <1>0, <2>1, <2>2, <2>3 DEF Inv, TransactionsOK
  <1>29. ASSUME UNCHANGED vars PROVE Inv'
    <2>1. /\ inbox' = inbox /\ owner' = owner /\ request' = request /\ watch' = watch
          /\ phase' = phase /\ pc' = pc /\ UNCHANGED tx
      BY <1>29 DEF vars, tx
    <2>2. CloseTarget' /\ transactions' = transactions
      BY <1>0, <2>1 DEF CloseTarget, Call, tx
    <2> QED BY <1>7, <1>9, <2>1, <2>2
  <1>30. ASSUME Chooser PROVE Inv'
    <2>1. /\ pc' \in {"choosing", "idle"} /\ UNCHANGED tx /\ watch' = watch /\ phase' = phase
          /\ inbox' = inbox /\ owner' = owner /\ request' = request
      BY <1>30 DEF Chooser, OnAuthenticate, Acquired, bus
    <2>2. CloseTarget' /\ transactions' = transactions
      BY <2>1 DEF CloseTarget, tx
    <2> QED BY <1>7, <1>9, <2>1, <2>2
  <1> QED
    BY <1>2, <1>3, <1>4, <1>5, <1>12, <1>13, <1>16, <1>17, <1>18, <1>20, <1>21, <1>22, <1>24,
       <1>25, <1>26, <1>27, <1>28, <1>29, <1>30
    DEF Next, Peer, MainContext, Exited

(* In every execution Inv holds.                                            *)
THEOREM Invariance == Spec => []Inv
  <1>1. Init => Inv
    BY InvInit
  <1>2. Inv /\ [Next]_vars => Inv'
    BY InvStep
  <1> QED BY <1>1, <1>2, PTL DEF Spec

-----------------------------------------------------------------------------
(* Consequences.                                                            *)

(* A transaction whose caller lost the name is always about to be ended by  *)
(* a queued notice (on_frontend_vanished).                                  *)
THEOREM NoOrphanEver == Spec => []NoOrphan
  <1>1. Inv => NoOrphan
    <2> SUFFICES ASSUME Inv, Up, NEW c \in transactions, request[c].sender # owner
                 PROVE  DepartureQueued(request[c].sender)
      BY DEF NoOrphan
    <2> DEFINE p == request[c].sender
    <2>1. PICK i \in 1 .. Len(inbox) : inbox[i] \in NoticeMsg /\ inbox[i].old = p
      BY DEF Inv, WatchIsAhead, HeededDeparture
    <2>2. PICK old \in Owners, new \in Owners :
            inbox[i] = [type |-> "NameOwnerChanged", old |-> old, new |-> new]
      BY <2>1 DEF NoticeMsg
    <2>3. old = p
      BY <2>1, <2>2
    <2> QED BY <2>2, <2>3 DEF DepartureQueued, Queued
  <1> QED BY <1>1, Invariance, PTL

(* A Request is exported exactly while its transaction runs.                *)
THEOREM ExportedWhileLive == Spec => []ExportedExactlyWhileLive
  <1>1. Inv => ExportedExactlyWhileLive
    BY DEF Inv
  <1> QED BY <1>1, Invariance, PTL

(* Sessions, deadlines and list entries exist exactly for running           *)
(* transactions.                                                            *)
THEOREM CallbacksWhileLive == Spec => []CallbacksExactlyWhileLive
  <1>1. Inv => CallbacksExactlyWhileLive
    BY DEF Inv
  <1> QED BY <1>1, Invariance, PTL

(* A Start obtains more than a refusal only in the second lookup, from the  *)
(* bus's own answer (webauth_backend_sender_is_frontend).                   *)
THEOREM ServedToOwner == Spec => ServedOnlyToOwner
  <1> DEFINE Fresh(c) == reply[c] = "none" /\ c \notin transactions
             P == \A c \in Sent : Fresh(c) /\ Obtains(c) => request[c].sender = owner
  <1>1. Inv /\ [Next]_vars => [P]_vars
    <2> SUFFICES ASSUME Inv, [Next]_vars PROVE P
      OBVIOUS
    <2>0. TypeOK /\ TransactionsOK /\ CloseTarget /\ Sent \subseteq Calls
      BY DEF Inv, TransactionsOK, TypeOK, CallTypes
    <2>1. ASSUME NEW S \in SUBSET transactions, NEW answer \in Answers, Finish(S, answer),
                 request' = request
          PROVE  P
      <3>1. NotDone(S) \subseteq transactions
        BY DEF NotDone
      <3>2. \A c \in Sent : Fresh(c) => reply'[c] = "none" /\ c \notin transactions'
        BY <2>0, <2>1, <3>1 DEF Finish, ForgetTransaction
      <3> QED BY <3>2 DEF Obtains
    <2>2. ASSUME UNCHANGED <<transactions, reply>> PROVE P
      BY <2>2 DEF Obtains
    <2>3. ASSUME NEW c \in Calls, UNCHANGED transactions,
                 reply' = [reply EXCEPT ![c] = "access_denied"]
          PROVE  P
      BY <2>0, <2>3 DEF Obtains, TypeOK, TransactionTypes
    <2>4. CancelAll /\ request' = request => P
      BY <2>1, AnswerKinds DEF CancelAll
    <2>5. CASE OnGetNameOwnerReply
      BY <2>2, <2>4, <2>5
      DEF OnGetNameOwnerReply, OnFrontendVanished, OnFrontendAppeared, tx, bus
    <2>6. CASE OnNameOwnerChanged
      BY <2>2, <2>4, <2>6 DEF OnNameOwnerChanged, OnFrontendAppeared, tx, bus
    <2>7. CASE DispatchStart
      <3>1. Call \in Calls
        BY <2>0, <2>7, HeadLemma, MessageKinds DEF DispatchStart, Delivers
      <3> QED BY <2>2, <2>3, <2>7, <3>1 DEF DispatchStart
    <2>8. CASE ResolveForStart
      <3>1. Call \in Calls
        BY <2>0, <2>8, HeadLemma DEF ResolveForStart, TypeOK, HandlerTypes
      <3> QED BY <2>2, <2>3, <2>8, <3>1 DEF ResolveForStart
    <2>9. CASE VerifyStart
      <3>1. PICK result \in LookupResults :
              IF result # Caller THEN AnswerAtOnce("access_denied") ELSE HandleStart
        BY <2>9 DEF VerifyStart
      <3>2. Call \in Calls /\ Caller \in Peers /\ Caller = request[Call].sender
        BY <2>0, <2>9, HeadLemma, HandledStart DEF VerifyStart, TypeOK, HandlerTypes
      <3>3. CASE result # Caller
        BY <2>3, <3>1, <3>2, <3>3 DEF AnswerAtOnce
      <3>4. CASE result = Caller
        <4>1. request[Call].sender = owner
          BY <3>2, <3>4, NoneAssumption DEF LookupResults
        <4>2. \A c \in Calls : c # Call =>
                reply'[c] = reply[c] /\ (c \in transactions' => c \in transactions)
          BY <2>0, <3>1, <3>4
          DEF HandleStart, Admit, AbortStart, AnswerAtOnce, TypeOK, TransactionTypes
        <4>3. \A c \in Sent : c # Call /\ Fresh(c) => ~Obtains(c)
          BY <2>0, <4>2 DEF Obtains
        <4> QED BY <4>1, <4>3
      <3> QED BY <3>3, <3>4
    <2>10. CASE OnRequestClose
      <3>1. \/ UNCHANGED tx
            \/ Finish({Call}, "request_closed") /\ Call \in transactions
        BY <2>0, <2>10 DEF OnRequestClose, CloseTarget
      <3>2. request' = request
        BY <2>10 DEF OnRequestClose, bus
      <3> QED BY <2>1, <2>2, <3>1, <3>2, AnswerKinds DEF tx
    <2>11. CASE HandleClose
      BY <2>2, <2>11 DEF HandleClose
    <2>12. ASSUME NEW c \in Calls, OnDeadline(c) PROVE P
      <3>1. c \in transactions
        BY <2>0, <2>12 DEF OnDeadline, TransactionsOK, CallbacksExactlyWhileLive
      <3> QED BY <2>1, <2>12, <3>1, AnswerKinds DEF OnDeadline, bus
    <2>13. ASSUME NEW c \in Calls, Engine(c) PROVE P
      <3>1. PICK answer \in Answers : EndSession(c, answer)
        BY <2>13, AnswerKinds
        DEF Engine, OnCancel, CompleteOn, OnLoadFailed, OnLoadFailedTls, OnWebProcessTerminated
      <3>2. c \in transactions
        BY <2>0, <3>1 DEF EndSession, TransactionsOK, CallbacksExactlyWhileLive
      <3> QED BY <2>1, <3>1, <3>2 DEF EndSession, bus
    <2>14. CASE Shutdown
      BY <2>4, <2>14 DEF Shutdown, bus
    <2>15. CASE Peer \/ BusAnswersWatch \/ DispatchClose \/ Launch \/ Quit
               \/ Chooser \/ UNCHANGED vars
      BY <2>2, <2>15
      DEF Peer, ChangeOwner, SendStart, SendClose, BusAnswersWatch, DispatchClose, Launch, Quit,
          Chooser, OnAuthenticate, Acquired, vars, tx
    <2> QED
      BY <2>5, <2>6, <2>7, <2>8, <2>9, <2>10, <2>11, <2>12, <2>13, <2>14, <2>15
      DEF Next, MainContext, Exited
  <1>2. [P]_vars => [\A c \in Sent : reply[c] = "none" /\ c \notin transactions /\ Obtains(c)
                       => request[c].sender = owner]_vars
    OBVIOUS
  <1> QED BY <1>1, <1>2, Invariance, PTL DEF Spec, ServedOnlyToOwner

(* What has been answered stays answered: a handler answers the Start it    *)
(* holds, which nobody has answered, and a finish only transactions         *)
(* (webauth_transaction_finish, reject_stranger, fail).                     *)
THEOREM AnswersStay == Spec => AnswersAreFinal
  <1> DEFINE P == \A c \in Calls : reply[c] # "none" => reply'[c] = reply[c]
  <1>1. Inv /\ [Next]_vars => P
    <2> SUFFICES ASSUME Inv, [Next]_vars PROVE P
      OBVIOUS
    <2>0. TypeOK /\ TransactionsOK /\ CloseTarget
      BY DEF Inv, TransactionsOK
    <2>1. ASSUME NEW S \in SUBSET transactions, NEW answer, Finish(S, answer) PROVE P
      <3>1. NotDone(S) \subseteq transactions
        BY DEF NotDone
      <3>2. \A c \in NotDone(S) : reply[c] = "none"
        BY <2>0, <3>1 DEF TransactionsOK, CallbacksExactlyWhileLive
      <3> QED BY <2>1, <3>2 DEF Finish
    <2>2. ASSUME UNCHANGED reply PROVE P
      BY <2>2
    <2>3. ASSUME inbox # <<>>, Head(inbox) \in StartMsg, NEW answer,
                 reply' = [reply EXCEPT ![Call] = answer]
          PROVE  P
      <3>1. Call \in Calls /\ reply[Call] = "none"
        BY <2>3, HandledStart DEF Untouched
      <3> QED BY <2>0, <2>3, <3>1 DEF TypeOK, TransactionTypes
    <2>4. CancelAll => P
      BY <2>1 DEF CancelAll
    <2>5. CASE OnGetNameOwnerReply
      BY <2>2, <2>4, <2>5 DEF OnGetNameOwnerReply, OnFrontendVanished, OnFrontendAppeared, tx
    <2>6. CASE OnNameOwnerChanged
      BY <2>2, <2>4, <2>6 DEF OnNameOwnerChanged, OnFrontendAppeared, tx
    <2>7. CASE DispatchStart
      <3>1. inbox # <<>> /\ Head(inbox) \in StartMsg
        BY <2>0, <2>7, HeadLemma, MessageKinds DEF DispatchStart, Delivers
      <3> QED BY <2>2, <2>3, <2>7, <3>1 DEF DispatchStart
    <2>8. CASE ResolveForStart
      <3>1. inbox # <<>> /\ Head(inbox) \in StartMsg
        BY <2>0, <2>8 DEF ResolveForStart, TypeOK, HandlerTypes
      <3> QED BY <2>2, <2>3, <2>8, <3>1 DEF ResolveForStart
    <2>9. CASE VerifyStart
      <3>1. inbox # <<>> /\ Head(inbox) \in StartMsg
        BY <2>0, <2>9 DEF VerifyStart, TypeOK, HandlerTypes
      <3>2. AnswerAtOnce("access_denied") \/ HandleStart
        BY <2>9 DEF VerifyStart
      <3>3. ASSUME NEW answer, AnswerAtOnce(answer) PROVE P
        BY <2>3, <3>1, <3>3 DEF AnswerAtOnce
      <3>4. AbortStart(Call) => P
        BY <2>3, <3>1 DEF AbortStart
      <3>5. Admit(Call) => P
        BY <2>2 DEF Admit
      <3> QED BY <3>2, <3>3, <3>4, <3>5 DEF HandleStart
    <2>10. CASE OnRequestClose
      <3>1. \/ UNCHANGED tx
            \/ Finish({Call}, "request_closed") /\ Call \in transactions
        BY <2>0, <2>10 DEF OnRequestClose, CloseTarget
      <3> QED BY <2>1, <2>2, <3>1 DEF tx
    <2>11. CASE HandleClose
      BY <2>2, <2>11 DEF HandleClose
    <2>12. ASSUME NEW c \in Calls, OnDeadline(c) PROVE P
      <3>1. c \in transactions
        BY <2>0, <2>12 DEF OnDeadline, TransactionsOK, CallbacksExactlyWhileLive
      <3> QED BY <2>1, <2>12, <3>1 DEF OnDeadline
    <2>13. ASSUME NEW c \in Calls, Engine(c) PROVE P
      <3>1. PICK answer \in Answers : EndSession(c, answer)
        BY <2>13, AnswerKinds
        DEF Engine, OnCancel, CompleteOn, OnLoadFailed, OnLoadFailedTls, OnWebProcessTerminated
      <3>2. c \in transactions
        BY <2>0, <3>1 DEF EndSession, TransactionsOK, CallbacksExactlyWhileLive
      <3> QED BY <2>1, <3>1, <3>2 DEF EndSession
    <2>14. CASE Shutdown
      BY <2>4, <2>14 DEF Shutdown
    <2>15. CASE Peer \/ BusAnswersWatch \/ DispatchClose \/ Launch \/ Quit
               \/ Chooser \/ UNCHANGED vars
      BY <2>2, <2>15
      DEF Peer, ChangeOwner, SendStart, SendClose, BusAnswersWatch, DispatchClose, Launch, Quit,
          Chooser, OnAuthenticate, Acquired, vars, tx
    <2> QED
      BY <2>5, <2>6, <2>7, <2>8, <2>9, <2>10, <2>11, <2>12, <2>13, <2>14, <2>15
      DEF Next, MainContext, Exited
  <1>2. Inv /\ [Next]_vars => [P]_vars
    BY <1>1
  <1>3. [P]_vars => [\A c \in Calls : reply[c] # "none" => reply'[c] = reply[c]]_vars
    OBVIOUS
  <1> QED BY <1>2, <1>3, Invariance, PTL DEF Spec, AnswersAreFinal

(* A Close is answered with success only by its second check, when the      *)
(* first has ended the transaction (on_request_close,                       *)
(* webauth_impl_request_handle_close).                                      *)
THEOREM CloseHasEnded == Spec => CloseEnds
  <1> DEFINE P == \A k \in Closes : closing[k] = "queued" /\ closing'[k] = "ok"
                    => Call \notin transactions' /\ reply'[Call] # "none"
  <1>1. Inv /\ [Next]_vars => P
    <2> SUFFICES ASSUME Inv, [Next]_vars PROVE P
      OBVIOUS
    <2>0. closing \in [Closes -> CloseAnswers \cup {"unsent", "queued"}]
      BY DEF Inv, TypeOK, CallTypes
    <2>1. ASSUME UNCHANGED closing PROVE P
      BY <2>1
    <2>2. ASSUME NEW k, NEW answer, answer # "ok", closing' = [closing EXCEPT ![k] = answer]
          PROVE  P
      BY <2>0, <2>2
    <2>3. CASE HandleClose
      <3>1. Call \in done /\ UNCHANGED <<transactions, reply>>
        BY <2>3 DEF HandleClose, Inv, CloseTarget
      <3>2. Call \notin transactions' /\ reply'[Call] # "none"
        BY <3>1 DEF Inv, CallbacksExactlyWhileLive, TransactionsAreSent
      <3> QED BY <3>2
    <2>4. CASE OnRequestClose
      BY <2>1, <2>2, <2>4 DEF OnRequestClose, AnswerClose
    <2>5. CASE DispatchClose
      BY <2>1, <2>2, <2>5 DEF DispatchClose, AnswerClose
    <2>6. ASSUME NEW k \in Closes, NEW p \in Peers, NEW h \in Handles, SendClose(k, p, h) PROVE P
      BY <2>2, <2>6 DEF SendClose
    <2>7. CASE Shutdown
      <3>1. \A k \in Closes : closing[k] = "queued" => closing'[k] = "lost"
        BY <2>7 DEF Shutdown
      <3> QED BY <3>1
    <2>8. CASE \/ \E new \in Owners : ChangeOwner(new)
               \/ \E c \in Calls, p \in Peers, h \in Handles, valid \in BOOLEAN, t \in TimeoutRequests :
                    SendStart(c, p, h, valid, t)
               \/ BusAnswersWatch \/ Launch \/ Quit \/ Chooser
      BY <2>1, <2>8
      DEF ChangeOwner, SendStart, BusAnswersWatch, Launch, Quit, Chooser, OnAuthenticate, Acquired
    <2>9. CASE \/ OnGetNameOwnerReply \/ OnNameOwnerChanged
               \/ DispatchStart \/ ResolveForStart \/ VerifyStart
      BY <2>1, <2>9
      DEF OnGetNameOwnerReply, OnNameOwnerChanged, DispatchStart, ResolveForStart, VerifyStart
    <2>10. CASE \E c \in Calls : OnDeadline(c) \/ Engine(c)
      BY <2>1, <2>10
      DEF OnDeadline, Engine, OnCancel, CompleteOn, OnLoadFailed, OnLoadFailedTls,
          OnWebProcessTerminated, EndSession
    <2>11. CASE UNCHANGED vars
      BY <2>1, <2>11 DEF vars
    <2> QED
      BY <2>3, <2>4, <2>5, <2>6, <2>7, <2>8, <2>9, <2>10, <2>11
      DEF Next, Peer, MainContext, Exited
  <1>2. Inv /\ [Next]_vars => [P]_vars
    BY <1>1
  <1>3. [P]_vars => [\A k \in Closes : closing[k] = "queued" /\ closing'[k] = "ok"
                       => Call \notin transactions' /\ reply'[Call] # "none"]_vars
    OBVIOUS
  <1> QED BY <1>2, <1>3, Invariance, PTL DEF Spec, CloseEnds

-----------------------------------------------------------------------------
(* The owner cache.  News is what the watcher will tell it: what is queued  *)
(* last decides, and is true.                                               *)
News(m) == m \in NoticeMsg \cup WatchMsg
NewsQueued == \E i \in 1 .. Len(inbox) : News(inbox[i])
HeededNotice == \E i \in 1 .. Len(inbox) : /\ inbox[i] \in NoticeMsg
                                           /\ watch = "settled" \/ WatchQueued(i)
CacheIsCurrent == failedLookups = 0 => frontend_owner = owner
LastIsCurrent ==
    \E i \in 1 .. Len(inbox) : /\ News(inbox[i]) /\ inbox[i].new = owner
                               /\ \A j \in 1 .. Len(inbox) : News(inbox[j]) => j <= i

(* The watcher's own query is answered once.                                *)
WatchOnce ==
    \A i \in 1 .. Len(inbox) : inbox[i] \in WatchMsg =>
        /\ watch = "answered"
        /\ \A j \in 1 .. Len(inbox) : inbox[j] \in WatchMsg => i = j

LatestNews ==
    Up /\ watch \in {"answered", "settled"} =>
      LastIsCurrent \/ (watch = "settled" /\ CacheIsCurrent /\ ~NewsQueued)

(* A cache that lookups have filled, none of which failed, is right, or a   *)
(* notice will put it right.                                                *)
ResolvedCache ==
    owner_resolved /\ failedLookups = 0 => /\ watch \in {"answered", "settled"}
                                           /\ Up => CacheIsCurrent \/ HeededNotice

(* No call is younger than the last change of owner, and one as young was   *)
(* sent by that owner: no notice is queued behind it, nor left when it is a *)
(* transaction.                                                             *)
Tenures ==
    \A c \in Sent : request[c].tenure <= ownerChanges /\ (InTenure(c) => request[c].sender = owner)
NoNoticeBehind ==
    \A i, j \in 1 .. Len(inbox) :
        inbox[i] \in StartMsg /\ inbox[j] \in NoticeMsg /\ i < j => ~InTenure(inbox[i].call)
NoNoticeFor == NoticeQueued => \A c \in transactions : ~InTenure(c)

CacheInv ==
    WatchOnce /\ LatestNews /\ ResolvedCache /\ Tenures /\ NoNoticeBehind /\ NoNoticeFor

(* A message is queued.                                                     *)
LEMMA CacheQueues ==
    ASSUME TypeOK, Inv, CacheInv, Up, NEW m \in Message, inbox' = Append(inbox, m),
           UNCHANGED <<phase, cache, failedLookups, transactions>>,
           IF m \in WatchMsg THEN watch = "asked" /\ watch' = "answered" ELSE watch' = watch,
           IF m \in NoticeMsg THEN ownerChanges' = ownerChanges + 1
                              ELSE ownerChanges' = ownerChanges /\ owner' = owner,
           News(m) => m.new = owner',
           \A c \in Sent : request'[c] = request[c],
           Tenures'
    PROVE  CacheInv'
  <1>0. TypeOK /\ transactions \subseteq Sent /\ WatchOnce /\ LatestNews /\ ResolvedCache /\ Tenures
        /\ NoNoticeBehind /\ NoNoticeFor
    BY DEF Inv, TransactionsAreSent, CacheInv
  <1>1. /\ Len(inbox) \in Nat /\ Len(inbox') = Len(inbox) + 1
        /\ \A i \in 1 .. Len(inbox) : i \in 1 .. Len(inbox') /\ i # Len(inbox') /\ inbox'[i] = inbox[i]
        /\ Len(inbox') \in 1 .. Len(inbox') /\ inbox'[Len(inbox')] = m
        /\ \A i \in 1 .. Len(inbox') : i = Len(inbox') \/ i \in 1 .. Len(inbox)
    BY <1>0, AppendLemma DEF TypeOK, InboxTypes
  <1>2. Up' /\ UNCHANGED <<frontend_owner, owner_resolved>>
    BY DEF Up, cache
  <1>3. WatchOnce'
    <2>1. CASE m \in WatchMsg
      <3>1. \A i \in 1 .. Len(inbox) : inbox[i] \notin WatchMsg
        BY <1>0, <2>1 DEF WatchOnce
      <3> QED BY <1>1, <2>1, <3>1 DEF WatchOnce
    <2>2. CASE m \notin WatchMsg
      BY <1>0, <1>1, <2>2 DEF WatchOnce
    <2> QED BY <2>1, <2>2
  <1>4. LatestNews'
    <2>1. CASE News(m)
      <3>1. \A j \in 1 .. Len(inbox') : j <= Len(inbox')
        BY <1>1
      <3>2. LastIsCurrent'
        BY <1>1, <2>1, <3>1 DEF LastIsCurrent, News
      <3> QED BY <3>2 DEF LatestNews
    <2>2. CASE ~News(m)
      <3>1. UNCHANGED <<watch, owner>>
        BY <2>2 DEF News
      <3>2. \A i \in 1 .. Len(inbox') : News(inbox'[i]) => i \in 1 .. Len(inbox)
        BY <1>1, <2>2
      <3>3. LastIsCurrent => LastIsCurrent'
        BY <1>1, <3>1, <3>2 DEF LastIsCurrent, News
      <3>4. ~NewsQueued => ~NewsQueued'
        BY <1>1, <3>2 DEF NewsQueued, News
      <3>5. CacheIsCurrent => CacheIsCurrent'
        BY <1>2, <3>1 DEF CacheIsCurrent
      <3> QED BY <1>0, <3>1, <3>3, <3>4, <3>5 DEF LatestNews
    <2> QED BY <2>1, <2>2
  <1>5. ResolvedCache'
    <2> SUFFICES ASSUME owner_resolved, failedLookups = 0
                 PROVE  watch' \in {"answered", "settled"} /\ (CacheIsCurrent \/ HeededNotice)'
      BY <1>2 DEF ResolvedCache
    <2>1. watch \in {"answered", "settled"} /\ (CacheIsCurrent \/ HeededNotice) /\ m \notin WatchMsg
          /\ watch' = watch
      BY <1>0 DEF ResolvedCache
    <2>2. ASSUME NEW i \in 1 .. Len(inbox'), WatchQueued(i) PROVE WatchQueued(i)'
      BY <1>1, <2>2 DEF WatchQueued
    <2>3. HeededNotice => HeededNotice'
      BY <1>1, <2>1, <2>2 DEF HeededNotice
    <2>4. CASE m \in NoticeMsg
      <3>1. watch = "settled" \/ WatchQueued(Len(inbox'))
        BY <1>1, <2>1 DEF Inv, WatchIsAhead
      <3>2. HeededNotice'
        BY <1>1, <2>1, <2>2, <2>4, <3>1 DEF HeededNotice
      <3> QED BY <2>1, <3>2
    <2>5. CASE m \notin NoticeMsg
      BY <1>2, <2>1, <2>3, <2>5 DEF CacheIsCurrent
    <2> QED BY <2>4, <2>5
  <1>6. \A c \in Sent : m \in NoticeMsg => ~InTenure(c)'
    BY <1>0 DEF Tenures, InTenure, TypeOK, OwnerTypes, CallTypes, Request, NoTenure
  <1>7. \A c \in Sent : m \notin NoticeMsg => (InTenure(c)' <=> InTenure(c))
    BY DEF InTenure
  <1>8. NoNoticeBehind'
    <2> SUFFICES ASSUME NEW i \in 1 .. Len(inbox'), NEW j \in 1 .. Len(inbox'),
                        inbox'[i] \in StartMsg, inbox'[j] \in NoticeMsg, i < j
                 PROVE  request'[inbox'[i].call].tenure # ownerChanges'
      BY DEF NoNoticeBehind, InTenure
    <2>1. i \in 1 .. Len(inbox) /\ inbox'[i] = inbox[i] /\ inbox[i].call \in Sent
      BY <1>0, <1>1 DEF TypeOK, InboxTypes
    <2>2. CASE m \in NoticeMsg
      BY <1>6, <2>1, <2>2 DEF InTenure
    <2>3. CASE m \notin NoticeMsg
      <3>1. j \in 1 .. Len(inbox) /\ inbox'[j] = inbox[j]
        BY <1>1, <2>3
      <3> QED BY <1>0, <1>7, <2>1, <2>3, <3>1 DEF NoNoticeBehind, InTenure
    <2> QED BY <2>2, <2>3
  <1>9. NoNoticeFor'
    <2>1. CASE m \in NoticeMsg
      BY <1>0, <1>6, <2>1 DEF NoNoticeFor
    <2>2. CASE m \notin NoticeMsg
      <3>1. NoticeQueued' => NoticeQueued
        BY <1>1, <2>2 DEF NoticeQueued
      <3> QED BY <1>0, <1>7, <2>2, <3>1 DEF NoNoticeFor
    <2> QED BY <2>1, <2>2
  <1> QED BY <1>3, <1>4, <1>5, <1>8, <1>9 DEF CacheInv

(* The head is dropped.  News that is heeded has become the content of the  *)
(* cache; otherwise a lookup has filled it, or nothing has.                 *)
LEMMA CachePops ==
    ASSUME Inv, CacheInv, Up, inbox # <<>>, inbox' = Tail(inbox),
           UNCHANGED <<owner, ownerChanges, request, phase>>,
           IF Head(inbox) \in WatchMsg THEN watch' = "settled" ELSE watch' = watch,
           News(Head(inbox)) /\ watch' = "settled" => frontend_owner' = Head(inbox).new,
           ~(News(Head(inbox)) /\ watch' = "settled") => (CacheIsCurrent => CacheIsCurrent'),
           owner_resolved' /\ failedLookups' = 0 =>
             \/ owner_resolved /\ failedLookups = 0
             \/ watch' \in {"answered", "settled"} /\ CacheIsCurrent',
           \A c \in transactions' : c \in transactions \/ (Head(inbox) \in StartMsg /\ c = Call)
    PROVE  CacheInv'
  <1>0. TypeOK /\ transactions \subseteq Sent /\ WatchOnce /\ LatestNews /\ ResolvedCache /\ Tenures
        /\ NoNoticeBehind /\ NoNoticeFor
    BY DEF Inv, TransactionsAreSent, CacheInv
  <1>1. /\ Len(inbox) \in Nat \ {0} /\ Len(inbox') = Len(inbox) - 1
        /\ \A i \in 1 .. Len(inbox') : i + 1 \in 1 .. Len(inbox) /\ inbox'[i] = inbox[i + 1]
        /\ \A i \in 1 .. Len(inbox) : i = 1 \/ (i - 1 \in 1 .. Len(inbox') /\ inbox'[i - 1] = inbox[i])
        /\ Head(inbox) = inbox[1] /\ 1 \in 1 .. Len(inbox)
    BY <1>0, PopShift DEF TypeOK
  <1>2. Up' /\ \A c : InTenure(c)' <=> InTenure(c)
    BY DEF Up, InTenure
  <1>3. WatchOnce'
    <2> SUFFICES ASSUME NEW i \in 1 .. Len(inbox'), inbox'[i] \in WatchMsg
                 PROVE  /\ watch' = "answered"
                        /\ \A j \in 1 .. Len(inbox') : inbox'[j] \in WatchMsg => i = j
      BY DEF WatchOnce
    <2>1. inbox[i + 1] \in WatchMsg /\ i + 1 \in 1 .. Len(inbox) /\ i + 1 # 1
      BY <1>1
    <2>2. Head(inbox) \notin WatchMsg
      BY <1>0, <1>1, <2>1 DEF WatchOnce
    <2>3. watch = "answered"
      BY <1>0, <2>1 DEF WatchOnce
    <2>4. ASSUME NEW j \in 1 .. Len(inbox'), inbox'[j] \in WatchMsg PROVE i = j
      <3>1. j + 1 \in 1 .. Len(inbox) /\ inbox[j + 1] \in WatchMsg
        BY <1>1, <2>4
      <3>2. i + 1 = j + 1
        BY <1>0, <2>1, <3>1 DEF WatchOnce
      <3> QED BY <3>2
    <2> QED BY <2>2, <2>3, <2>4
  (* The last news is still queued, or it was the head.                     *)
  <1>4. ASSUME LastIsCurrent PROVE LastIsCurrent' \/ (~NewsQueued' /\ inbox[1].new = owner /\ News(inbox[1]))
    <2>1. PICK i \in 1 .. Len(inbox) : /\ News(inbox[i]) /\ inbox[i].new = owner
                                       /\ \A j \in 1 .. Len(inbox) : News(inbox[j]) => j <= i
      BY <1>4 DEF LastIsCurrent
    <2>2. \A j \in 1 .. Len(inbox') : News(inbox'[j]) => j + 1 <= i
      BY <1>1, <2>1
    <2>3. CASE i = 1
      <3>1. \A j \in 1 .. Len(inbox') : ~News(inbox'[j])
        BY <2>2, <2>3
      <3> QED BY <2>1, <2>3, <3>1 DEF NewsQueued, News
    <2>4. CASE i # 1
      <3>1. i - 1 \in 1 .. Len(inbox') /\ inbox'[i - 1] = inbox[i]
        BY <1>1, <2>4
      <3>2. \A j \in 1 .. Len(inbox') : News(inbox'[j]) => j <= i - 1
        BY <2>2
      <3> QED BY <2>1, <3>1, <3>2 DEF LastIsCurrent, News
    <2> QED BY <2>3, <2>4
  <1>5. ASSUME watch' = "answered" PROVE \E i \in 1 .. Len(inbox') : inbox'[i] \in WatchMsg
    <2>1. watch = "answered" /\ Head(inbox) \notin WatchMsg
      BY <1>5
    <2>2. PICK i \in 1 .. ((Len(inbox) + 1) - 1) : inbox[i] \in WatchMsg
      BY <2>1 DEF Inv, WatchIsAhead, WatchQueued
    <2>3. i \in 1 .. Len(inbox) /\ i # 1
      BY <1>1, <2>1, <2>2
    <2> QED BY <1>1, <2>2, <2>3
  <1>6. LatestNews'
    <2> SUFFICES ASSUME watch' \in {"answered", "settled"}
                 PROVE  LastIsCurrent' \/ (watch' = "settled" /\ CacheIsCurrent' /\ ~NewsQueued')
      BY DEF LatestNews
    <2>1. LastIsCurrent \/ (watch = "settled" /\ CacheIsCurrent /\ ~NewsQueued)
      <3>1. watch \in {"answered", "settled"}
        BY <1>0, <1>1 DEF WatchOnce
      <3> QED BY <1>0, <3>1 DEF LatestNews
    <2>2. CASE LastIsCurrent
      <3>1. CASE watch' = "answered"
        BY <1>4, <1>5, <2>2, <3>1 DEF NewsQueued, News
      <3>2. CASE watch' = "settled"
        BY <1>1, <1>4, <2>2, <3>2 DEF CacheIsCurrent
      <3> QED BY <3>1, <3>2
    <2>3. CASE watch = "settled" /\ CacheIsCurrent /\ ~NewsQueued
      <3>1. ~News(Head(inbox)) /\ ~NewsQueued'
        BY <1>1, <2>3 DEF NewsQueued, News
      <3> QED BY <2>3, <3>1 DEF News
    <2> QED BY <2>1, <2>2, <2>3
  <1>7. ResolvedCache'
    <2> SUFFICES ASSUME owner_resolved', failedLookups' = 0
                 PROVE  watch' \in {"answered", "settled"} /\ (CacheIsCurrent' \/ HeededNotice')
      BY DEF ResolvedCache
    <2>1. CASE watch' \in {"answered", "settled"} /\ CacheIsCurrent'
      BY <2>1
    <2>2. CASE owner_resolved /\ failedLookups = 0 /\ ~CacheIsCurrent'
      <3>1. watch' \in {"answered", "settled"} /\ watch \in {"answered", "settled"}
        BY <1>0, <2>2 DEF ResolvedCache
      <3>2. CASE watch' = "settled"
        <4>1. LastIsCurrent'
          BY <1>6, <1>2, <2>2, <3>2 DEF LatestNews
        <4>2. PICK i \in 1 .. Len(inbox') : News(inbox'[i])
          BY <4>1 DEF LastIsCurrent, News
        <4>3. inbox'[i] \in NoticeMsg
          BY <1>3, <3>2, <4>2 DEF WatchOnce, News
        <4> QED BY <3>1, <3>2, <4>3 DEF HeededNotice
      <3>3. CASE watch' = "answered"
        <4>1. watch = "answered" /\ Head(inbox) \notin WatchMsg
          BY <3>3
        <4>2. ~CacheIsCurrent
          BY <2>2, <3>3
        <4>3. PICK i \in 1 .. Len(inbox) : inbox[i] \in NoticeMsg /\ WatchQueued(i)
          BY <1>0, <2>2, <4>1, <4>2 DEF ResolvedCache, HeededNotice
        <4>4. PICK j \in 1 .. (i - 1) : inbox[j] \in WatchMsg
          BY <4>3 DEF WatchQueued
        <4>5. j \in 1 .. Len(inbox) /\ j # 1
          BY <1>1, <4>1, <4>4
        <4>6. j - 1 \in 1 .. ((i - 1) - 1) /\ inbox'[j - 1] \in WatchMsg
          BY <1>1, <4>4, <4>5
        <4>7. i - 1 \in 1 .. Len(inbox') /\ inbox'[i - 1] \in NoticeMsg
          BY <1>1, <4>3, <4>4, <4>5
        <4> QED BY <3>1, <4>6, <4>7 DEF HeededNotice, WatchQueued
      <3> QED BY <3>1, <3>2, <3>3
    <2>3. CASE owner_resolved /\ failedLookups = 0 /\ CacheIsCurrent'
      <3>1. watch' \in {"answered", "settled"}
        BY <1>0, <2>3 DEF ResolvedCache
      <3> QED BY <2>3, <3>1
    <2> QED BY <2>1, <2>2, <2>3
  <1>8. Tenures'
    BY <1>0 DEF Tenures, InTenure, Sent
  <1>9. NoNoticeBehind'
    <2> SUFFICES ASSUME NEW i \in 1 .. Len(inbox'), NEW j \in 1 .. Len(inbox'),
                        inbox'[i] \in StartMsg, inbox'[j] \in NoticeMsg, i < j
                 PROVE  request'[inbox'[i].call].tenure # ownerChanges'
      BY DEF NoNoticeBehind, InTenure
    <2>1. /\ i + 1 \in 1 .. Len(inbox) /\ inbox'[i] = inbox[i + 1]
          /\ j + 1 \in 1 .. Len(inbox) /\ inbox'[j] = inbox[j + 1]
          /\ i + 1 < j + 1
      BY <1>1
    <2>2. ~InTenure(inbox[i + 1].call)
      BY <1>0, <2>1 DEF NoNoticeBehind
    <2> QED BY <2>1, <2>2 DEF InTenure
  <1>10. NoNoticeFor'
    <2> SUFFICES ASSUME NEW j \in 1 .. Len(inbox'), inbox'[j] \in NoticeMsg,
                        NEW c \in transactions'
                 PROVE  ~InTenure(c)
      BY <1>2 DEF NoNoticeFor, NoticeQueued
    <2>1. j + 1 \in 1 .. Len(inbox) /\ inbox[j + 1] \in NoticeMsg /\ 1 < j + 1
      BY <1>1
    <2>2. CASE c \in transactions
      BY <1>0, <2>1, <2>2 DEF NoNoticeFor, NoticeQueued
    <2>3. CASE Head(inbox) \in StartMsg /\ c = Call
      BY <1>0, <1>1, <2>1, <2>3 DEF NoNoticeBehind, Call
    <2> QED BY <2>2, <2>3
  <1> QED BY <1>3, <1>6, <1>7, <1>8, <1>9, <1>10 DEF CacheInv

(* The inbox stays; the backend may start, stop, look the owner up or end   *)
(* transactions.                                                            *)
LEMMA CacheStays ==
    ASSUME Inv, CacheInv, UNCHANGED <<inbox, owner, ownerChanges, request>>,
           \/ UNCHANGED <<watch, phase>>
           \/ phase = "off" /\ watch' = "asked"
           \/ Up /\ UNCHANGED watch,
           CacheIsCurrent => CacheIsCurrent',
           owner_resolved' /\ failedLookups' = 0 =>
             \/ owner_resolved /\ failedLookups = 0
             \/ Up /\ watch' \in {"answered", "settled"} /\ CacheIsCurrent',
           transactions' \subseteq transactions
    PROVE  CacheInv'
  <1>0. WatchOnce /\ LatestNews /\ ResolvedCache /\ Tenures /\ NoNoticeBehind /\ NoNoticeFor
    BY DEF CacheInv
  <1>1. Tenures' /\ NoNoticeBehind' /\ NoNoticeFor'
    BY <1>0 DEF Tenures, NoNoticeBehind, NoNoticeFor, NoticeQueued, InTenure, Sent
  <1>2. CASE phase = "off" /\ watch' = "asked"
    <2>1. watch = "none"
      BY <1>2 DEF Inv, WatchIsAhead
    <2>2. ~(owner_resolved /\ failedLookups = 0) /\ ~Up /\ \A i \in 1 .. Len(inbox) : inbox[i] \notin WatchMsg
      BY <1>0, <1>2, <2>1 DEF ResolvedCache, WatchOnce, Up
    <2> QED BY <1>1, <1>2, <2>2 DEF CacheInv, WatchOnce, LatestNews, ResolvedCache
  <1>3. CASE UNCHANGED watch /\ (Up' => Up)
    <2>1. LastIsCurrent' <=> LastIsCurrent
      BY DEF LastIsCurrent, News
    <2>2. (NewsQueued' <=> NewsQueued) /\ (HeededNotice' <=> HeededNotice)
      BY <1>3 DEF NewsQueued, News, HeededNotice, WatchQueued
    <2>3. WatchOnce'
      BY <1>0, <1>3 DEF WatchOnce
    <2>4. LatestNews'
      BY <1>0, <1>3, <2>1, <2>2 DEF LatestNews
    <2>5. ResolvedCache'
      BY <1>0, <1>3, <2>2 DEF ResolvedCache
    <2> QED BY <1>1, <2>3, <2>4, <2>5 DEF CacheInv
  <1> QED BY <1>2, <1>3 DEF Up

(* A lookup leaves a cache that is right, unless it failed.                 *)
LEMMA LookupIsCurrent ==
    ASSUME TypeOK, NEW result \in LookupResults, ResolveFrontendOwner(result), owner' = owner
    PROVE  CacheIsCurrent' /\ (failedLookups' = 0 => watch # "asked")
  <1>1. CASE watch # "asked" /\ result = owner
    BY <1>1 DEF ResolveFrontendOwner, CacheIsCurrent
  <1>2. CASE ~(watch # "asked" /\ result = owner)
    <2>1. failedLookups' = failedLookups + 1 /\ failedLookups \in Nat
      BY <1>2 DEF ResolveFrontendOwner, TypeOK, OwnerTypes
    <2> QED BY <2>1 DEF CacheIsCurrent
  <1> QED BY <1>1, <1>2

(* CacheInv holds at first,                                                 *)
LEMMA CacheInit ==
    ASSUME Init
    PROVE  CacheInv
  <1>1. inbox = <<>> /\ ~Up /\ ~owner_resolved /\ Sent = {}
    BY DEF Init, Up, Sent
  <1>2. 1 .. Len(inbox) = {}
    BY <1>1
  <1> QED BY <1>1, <1>2 DEF CacheInv, WatchOnce, LatestNews, ResolvedCache, Tenures, NoNoticeBehind,
                            NoNoticeFor, NoticeQueued

(* and no step breaks it.                                                   *)
LEMMA CacheStep ==
    ASSUME Inv, CacheInv, [Next]_vars
    PROVE  CacheInv'
  <1>0. TypeOK /\ CloseTarget /\ Tenures /\ transactions \subseteq Sent
    BY DEF Inv, CacheInv, TransactionsAreSent
  <1>1. ASSUME NEW new \in Owners, ChangeOwner(new) PROVE CacheInv'
    <2> DEFINE m == [type |-> "NameOwnerChanged", old |-> owner, new |-> new]
    <2>1. m \in Message /\ m \in NoticeMsg /\ m \notin WatchMsg /\ m.new = new
      BY <1>0 DEF Message, NoticeMsg, WatchMsg, TypeOK, OwnerTypes
    <2>2. /\ Up /\ inbox' = Append(inbox, m) /\ ownerChanges' = ownerChanges + 1 /\ owner' = new
          /\ UNCHANGED <<phase, watch, cache, failedLookups, transactions, request>>
      BY <1>1 DEF ChangeOwner, tx
    <2>3. Tenures'
      BY <1>0, <2>2 DEF Tenures, InTenure, Sent, TypeOK, OwnerTypes, CallTypes, Request, NoTenure
    <2> HIDE DEF m
    <2> QED BY <1>0, <2>1, <2>2, <2>3, CacheQueues
  <1>2. ASSUME NEW c \in Calls, NEW p \in Peers, NEW h \in Handles, NEW valid \in BOOLEAN,
               NEW t \in TimeoutRequests, SendStart(c, p, h, valid, t)
        PROVE  CacheInv'
    <2> DEFINE m == [type |-> "Start", call |-> c]
    <2>1. m \in Message /\ m \notin NoticeMsg /\ m \notin WatchMsg
      BY DEF Message, StartMsg, NoticeMsg, WatchMsg
    <2>2. /\ Up /\ inbox' = Append(inbox, m) /\ Sent' = Sent \cup {c} /\ c \notin Sent
          /\ \A d \in Sent : request'[d] = request[d]
          /\ request'[c].sender = p
          /\ request'[c].tenure = IF p = owner THEN ownerChanges ELSE NoTenure
          /\ UNCHANGED <<owner, ownerChanges, phase, watch, cache, failedLookups, transactions>>
      BY <1>2 DEF SendStart, Sent, tx
    <2>3. Tenures'
      BY <1>0, <2>2 DEF Tenures, InTenure, TypeOK, OwnerTypes, NoTenure
    <2> HIDE DEF m
    <2> QED BY <1>0, <2>1, <2>2, <2>3, CacheQueues DEF News
  <1>3. UNCHANGED <<request, owner, ownerChanges>> => Tenures'
    BY <1>0 DEF Tenures, InTenure, Sent
  <1>4. ASSUME NEW k \in Closes, NEW p \in Peers, NEW h \in Handles, SendClose(k, p, h)
        PROVE  CacheInv'
    <2> DEFINE m == [type |-> "Close", close |-> k, sender |-> p, call |-> exported[h]]
    <2>1. UNCHANGED <<request, owner, ownerChanges, phase, watch, cache, failedLookups, transactions>>
      BY <1>4 DEF SendClose, bus, tx
    <2>2. CASE inbox' = inbox
      BY <2>1, <2>2, CacheStays DEF CacheIsCurrent, cache
    <2>3. CASE exported[h] # NoCall
      <3>1. m \in Message /\ m \notin NoticeMsg /\ m \notin WatchMsg
        BY <1>0, <2>3 DEF Message, CloseMsg, NoticeMsg, WatchMsg, TypeOK, TransactionTypes
      <3>2. Up /\ inbox' = Append(inbox, m)
        BY <1>4, <2>3 DEF SendClose
      <3> HIDE DEF m
      <3> QED BY <1>0, <1>3, <2>1, <3>1, <3>2, CacheQueues DEF News
    <2> QED BY <1>4, <2>2, <2>3 DEF SendClose
  <1>5. ASSUME BusAnswersWatch PROVE CacheInv'
    <2> DEFINE m == [type |-> "GetNameOwnerReply", new |-> owner]
    <2>1. m \in Message /\ m \in WatchMsg /\ m \notin NoticeMsg /\ m.new = owner
      BY <1>0 DEF Message, WatchMsg, NoticeMsg, TypeOK, OwnerTypes
    <2>2. /\ Up /\ inbox' = Append(inbox, m) /\ watch = "asked" /\ watch' = "answered"
          /\ UNCHANGED <<request, owner, ownerChanges, phase, cache, failedLookups, transactions>>
      BY <1>5 DEF BusAnswersWatch, bus, tx
    <2> HIDE DEF m
    <2> QED BY <1>0, <1>3, <2>1, <2>2, CacheQueues
  <1>6. CancelAll => transactions' \subseteq transactions
    BY DEF CancelAll, Finish, ForgetTransaction
  <1>7. ASSUME OnGetNameOwnerReply PROVE CacheInv'
    <2>1. /\ Up /\ inbox # <<>> /\ inbox' = Tail(inbox) /\ watch' = "settled"
          /\ UNCHANGED <<owner, ownerChanges, request, phase, owner_resolved, failedLookups>>
      BY <1>7 DEF OnGetNameOwnerReply, Delivers, Idle, Handled, bus
    <2>2. Head(inbox) \in WatchMsg
      BY <1>0, <1>7, HeadLemma, MessageKinds DEF OnGetNameOwnerReply, Delivers
    <2>3. frontend_owner' = Head(inbox).new /\ transactions' \subseteq transactions
      BY <1>6, <1>7 DEF OnGetNameOwnerReply, OnFrontendVanished, OnFrontendAppeared, tx
    <2> QED BY <2>1, <2>2, <2>3, CachePops DEF News
  <1>8. ASSUME OnNameOwnerChanged PROVE CacheInv'
    <2>1. /\ Up /\ inbox # <<>> /\ inbox' = Tail(inbox) /\ watch' = watch
          /\ UNCHANGED <<owner, ownerChanges, request, phase, owner_resolved, failedLookups>>
      BY <1>8 DEF OnNameOwnerChanged, Delivers, Idle, Handled, bus, cache
    <2>2. Head(inbox) \in NoticeMsg /\ Head(inbox) \notin WatchMsg
      BY <1>0, <1>8, HeadLemma, MessageKinds DEF OnNameOwnerChanged, Delivers, WatchMsg, NoticeMsg
    <2>3. /\ transactions' \subseteq transactions
          /\ IF watch = "settled" THEN frontend_owner' = Head(inbox).new
                                  ELSE frontend_owner' = frontend_owner
      BY <1>6, <1>8 DEF OnNameOwnerChanged, OnFrontendAppeared, tx, cache
    <2> QED BY <2>1, <2>2, <2>3, CachePops DEF News, CacheIsCurrent
  (* A Start or a Close is handled: its message goes, the cache is as the   *)
  (* lookup left it.                                                        *)
  <1>9. ASSUME Up, inbox # <<>>, Head(inbox) \in StartMsg \cup CloseMsg, Handled,
               UNCHANGED <<owner, ownerChanges, request, phase, watch>>,
               \/ UNCHANGED <<cache, failedLookups>>
               \/ \E result \in LookupResults : ResolveFrontendOwner(result),
               \A c \in transactions' : c \in transactions \/ (Head(inbox) \in StartMsg /\ c = Call)
        PROVE  CacheInv'
    <2>1. Head(inbox) \notin WatchMsg /\ Head(inbox) \notin NoticeMsg /\ inbox' = Tail(inbox)
      BY <1>9 DEF StartMsg, CloseMsg, WatchMsg, NoticeMsg, Handled
    <2>2. CASE UNCHANGED <<cache, failedLookups>>
      BY <1>9, <2>1, <2>2, CachePops DEF News, CacheIsCurrent, cache
    <2>3. CASE \E result \in LookupResults : ResolveFrontendOwner(result)
      <3>1. CacheIsCurrent' /\ (failedLookups' = 0 => watch # "asked")
        BY <1>0, <1>9, <2>3, LookupIsCurrent
      <3>2. failedLookups' = 0 => watch \in {"answered", "settled"}
        BY <1>0, <1>9, <3>1 DEF Inv, WatchIsAhead, Up, TypeOK, OwnerTypes
      <3> QED BY <1>9, <2>1, <3>1, <3>2, CachePops DEF News
    <2> QED BY <1>9, <2>2, <2>3
  (* A handler goes on to a lookup, or past it.                             *)
  <1>10. ASSUME Up, UNCHANGED <<inbox, owner, ownerChanges, request, phase, watch>>,
                \/ UNCHANGED <<cache, failedLookups>>
                \/ \E result \in LookupResults : ResolveFrontendOwner(result),
                transactions' \subseteq transactions
         PROVE  CacheInv'
    <2>1. CASE UNCHANGED <<cache, failedLookups>>
      BY <1>10, <2>1, CacheStays DEF CacheIsCurrent, cache
    <2>2. CASE \E result \in LookupResults : ResolveFrontendOwner(result)
      <3>1. CacheIsCurrent' /\ (failedLookups' = 0 => watch # "asked")
        BY <1>0, <1>10, <2>2, LookupIsCurrent
      <3>2. failedLookups' = 0 => watch \in {"answered", "settled"}
        BY <1>0, <1>10, <3>1 DEF Inv, WatchIsAhead, Up, TypeOK, OwnerTypes
      <3> QED BY <1>10, <3>1, <3>2, CacheStays
    <2> QED BY <1>10, <2>1, <2>2
  <1>11. ASSUME DispatchStart PROVE CacheInv'
    <2>1. Up /\ inbox # <<>> /\ Head(inbox) \in StartMsg
      BY <1>0, <1>11, HeadLemma, MessageKinds DEF DispatchStart, Delivers, Idle
    <2>2. /\ UNCHANGED <<owner, ownerChanges, request, phase, watch, cache, failedLookups, transactions>>
          /\ Handled \/ UNCHANGED inbox
      BY <1>11 DEF DispatchStart, bus
    <2> QED BY <1>9, <1>10, <2>1, <2>2
  <1>12. ASSUME ResolveForStart PROVE CacheInv'
    <2>1. Up /\ inbox # <<>> /\ Head(inbox) \in StartMsg
      BY <1>0, <1>12 DEF ResolveForStart, TypeOK, HandlerTypes
    <2>2. /\ UNCHANGED <<owner, ownerChanges, request, phase, watch, transactions>>
          /\ \E result \in LookupResults : ResolveFrontendOwner(result)
          /\ Handled \/ UNCHANGED inbox
      BY <1>12 DEF ResolveForStart, bus
    <2> QED BY <1>9, <1>10, <2>1, <2>2
  <1>13. ASSUME VerifyStart PROVE CacheInv'
    <2>1. Up /\ inbox # <<>> /\ Head(inbox) \in StartMsg
      BY <1>0, <1>13 DEF VerifyStart, TypeOK, HandlerTypes
    <2>2. /\ UNCHANGED <<owner, ownerChanges, request, phase, watch>> /\ Handled
          /\ \E result \in LookupResults : ResolveFrontendOwner(result)
          /\ transactions' \subseteq transactions \cup {Call}
      BY <1>13 DEF VerifyStart, bus, AnswerAtOnce, HandleStart, Admit, AbortStart
    <2> QED BY <1>9, <2>1, <2>2
  <1>14. ASSUME DispatchClose PROVE CacheInv'
    <2>1. Up /\ inbox # <<>> /\ Head(inbox) \in CloseMsg
      BY <1>0, <1>14, HeadLemma, MessageKinds DEF DispatchClose, Delivers, Idle
    <2>2. /\ UNCHANGED <<owner, ownerChanges, request, phase, watch, cache, failedLookups, transactions>>
          /\ Handled \/ UNCHANGED inbox
      BY <1>14 DEF DispatchClose, AnswerClose, bus, tx
    <2> QED BY <1>9, <1>10, <2>1, <2>2
  <1>15. ASSUME OnRequestClose PROVE CacheInv'
    <2>1. Up /\ inbox # <<>> /\ Head(inbox) \in CloseMsg
      BY <1>0, <1>15 DEF OnRequestClose, TypeOK, HandlerTypes
    <2>2. /\ UNCHANGED <<owner, ownerChanges, request, phase, watch>>
          /\ \E result \in LookupResults : ResolveFrontendOwner(result)
          /\ Handled \/ UNCHANGED inbox
          /\ transactions' \subseteq transactions
      BY <1>15 DEF OnRequestClose, AnswerClose, bus, tx, Finish, ForgetTransaction
    <2> QED BY <1>9, <1>10, <2>1, <2>2
  <1>16. ASSUME HandleClose PROVE CacheInv'
    <2>1. Up /\ inbox # <<>> /\ Head(inbox) \in CloseMsg
      BY <1>0, <1>16 DEF HandleClose, TypeOK, HandlerTypes
    <2>2. /\ UNCHANGED <<owner, ownerChanges, request, phase, watch, transactions>> /\ Handled
          /\ \E result \in LookupResults : ResolveFrontendOwner(result)
      BY <1>16 DEF HandleClose, AnswerClose, bus
    <2> QED BY <1>9, <2>1, <2>2
  <1>17. ASSUME NEW c \in Calls, OnDeadline(c) \/ Engine(c) PROVE CacheInv'
    <2>1. /\ Up /\ UNCHANGED <<inbox, owner, ownerChanges, request, phase, watch, cache, failedLookups>>
          /\ transactions' \subseteq transactions
      BY <1>17 DEF OnDeadline, Engine, OnCancel, CompleteOn, OnLoadFailed, OnLoadFailedTls,
                   OnWebProcessTerminated, EndSession, Finish, ForgetTransaction, Idle, bus
    <2> QED BY <1>10, <2>1
  <1>18. ASSUME Launch PROVE CacheInv'
    <2>1. /\ phase = "off" /\ watch' = "asked" /\ transactions' = transactions
          /\ UNCHANGED <<inbox, owner, ownerChanges, request, cache, failedLookups>>
      BY <1>18 DEF Launch, bus, tx
    <2> QED BY <2>1, CacheStays DEF CacheIsCurrent, cache
  <1>19. ASSUME Quit PROVE CacheInv'
    <2>1. /\ Up /\ transactions' = transactions
          /\ UNCHANGED <<inbox, owner, ownerChanges, request, watch, cache, failedLookups>>
      BY <1>19 DEF Quit, Up, bus, tx
    <2> QED BY <2>1, CacheStays DEF CacheIsCurrent, cache
  <1>20. ASSUME Shutdown PROVE CacheInv'
    <2>1. /\ inbox' = <<>> /\ ~Up'
          /\ UNCHANGED <<watch, owner_resolved, failedLookups, request, owner, ownerChanges>>
      BY <1>20 DEF Shutdown, Up, bus, cache
    <2>2. 1 .. Len(inbox') = {}
      BY <2>1
    <2>3. ResolvedCache'
      BY <2>1 DEF CacheInv, ResolvedCache
    <2> QED BY <1>3, <2>1, <2>2, <2>3
            DEF CacheInv, WatchOnce, LatestNews, NoNoticeBehind, NoNoticeFor, NoticeQueued
  <1>21. ASSUME UNCHANGED vars PROVE CacheInv'
    <2>1. /\ UNCHANGED <<inbox, owner, ownerChanges, request, watch, phase, cache, failedLookups,
                         transactions>>
      BY <1>21 DEF vars, cache
    <2> QED BY <2>1, CacheStays DEF CacheIsCurrent, cache
  <1>22. ASSUME Chooser PROVE CacheInv'
    <2>1. /\ Up /\ transactions' = transactions
          /\ UNCHANGED <<inbox, owner, ownerChanges, request, phase, watch, cache, failedLookups>>
      BY <1>22 DEF Chooser, OnAuthenticate, Acquired, Idle, bus, tx
    <2> QED BY <1>10, <2>1
  <1> QED
    BY <1>1, <1>2, <1>4, <1>5, <1>7, <1>8, <1>11, <1>12, <1>13, <1>14, <1>15, <1>16, <1>17, <1>18,
       <1>19, <1>20, <1>21, <1>22
    DEF Next, Peer, MainContext, Exited

(* In every execution the news in the inbox and the owner cache together    *)
(* know the owner.                                                          *)
THEOREM CacheInvariance == Spec => [](Inv /\ CacheInv)
  <1>1. Init => Inv /\ CacheInv
    BY InvInit, CacheInit
  <1>2. Inv /\ CacheInv /\ [Next]_vars => (Inv /\ CacheInv)'
    BY InvStep, CacheStep
  <1> QED BY <1>1, <1>2, PTL DEF Spec

(* Once no notice is on its way the cache is right, unless a lookup failed  *)
(* (set_frontend_owner's callers).                                          *)
THEOREM CacheSettles == Spec => []CacheConverges
  <1>1. Inv /\ CacheInv => CacheConverges
    <2> SUFFICES ASSUME CacheInv, Up, watch = "settled", ~NoticeQueued, failedLookups = 0
                 PROVE  frontend_owner = owner
      BY DEF CacheConverges
    <2>1. ~LastIsCurrent
      BY DEF CacheInv, WatchOnce, LastIsCurrent, News, NoticeQueued
    <2> QED BY <2>1 DEF CacheInv, LatestNews, CacheIsCurrent
  <1> QED BY <1>1, CacheInvariance, PTL

(* A frontend that keeps the name is refused by neither lookup nor cache    *)
(* (webauth_backend_sender_is_frontend): no notice is behind its call, so   *)
(* the cache is right by the time the call is dispatched.                   *)
THEOREM FrontendServed == Spec => FrontendNotRefused
  <1> DEFINE P == \A c \in Sent : reply[c] = "none" /\ reply'[c] = "access_denied" /\ failedLookups' = 0
                    => ~InTenure(c)
  <1>1. Inv /\ CacheInv /\ [Next]_vars => P
    <2> SUFFICES ASSUME Inv, CacheInv, [Next]_vars PROVE P
      OBVIOUS
    <2>0. /\ TypeOK /\ TransactionsOK /\ CloseTarget /\ Sent \subseteq Calls
          /\ ResolvedCache /\ Tenures /\ NoNoticeBehind
      BY DEF Inv, TransactionsOK, TypeOK, CallTypes, CacheInv
    <2>1. ASSUME NEW S, NEW answer, answer # "access_denied", Finish(S, answer) PROVE P
      BY <2>0, <2>1 DEF Finish
    <2>2. ASSUME UNCHANGED reply PROVE P
      BY <2>2
    <2>3. ASSUME NEW answer, reply' = [reply EXCEPT ![Call] = answer], Call \in Calls,
                 answer = "access_denied" /\ failedLookups' = 0 => ~InTenure(Call)
          PROVE  P
      BY <2>0, <2>3 DEF TypeOK, TransactionTypes
    <2>4. ASSUME NEW result \in LookupResults, ResolveFrontendOwner(result), result # Caller,
                 Head(inbox) \in StartMsg, inbox # <<>>, failedLookups' = 0
          PROVE  ~InTenure(Call)
      <3>1. Call \in Sent /\ Caller = request[Call].sender
        BY <2>4, HandledStart
      <3>2. failedLookups \in Nat
        BY <2>0 DEF TypeOK, OwnerTypes
      <3>3. result = owner
        BY <2>4, <3>2 DEF ResolveFrontendOwner
      <3> QED BY <2>0, <2>4, <3>1, <3>3 DEF Tenures
    <2>5. CASE DispatchStart
      <3>1. inbox # <<>> /\ Head(inbox) \in StartMsg /\ Up /\ failedLookups' = failedLookups
        BY <2>0, <2>5, HeadLemma, MessageKinds DEF DispatchStart, Delivers, Idle
      <3>2. Call \in Sent /\ Call \in Calls /\ Caller = request[Call].sender
        BY <3>1, HandledStart
      <3>3. ASSUME owner_resolved, CacheRefuses, failedLookups = 0 PROVE ~InTenure(Call)
        <4> SUFFICES ASSUME InTenure(Call) PROVE FALSE
          OBVIOUS
        <4>1. Len(inbox) \in Nat /\ Head(inbox) = inbox[1] /\ 1 \in 1 .. Len(inbox)
          BY <2>0, <3>1, TailLemma DEF TypeOK, InboxTypes
        <4>2. \A j \in 1 .. Len(inbox) : inbox[j] \notin NoticeMsg
          <5>1. SUFFICES ASSUME NEW j \in 1 .. Len(inbox), inbox[j] \in NoticeMsg PROVE FALSE
            OBVIOUS
          <5>2. inbox[1] \notin NoticeMsg
            BY <3>1, <4>1 DEF StartMsg, NoticeMsg
          <5>3. 1 < j
            BY <4>1, <5>1, <5>2
          <5> QED BY <2>0, <3>1, <4>1, <5>1, <5>3 DEF NoNoticeBehind, Call
        <4>3. frontend_owner = owner
          BY <2>0, <3>1, <3>3, <4>2 DEF ResolvedCache, HeededNotice, CacheIsCurrent
        <4>4. owner = Caller
          BY <2>0, <3>2 DEF Tenures
        <4> QED BY <3>3, <4>3, <4>4 DEF CacheRefuses
      <3>4. CASE owner_resolved /\ CacheRefuses
        <4>1. reply' = [reply EXCEPT ![Call] = "access_denied"]
          BY <2>5, <3>4 DEF DispatchStart
        <4> QED BY <2>3, <3>1, <3>2, <3>3, <3>4, <4>1
      <3>5. CASE ~(owner_resolved /\ CacheRefuses)
        BY <2>2, <2>5, <3>5 DEF DispatchStart
      <3> QED BY <3>4, <3>5
    <2>6. CASE ResolveForStart
      <3>1. inbox # <<>> /\ Head(inbox) \in StartMsg /\ Call \in Calls
        BY <2>0, <2>6, HandledStart DEF ResolveForStart, TypeOK, HandlerTypes
      <3>2. PICK result \in LookupResults :
              /\ ResolveFrontendOwner(result)
              /\ IF result # Caller
                   THEN reply' = [reply EXCEPT ![Call] = "access_denied"] /\ Handled
                   ELSE pc' = "verify" /\ UNCHANGED <<inbox, reply>>
        BY <2>6 DEF ResolveForStart
      <3>3. CASE result # Caller
        <4>1. failedLookups' = 0 => ~InTenure(Call)
          BY <2>4, <3>1, <3>2, <3>3
        <4> QED BY <2>3, <3>1, <3>2, <3>3, <4>1
      <3>4. CASE result = Caller
        BY <2>2, <3>2, <3>4
      <3> QED BY <3>3, <3>4
    <2>7. CASE VerifyStart
      <3>1. inbox # <<>> /\ Head(inbox) \in StartMsg /\ Call \in Calls
        BY <2>0, <2>7, HandledStart DEF VerifyStart, TypeOK, HandlerTypes
      <3>2. PICK result \in LookupResults :
              /\ ResolveFrontendOwner(result)
              /\ IF result # Caller THEN AnswerAtOnce("access_denied") ELSE HandleStart
        BY <2>7 DEF VerifyStart
      <3>3. CASE result # Caller
        <4>1. failedLookups' = 0 => ~InTenure(Call)
          BY <2>4, <3>1, <3>2, <3>3
        <4> QED BY <2>3, <3>1, <3>2, <3>3, <4>1 DEF AnswerAtOnce
      <3>4. CASE result = Caller
        <4>1. \/ UNCHANGED reply
              \/ reply' = [reply EXCEPT ![Call] = "no_storage"]
              \/ reply' = [reply EXCEPT ![Call] = "invalid_request"]
          BY <3>2, <3>4 DEF HandleStart, Admit, AbortStart, AnswerAtOnce
        <4> QED BY <2>2, <2>3, <3>1, <4>1
      <3> QED BY <3>3, <3>4
    <2>8. CASE OnGetNameOwnerReply \/ OnNameOwnerChanged \/ Shutdown
      BY <2>1, <2>2, <2>8
      DEF OnGetNameOwnerReply, OnNameOwnerChanged, OnFrontendVanished, OnFrontendAppeared, Shutdown,
          CancelAll, tx
    <2>9. CASE OnRequestClose \/ HandleClose
      BY <2>1, <2>2, <2>9 DEF OnRequestClose, HandleClose, tx
    <2>10. ASSUME NEW c \in Calls, OnDeadline(c) \/ Engine(c) PROVE P
      BY <2>1, <2>10
      DEF OnDeadline, Engine, OnCancel, CompleteOn, OnLoadFailed, OnLoadFailedTls,
          OnWebProcessTerminated, EndSession
    <2>11. CASE Peer \/ BusAnswersWatch \/ DispatchClose \/ Launch \/ Quit
               \/ Chooser \/ UNCHANGED vars
      BY <2>2, <2>11
      DEF Peer, ChangeOwner, SendStart, SendClose, BusAnswersWatch, DispatchClose, Launch, Quit,
          Chooser, OnAuthenticate, Acquired, vars, tx
    <2> QED
      BY <2>5, <2>6, <2>7, <2>8, <2>9, <2>10, <2>11 DEF Next, MainContext, Exited
  <1>2. Inv /\ CacheInv /\ [Next]_vars => [P]_vars
    BY <1>1
  <1>3. [P]_vars => [\A c \in Sent : reply[c] = "none" /\ reply'[c] = "access_denied"
                                       /\ failedLookups' = 0 => ~InTenure(c)]_vars
    OBVIOUS
  <1> QED BY <1>2, <1>3, CacheInvariance, PTL DEF Spec, FrontendNotRefused

(* The watcher ends the transactions of a frontend that went, never those   *)
(* of one that stayed (on_frontend_vanished): a notice still queued is      *)
(* older than no call of that frontend, and the first reply names it.       *)
THEOREM NoticesSpare == Spec => NoticesSpareTheFrontend
  <1> DEFINE P == WatchEvent => \A c \in transactions \ transactions' : ~InTenure(c)
  <1>1. Inv /\ CacheInv => P
    <2> SUFFICES ASSUME Inv, CacheInv, OnGetNameOwnerReply \/ OnNameOwnerChanged,
                        NEW c \in transactions, c \notin transactions', InTenure(c)
                 PROVE  FALSE
      BY DEF WatchEvent
    <2>0. /\ TypeOK /\ c \in Sent /\ WatchOnce /\ LatestNews /\ Tenures /\ NoNoticeFor
      BY DEF Inv, TransactionsAreSent, CacheInv
    <2>1. Up /\ inbox # <<>>
      BY DEF OnGetNameOwnerReply, OnNameOwnerChanged, Delivers, Idle
    <2>2. Head(inbox) = inbox[1] /\ 1 \in 1 .. Len(inbox)
      BY <2>0, <2>1, TailLemma DEF TypeOK, InboxTypes
    <2>3. \A i \in 1 .. Len(inbox) : inbox[i] \notin NoticeMsg
      BY <2>0 DEF NoNoticeFor, NoticeQueued
    <2>4. CASE OnNameOwnerChanged
      <3>1. Head(inbox) \in NoticeMsg
        BY <2>0, <2>1, <2>4, HeadLemma, MessageKinds DEF OnNameOwnerChanged, Delivers
      <3> QED BY <2>2, <2>3, <3>1
    <2>5. CASE OnGetNameOwnerReply
      <3>1. Head(inbox) \in WatchMsg
        BY <2>0, <2>1, <2>5, HeadLemma, MessageKinds DEF OnGetNameOwnerReply, Delivers
      <3>2. Head(inbox).new = None
        BY <2>5 DEF OnGetNameOwnerReply, OnFrontendAppeared, tx
      <3>3. watch = "answered"
        BY <2>0, <2>2, <3>1 DEF WatchOnce
      <3>4. PICK i \in 1 .. Len(inbox) : News(inbox[i]) /\ inbox[i].new = owner
        BY <2>0, <2>1, <3>3 DEF LatestNews, LastIsCurrent
      <3>5. i = 1
        BY <2>0, <2>2, <2>3, <3>1, <3>4 DEF WatchOnce, News
      <3>6. request[c].sender = owner /\ request[c].sender \in Peers
        BY <2>0 DEF Tenures, TypeOK, CallTypes, Request
      <3> QED BY <2>2, <3>2, <3>4, <3>5, <3>6, NoneAssumption
    <2> QED BY <2>4, <2>5
  <1>2. Inv /\ CacheInv => [P]_vars
    BY <1>1
  <1>3. [P]_vars => [WatchEvent => \A c \in transactions \ transactions' : ~InTenure(c)]_vars
    OBVIOUS
  <1> QED BY <1>2, <1>3, CacheInvariance, PTL DEF NoticesSpareTheFrontend

-----------------------------------------------------------------------------
(* The contract: where a call stands, before and after a step.              *)
LEMMA Standing ==
    ASSUME NEW c \in Calls
    PROVE  /\ reply[c] = "access_denied" => AbstractCall[c] = "denied"
           /\ reply[c] \notin {"none", "access_denied"} => AbstractCall[c] = "answered"
           /\ reply[c] = "none" /\ c \in transactions => AbstractCall[c] = "admitted"
           /\ reply[c] = "none" /\ c \notin transactions /\ c \notin Sent => AbstractCall[c] = "idle"
           /\ reply[c] = "none" /\ c \notin transactions /\ c \in Sent =>
                AbstractCall[c] = IF phase = "exited" THEN "lost" ELSE "sent"
  BY DEF AbstractCall

LEMMA StandingAfter ==
    ASSUME NEW c \in Calls
    PROVE  /\ reply'[c] = "access_denied" => AbstractCall'[c] = "denied"
           /\ reply'[c] \notin {"none", "access_denied"} => AbstractCall'[c] = "answered"
           /\ reply'[c] = "none" /\ c \in transactions' => AbstractCall'[c] = "admitted"
           /\ reply'[c] = "none" /\ c \notin transactions' /\ c \notin Sent' => AbstractCall'[c] = "idle"
           /\ reply'[c] = "none" /\ c \notin transactions' /\ c \in Sent' =>
                AbstractCall'[c] = IF phase' = "exited" THEN "lost" ELSE "sent"
  BY DEF AbstractCall

(* A call whose answer and transaction stay where they are stands where it  *)
(* stood, and a step in which all do is a stutter of the contract.          *)
LEMMA StandsStill ==
    ASSUME NEW c \in Calls, reply'[c] = reply[c], c \in transactions' <=> c \in transactions,
           c \in Sent' <=> c \in Sent, phase' = "exited" <=> phase = "exited"
    PROVE  AbstractCall'[c] = AbstractCall[c]
  BY DEF AbstractCall

LEMMA ContractStutters ==
    ASSUME UNCHANGED <<request, reply, transactions>>, phase' = "exited" <=> phase = "exited"
    PROVE  /\ UNCHANGED AbstractCall
           /\ UNCHANGED [c \in Sent |-> request[c].sender]
           /\ UNCHANGED (phase = "exited")
  BY DEF AbstractCall, Sent

(* One call moves.                                                          *)
LEMMA OneMoves ==
    ASSUME NEW c \in Calls, NEW standing, AbstractCall'[c] = standing,
           \A d \in Calls : d # c => reply'[d] = reply[d] /\ (d \in transactions' <=> d \in transactions)
                                     /\ (d \in Sent' <=> d \in Sent),
           phase' = "exited" <=> phase = "exited"
    PROVE  AbstractCall' = [AbstractCall EXCEPT ![c] = standing]
  <1>1. \A d \in Calls : d # c => AbstractCall'[d] = AbstractCall[d]
    BY StandsStill
  <1>2. AbstractCall = [d \in Calls |-> AbstractCall[d]] /\ AbstractCall' = [d \in Calls |-> AbstractCall'[d]]
    BY DEF AbstractCall
  <1> QED BY <1>1, <1>2

(* A finish of running transactions concludes them.                         *)
LEMMA FinishConcludes ==
    ASSUME Inv, NEW S \in SUBSET transactions, NEW answer \in Answers \ Refused, Finish(S, answer),
           UNCHANGED <<owner, request, phase>>
    PROVE  [Contract!Next]_Contract!vars
  <1>0. TypeOK /\ TransactionsOK /\ S \subseteq Calls /\ transactions \subseteq Sent
    BY DEF Inv, TransactionsOK, TransactionsAreSent, TypeOK, TransactionTypes
  <1>1. /\ transactions' = transactions \ S
        /\ \A c \in Calls : reply'[c] = IF c \in S THEN answer ELSE reply[c]
    <2>1. NotDone(S) = S
      BY <1>0 DEF NotDone, TransactionsOK, CallbacksExactlyWhileLive
    <2> QED BY <2>1 DEF Finish, ForgetTransaction
  <1>2. answer \notin {"none", "access_denied"}
    BY DEF Answers, Terminal, Refused
  <1>3. \A c \in S : AbstractCall[c] = "admitted" /\ AbstractCall'[c] = "answered"
    BY <1>0, <1>1, <1>2, Standing, StandingAfter DEF TransactionsOK, CallbacksExactlyWhileLive
  <1>4. \A c \in Calls \ S : AbstractCall'[c] = AbstractCall[c]
    BY <1>1, StandsStill DEF Sent
  <1>5. AbstractCall' = [c \in Calls |-> IF c \in S THEN "answered" ELSE AbstractCall[c]]
    <2>1. AbstractCall' = [c \in Calls |-> AbstractCall'[c]]
      BY DEF AbstractCall
    <2> QED BY <1>3, <1>4, <2>1
  <1>6. UNCHANGED <<[c \in Sent |-> request[c].sender], phase = "exited">>
    BY DEF Sent
  <1>7. CASE S = {}
    <2>1. AbstractCall' = AbstractCall
      <3>1. AbstractCall = [c \in Calls |-> AbstractCall[c]]
        BY DEF AbstractCall
      <3> QED BY <1>5, <1>7, <3>1
    <2> QED BY <1>6, <2>1 DEF Contract!vars
  <1>8. CASE S # {}
    <2>1. S \in SUBSET Calls /\ S \subseteq Contract!In("admitted")
      BY <1>0, <1>3 DEF Contract!In
    <2>2. Contract!Conclude(S)
      BY <1>5, <1>6, <1>8, <2>1 DEF Contract!Conclude
    <2> QED BY <2>1, <2>2 DEF Contract!Next
  <1> QED BY <1>7, <1>8

(* The Start at the head, sent and untouched, is denied, or for the owner   *)
(* settled or admitted.                                                     *)
LEMMA HeadMoves ==
    ASSUME Inv, Up, inbox # <<>>, Head(inbox) \in StartMsg, UNCHANGED <<owner, request, phase>>,
           \A d \in Calls : d # Call => reply'[d] = reply[d] /\ (d \in transactions' <=> d \in transactions),
           \/ reply'[Call] = "access_denied"
           \/ /\ request[Call].sender = owner
              /\ \/ reply'[Call] \notin {"none", "access_denied"}
                 \/ reply'[Call] = "none" /\ Call \in transactions'
    PROVE  [Contract!Next]_Contract!vars
  <1>1. Call \in Sent /\ Call \in Calls /\ Untouched(Call)
    BY HandledStart
  <1>2. AbstractCall[Call] = "sent"
    BY <1>1, Standing DEF Untouched, Up
  <1>3. UNCHANGED <<[c \in Sent |-> request[c].sender], phase = "exited">> /\ Sent' = Sent
    BY DEF Sent
  <1>4. [c \in Sent |-> request[c].sender][Call] = request[Call].sender
    BY <1>1
  <1>5. CASE reply'[Call] = "access_denied"
    <2>1. AbstractCall' = [AbstractCall EXCEPT ![Call] = "denied"]
      BY <1>1, <1>3, <1>5, OneMoves, StandingAfter
    <2>2. Contract!Deny(Call)
      BY <1>2, <1>3, <2>1 DEF Contract!Deny
    <2> QED BY <1>1, <2>2 DEF Contract!Next
  <1>6. CASE request[Call].sender = owner /\ reply'[Call] \notin {"none", "access_denied"}
    <2>1. AbstractCall' = [AbstractCall EXCEPT ![Call] = "answered"]
      BY <1>1, <1>3, <1>6, OneMoves, StandingAfter
    <2>2. Contract!Settle(Call)
      BY <1>2, <1>3, <1>4, <1>6, <2>1 DEF Contract!Settle
    <2> QED BY <1>1, <2>2 DEF Contract!Next
  <1>7. CASE request[Call].sender = owner /\ reply'[Call] = "none" /\ Call \in transactions'
    <2>1. AbstractCall' = [AbstractCall EXCEPT ![Call] = "admitted"]
      BY <1>1, <1>3, <1>7, OneMoves, StandingAfter
    <2>2. Contract!Admit(Call)
      BY <1>2, <1>3, <1>4, <1>7, <2>1 DEF Contract!Admit
    <2> QED BY <1>1, <2>2 DEF Contract!Next
  <1> QED BY <1>5, <1>6, <1>7

LEMMA ContractInit ==
    ASSUME Init
    PROVE  Contract!Init
  <1>1. Sent = {} /\ owner \in Peers \cup {None} /\ (phase = "exited") = FALSE
    BY DEF Init, Sent, Owners
  <1>2. [c \in Sent |-> request[c].sender] = [c \in {} |-> None]
    BY <1>1
  <1>3. AbstractCall = [c \in Calls |-> "idle"]
    <2>1. \A c \in Calls : AbstractCall[c] = "idle"
      BY <1>1, Standing DEF Init
    <2>2. AbstractCall = [c \in Calls |-> AbstractCall[c]]
      BY DEF AbstractCall
    <2> QED BY <2>1, <2>2
  <1> QED BY <1>1, <1>2, <1>3 DEF Contract!Init

(* Every step of the backend is a step of the contract, or none.            *)
LEMMA ContractStep ==
    ASSUME Inv, [Next]_vars
    PROVE  [Contract!Next]_Contract!vars
  <1>0. TypeOK /\ TransactionsOK /\ CloseTarget
    BY DEF Inv, TransactionsOK
  <1>1. ASSUME UNCHANGED <<owner, request, reply, transactions>>, phase' = "exited" <=> phase = "exited"
        PROVE  UNCHANGED Contract!vars
    BY <1>1, ContractStutters DEF Contract!vars
  <1>2. {"request_closed", "timeout", "user_cancelled", "completed", "load_failed", "tls_error",
         "session_terminated"} \subseteq Answers \ Refused
    BY DEF Answers, Refused, Terminal
  <1>3. CancelAll /\ UNCHANGED <<owner, request, phase>> => [Contract!Next]_Contract!vars
    BY <1>2, FinishConcludes DEF CancelAll
  <1>4. ASSUME NEW new \in Owners, ChangeOwner(new) PROVE Contract!Next
    <2>1. new \in Peers \cup {None} /\ owner' = new /\ UNCHANGED <<request, reply, transactions, phase>>
      BY <1>4 DEF ChangeOwner, tx, Owners
    <2>2. Contract!ChangeOwner
      BY <2>1, ContractStutters DEF Contract!ChangeOwner
    <2> QED BY <2>2 DEF Contract!Next
  <1>5. ASSUME NEW c \in Calls, NEW p \in Peers, NEW h \in Handles, NEW valid \in BOOLEAN,
               NEW t \in TimeoutRequests, SendStart(c, p, h, valid, t)
        PROVE  Contract!Next
    <2>1. /\ c \notin Sent /\ Sent' = Sent \cup {c} /\ phase # "exited" /\ phase' = phase
          /\ \A d \in Sent : request'[d] = request[d]
          /\ request'[c].sender = p
          /\ UNCHANGED <<owner, reply, transactions>>
      BY <1>5 DEF SendStart, Sent, Up, tx
    <2>2. reply[c] = "none" /\ c \notin transactions
      BY <1>0, <2>1 DEF TransactionsOK, TransactionsAreSent
    <2>3. AbstractCall[c] = "idle" /\ AbstractCall'[c] = "sent"
      BY <2>1, <2>2, Standing, StandingAfter
    <2>4. AbstractCall' = [AbstractCall EXCEPT ![c] = "sent"]
      BY <2>1, <2>3, OneMoves
    <2>5. [d \in Sent' |-> request'[d].sender]
            = [d \in Contract!Submitted \cup {c} |->
                 IF d = c THEN p ELSE [e \in Sent |-> request[e].sender][d]]
      BY <2>1 DEF Contract!Submitted
    <2>6. Contract!Submit(c, p)
      BY <2>1, <2>3, <2>4, <2>5 DEF Contract!Submit
    <2> QED BY <2>6 DEF Contract!Next
  <1>6. CASE OnGetNameOwnerReply
    BY <1>1, <1>3, <1>6 DEF OnGetNameOwnerReply, OnFrontendVanished, OnFrontendAppeared, tx, bus
  <1>7. CASE OnNameOwnerChanged
    BY <1>1, <1>3, <1>7 DEF OnNameOwnerChanged, OnFrontendAppeared, tx, bus
  <1>8. ASSUME Up, inbox # <<>>, Head(inbox) \in StartMsg, reply' = [reply EXCEPT ![Call] = "access_denied"],
               UNCHANGED <<owner, request, phase, transactions>>
        PROVE  [Contract!Next]_Contract!vars
    <2>1. Call \in Calls
      BY <1>8, HandledStart
    <2> QED BY <1>0, <1>8, <2>1, HeadMoves DEF TypeOK, TransactionTypes
  <1>9. CASE DispatchStart
    <2>1. Up /\ inbox # <<>> /\ Head(inbox) \in StartMsg
      BY <1>0, <1>9, HeadLemma, MessageKinds DEF DispatchStart, Delivers, Idle
    <2> QED BY <1>1, <1>8, <1>9, <2>1 DEF DispatchStart, bus
  <1>10. CASE ResolveForStart
    <2>1. Up /\ inbox # <<>> /\ Head(inbox) \in StartMsg
      BY <1>0, <1>10 DEF ResolveForStart, TypeOK, HandlerTypes
    <2> QED BY <1>1, <1>8, <1>10, <2>1 DEF ResolveForStart, bus
  <1>11. CASE VerifyStart
    <2>1. PICK result \in LookupResults :
            IF result # Caller THEN AnswerAtOnce("access_denied") ELSE HandleStart
      BY <1>11 DEF VerifyStart
    <2>2. /\ Up /\ inbox # <<>> /\ Head(inbox) \in StartMsg /\ UNCHANGED <<owner, request, phase>>
      BY <1>0, <1>11 DEF VerifyStart, TypeOK, HandlerTypes, bus
    <2>3. Call \in Calls /\ Caller \in Peers /\ Caller = request[Call].sender /\ reply[Call] = "none"
      BY <1>0, <2>2, HeadLemma, HandledStart DEF Untouched
    <2>4. CASE result # Caller
      BY <1>8, <2>1, <2>2, <2>4 DEF AnswerAtOnce
    <2>5. CASE result = Caller
      <3>1. request[Call].sender = owner
        BY <2>3, <2>5, NoneAssumption DEF LookupResults
      <3>2. /\ \A d \in Calls : d # Call => reply'[d] = reply[d] /\ (d \in transactions' <=> d \in transactions)
            /\ \/ reply'[Call] \notin {"none", "access_denied"}
               \/ reply'[Call] = "none" /\ Call \in transactions'
        BY <1>0, <2>1, <2>3, <2>5
        DEF HandleStart, Admit, AbortStart, AnswerAtOnce, TypeOK, TransactionTypes
      <3> QED BY <2>2, <3>1, <3>2, HeadMoves
    <2> QED BY <2>4, <2>5
  <1>12. CASE OnRequestClose
    <2>1. \/ UNCHANGED tx
          \/ Finish({Call}, "request_closed") /\ Call \in transactions
      BY <1>0, <1>12 DEF OnRequestClose, CloseTarget
    <2>2. UNCHANGED <<owner, request, phase>>
      BY <1>12 DEF OnRequestClose, bus
    <2> QED BY <1>1, <1>2, <2>1, <2>2, FinishConcludes DEF tx
  <1>13. CASE HandleClose \/ DispatchClose \/ BusAnswersWatch
    BY <1>1, <1>13 DEF HandleClose, DispatchClose, BusAnswersWatch, tx, bus
  <1>14. ASSUME NEW c \in Calls, OnDeadline(c) \/ Engine(c) PROVE [Contract!Next]_Contract!vars
    <2>1. PICK answer \in Answers \ Refused : Finish({c}, answer)
      BY <1>2, <1>14
      DEF OnDeadline, Engine, OnCancel, CompleteOn, OnLoadFailed, OnLoadFailedTls,
          OnWebProcessTerminated, EndSession
    <2>2. UNCHANGED <<owner, request, phase>> /\ c \in transactions
      BY <1>0, <1>14
      DEF OnDeadline, Engine, OnCancel, CompleteOn, OnLoadFailed, OnLoadFailedTls,
          OnWebProcessTerminated, EndSession, TransactionsOK, CallbacksExactlyWhileLive, bus
    <2> QED BY <2>1, <2>2, FinishConcludes
  <1>15. CASE Shutdown
    <2>1. /\ phase # "exited" /\ phase' = "exited" /\ UNCHANGED <<owner, request>>
          /\ Finish(transactions, "session_terminated")
      BY <1>15 DEF Shutdown, CancelAll, bus
    <2>2. NotDone(transactions) = transactions
      BY <1>0 DEF NotDone, TransactionsOK, CallbacksExactlyWhileLive
    <2>3. /\ transactions' = {}
          /\ \A c \in Calls : reply'[c] = IF c \in transactions THEN "session_terminated" ELSE reply[c]
      BY <2>1, <2>2 DEF Finish, ForgetTransaction
    <2>4. UNCHANGED [c \in Sent |-> request[c].sender] /\ Sent' = Sent
      BY <2>1 DEF Sent
    <2>5. \A c \in transactions : reply[c] = "none"
      BY <1>0 DEF TransactionsOK, CallbacksExactlyWhileLive
    <2>6. ASSUME NEW c \in Calls
          PROVE  AbstractCall'[c] = CASE AbstractCall[c] = "admitted" -> "answered"
                                      [] AbstractCall[c] = "sent"     -> "lost"
                                      [] OTHER                        -> AbstractCall[c]
      <3>1. CASE c \in transactions
        <4>1. AbstractCall[c] = "admitted" /\ AbstractCall'[c] = "answered"
          BY <2>3, <2>5, <3>1, Standing, StandingAfter
        <4> QED BY <4>1
      <3>2. CASE c \notin transactions /\ reply[c] = "none" /\ c \in Sent
        <4>1. AbstractCall[c] = "sent" /\ AbstractCall'[c] = "lost"
          BY <2>1, <2>3, <2>4, <3>2, Standing, StandingAfter
        <4> QED BY <4>1
      <3>3. CASE c \notin transactions /\ (reply[c] # "none" \/ c \notin Sent)
        <4>1. AbstractCall[c] \in {"denied", "answered", "idle"} /\ AbstractCall'[c] = AbstractCall[c]
          BY <2>3, <2>4, <3>3, Standing, StandingAfter
        <4> QED BY <4>1
      <3> QED BY <3>1, <3>2, <3>3
    <2>7. AbstractCall' = [c \in Calls |-> CASE AbstractCall[c] = "admitted" -> "answered"
                                             [] AbstractCall[c] = "sent"     -> "lost"
                                             [] OTHER                        -> AbstractCall[c]]
      <3>1. AbstractCall' = [c \in Calls |-> AbstractCall'[c]]
        BY DEF AbstractCall
      <3> QED BY <2>6, <3>1
    <2>8. Contract!Stop
      BY <2>1, <2>4, <2>7 DEF Contract!Stop
    <2> QED BY <2>8 DEF Contract!Next
  <1>16. ASSUME NEW k \in Closes, NEW p \in Peers, NEW h \in Handles, SendClose(k, p, h)
         PROVE  UNCHANGED Contract!vars
    BY <1>1, <1>16 DEF SendClose, tx, bus
  <1>17. CASE Launch \/ Quit \/ Chooser
    BY <1>1, <1>17 DEF Launch, Quit, Chooser, OnAuthenticate, Acquired, tx, bus
  <1>18. CASE UNCHANGED vars
    BY <1>1, <1>18 DEF vars
  <1> QED
    BY <1>4, <1>5, <1>6, <1>7, <1>9, <1>10, <1>11, <1>12, <1>13, <1>14, <1>15, <1>16, <1>17, <1>18
    DEF Next, Peer, MainContext, Exited

(* The backend does what the contract of Start allows, and nothing else.    *)
THEOREM Refinement == Spec => ImplementsContract
  <1>1. Init => Contract!Init
    BY ContractInit
  <1>2. Inv /\ [Next]_vars => [Contract!Next]_Contract!vars
    BY ContractStep
  <1> QED BY <1>1, <1>2, Invariance, PTL DEF Spec, ImplementsContract, Contract!Spec
=============================================================================
