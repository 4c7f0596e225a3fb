--------------------------- MODULE WebSessionProofs ---------------------------
(***************************************************************************)
(* What a WebKit session remembers of the engine is what the engine is at, *)
(* for every set of hosts.                                                 *)
(***************************************************************************)
EXTENDS WebSession, TLAPS

(* While a load is followed, the remembered host, the shown host and the     *)
(* engine's host are one; a load lost to a challenge has its reason on       *)
(* record.                                                                   *)
SessionInv ==
    /\ stage = "new" => load = "idle"
    /\ Presented /\ Followed => current_host = view_host /\ origin = view_host
    /\ doomed => pending_reason \in CertificateReasons

(* Ending the transaction leaves what was remembered.                         *)
LEMMA FinishKeeps ==
    ASSUME SessionInv, NEW answer, Finish(answer), UNCHANGED engine
    PROVE  SessionInv'
BY DEF SessionInv, Finish, engine, Presented, Followed

(* So does answering a challenge, which only records a reason.                *)
LEMMA ChallengeKeeps ==
    ASSUME SessionInv, NEW main,
           Accept \/ \E reason \in CertificateReasons : Decline(reason, main),
           UNCHANGED <<stage, current_host, origin, load, view_host>>
    PROVE  SessionInv'
BY DEF SessionInv, Accept, Decline, Presented, Followed

(* Both kinds of challenge are accepted, or declined with a reason.           *)
LEMMA RequestsAreChallenges ==
    /\ \A host, main : OnCertificateRequested(host, main) =>
         /\ Accept \/ \E reason \in CertificateReasons : Decline(reason, main)
         /\ UNCHANGED <<stage, current_host, origin, load, view_host>>
    /\ \A main : OnPinRequested(main) =>
         /\ Accept \/ \E reason \in CertificateReasons : Decline(reason, main)
         /\ UNCHANGED <<stage, current_host, origin, load, view_host>>
BY DEF OnCertificateRequested, OnPinRequested, CertificateReasons

(* Every handler keeps the invariant.                                         *)
LEMMA SessionStep == SessionInv /\ [Next]_vars => SessionInv'
<1> SUFFICES ASSUME SessionInv, [Next]_vars PROVE SessionInv'
    OBVIOUS
<1>1. ASSUME NEW host \in Hosts, Present(host) PROVE SessionInv'
    BY <1>1 DEF Present, engine, SessionInv, Presented, Followed
<1>2. ASSUME NEW host \in URIHosts, DecideNavigation(host) PROVE SessionInv'
    BY <1>2 DEF DecideNavigation, engine, SessionInv, Presented, Followed
<1>3. ASSUME NEW host \in URIHosts, LoadStarted(host) PROVE SessionInv'
    BY <1>3 DEF LoadStarted, FollowStart, update_origin, webauth_chrome_set_origin,
                SessionInv, Presented, Followed
<1>4. ASSUME NEW host \in URIHosts, LoadRedirected(host) PROVE SessionInv'
    BY <1>4 DEF LoadRedirected, FollowRedirect, update_origin, webauth_chrome_set_origin,
                SessionInv, Loading, Presented, Followed
<1>5. ASSUME NEW verified \in BOOLEAN, LoadCommitted(verified) PROVE SessionInv'
    BY <1>5 DEF LoadCommitted, update_origin, webauth_chrome_set_origin,
                SessionInv, Loading, Presented, Followed
<1>6. CASE LoadFinished
    BY <1>6 DEF LoadFinished, update_origin, webauth_chrome_set_origin,
                SessionInv, Presented, Followed
<1>7. CASE LoadCancelled
    <2>1. CASE pending_reason = "none"
        BY <1>7, <2>1 DEF LoadCancelled, OnCancelledLoad, Abandon, SessionInv, Loading,
                          Presented, Followed
    <2>2. CASE pending_reason # "none"
        BY <1>7, <2>2, FinishKeeps DEF LoadCancelled, OnCancelledLoad
    <2> QED BY <2>1, <2>2
<1>8. CASE MainChallenge \/ ResourceChallenge
    BY <1>8, ChallengeKeeps, RequestsAreChallenges DEF MainChallenge, ResourceChallenge
<1>9. CASE \/ CompleteOn \/ LoadFailed \/ LoadFailedTls
           \/ OnCancel \/ OnWebProcessTerminated \/ EndedElsewhere
    BY <1>9, FinishKeeps DEF CompleteOn, LoadFailed, LoadFailedTls, OnCancel,
                             OnWebProcessTerminated, EndedElsewhere
<1>10. CASE UNCHANGED vars
    BY <1>10 DEF vars, session, engine, SessionInv, Presented, Followed
<1> QED
    BY <1>1, <1>2, <1>3, <1>4, <1>5, <1>6, <1>7, <1>8, <1>9, <1>10 DEF Next, Finished

(* The invariant holds throughout a session.                                  *)
LEMMA SessionInvariant == Spec => []SessionInv
<1>1. Init => SessionInv
    BY DEF Init, SessionInv, Presented, Followed
<1> QED BY <1>1, SessionStep, PTL DEF Spec

(* The origin in the window follows the engine through every load.           *)
THEOREM OriginFollows == Spec => []OriginFollowsLoads
<1>1. SessionInv => OriginFollowsLoads
    BY DEF SessionInv, OriginFollowsLoads
<1> QED BY <1>1, SessionInvariant, PTL

(* The page's own certificate challenge is always recognised.                *)
THEOREM OwnChallengeRecognised == Spec => []OwnChallengeIsRelated
<1>1. SessionInv => OwnChallengeIsRelated
    BY DEF SessionInv, OwnChallengeIsRelated, Loading, Presented, Followed, challenge_is_related
<1> QED BY <1>1, SessionInvariant, PTL

(* A load that lost its connection to a declined challenge can end the       *)
(* session only by being reported cancelled, with the reason on record.      *)
THEOREM DeclinesAreNamed == Spec => DeclineIsNamed
<1>1. ASSUME SessionInv, [Next]_vars, doomed, result = "none", result' # "none"
      PROVE  result' \notin {"load_failed", "tls_error"}
  <2>1. pending_reason # "none" /\ Reason \in CertificateReasons
      BY <1>1 DEF SessionInv, Reason, CertificateReasons
  <2>2. CASE LoadCancelled
      BY <2>1, <2>2 DEF LoadCancelled, OnCancelledLoad, Finish, CertificateReasons
  <2>3. CASE CompleteOn \/ OnCancel \/ OnWebProcessTerminated \/ EndedElsewhere
      BY <2>3 DEF CompleteOn, OnCancel, OnWebProcessTerminated, EndedElsewhere, Finish
  <2>4. CASE LoadFailed \/ LoadFailedTls
      BY <1>1, <2>4 DEF LoadFailed, LoadFailedTls
  <2>5. CASE UNCHANGED result
      BY <1>1, <2>5
  <2>6. \/ LoadCancelled \/ LoadFailed \/ LoadFailedTls \/ CompleteOn
        \/ OnCancel \/ OnWebProcessTerminated \/ EndedElsewhere
        \/ UNCHANGED result
      BY <1>1 DEF Next, Present, DecideNavigation, LoadStarted, LoadRedirected, LoadCommitted,
                  LoadFinished, MainChallenge, ResourceChallenge, OnCertificateRequested,
                  OnPinRequested, Finished, vars, session
  <2> QED BY <2>2, <2>3, <2>4, <2>5, <2>6
<1>2. SessionInv /\ [Next]_vars
        => [doomed /\ result = "none" /\ result' # "none"
              => result' \notin {"load_failed", "tls_error"}]_vars
    BY <1>1
<1> QED BY <1>2, SessionInvariant, PTL DEF Spec, DeclineIsNamed

(* Ending a session records a result, and only that.                          *)
LEMMA FinishTypes ==
    ASSUME TypeOK, NEW answer \in Results, Finish(answer), UNCHANGED <<engine, survived>>
    PROVE  TypeOK'
<1>1. answer # "none"
    BY DEF Results, CertificateReasons
<1> QED BY <1>1 DEF TypeOK, Finish, engine

(* A challenge changes the reason, what it dooms, and what survived.          *)
LEMMA ChallengeTypes ==
    ASSUME TypeOK, NEW main \in BOOLEAN,
           Accept \/ \E reason \in CertificateReasons : Decline(reason, main),
           UNCHANGED <<stage, pending_host, current_host, origin, icon, result, load,
                       view_host, page_host, tls_info>>
    PROVE  TypeOK'
BY DEF TypeOK, Accept, Decline

(* Every handler keeps the types.                                             *)
LEMMA TypeStep == TypeOK /\ [Next]_vars => TypeOK'
<1> SUFFICES ASSUME TypeOK, [Next]_vars PROVE TypeOK'
    OBVIOUS
<1> USE DEF URIHosts
<1>1. ASSUME NEW host \in Hosts, Present(host) PROVE TypeOK'
    BY <1>1, NoHostAssumption DEF Present, webauth_chrome_set_origin, engine, TypeOK, Loads
<1>2. ASSUME NEW host \in URIHosts, DecideNavigation(host) PROVE TypeOK'
    BY <1>2 DEF DecideNavigation, engine, TypeOK
<1>3. ASSUME NEW host \in URIHosts, LoadStarted(host) PROVE TypeOK'
    BY <1>3 DEF LoadStarted, FollowStart, update_origin, webauth_chrome_set_origin, TypeOK, Loads
<1>4. ASSUME NEW host \in URIHosts, LoadRedirected(host) PROVE TypeOK'
    BY <1>4 DEF LoadRedirected, FollowRedirect, update_origin, webauth_chrome_set_origin, TypeOK
<1>5. ASSUME NEW verified \in BOOLEAN, LoadCommitted(verified) PROVE TypeOK'
    BY <1>5 DEF LoadCommitted, update_origin, webauth_chrome_set_origin, TypeOK, Loads
<1>6. CASE LoadFinished
    BY <1>6 DEF LoadFinished, update_origin, webauth_chrome_set_origin, TypeOK, Loads
<1>7. CASE LoadCancelled
  <2>1. CASE pending_reason = "none"
      BY <1>7, <2>1 DEF LoadCancelled, OnCancelledLoad, Abandon, update_origin,
                        webauth_chrome_set_origin, TypeOK, Loads
  <2>2. CASE pending_reason # "none"
    <3>1. Reason \in Results
        BY <2>2 DEF TypeOK, Reason, Results
    <3> QED BY <1>7, <2>2, <3>1, FinishTypes DEF LoadCancelled, OnCancelledLoad
  <2> QED BY <2>1, <2>2
<1>8. CASE MainChallenge \/ ResourceChallenge
  <2>1. PICK main \in BOOLEAN :
           (\E host : OnCertificateRequested(host, main)) \/ OnPinRequested(main)
      BY <1>8 DEF MainChallenge, ResourceChallenge
  <2> QED BY <2>1, ChallengeTypes DEF OnCertificateRequested, OnPinRequested, CertificateReasons
<1>9. CASE LoadFailed
  <2>1. Reason \in Results
      BY DEF TypeOK, Reason, Results
  <2> QED BY <1>9, <2>1, FinishTypes DEF LoadFailed
<1>10. CASE CompleteOn \/ LoadFailedTls \/ OnCancel \/ OnWebProcessTerminated \/ EndedElsewhere
    BY <1>10, FinishTypes DEF CompleteOn, LoadFailedTls, OnCancel, OnWebProcessTerminated,
                              EndedElsewhere, Results
<1>11. CASE UNCHANGED vars
    BY <1>11 DEF vars, session, engine, TypeOK
<1> QED
    BY <1>1, <1>2, <1>3, <1>4, <1>5, <1>6, <1>7, <1>8, <1>9, <1>10, <1>11 DEF Next, Finished

(* The variables keep their types, and a session ends exactly with a result. *)
THEOREM TypeCorrect == Spec => []TypeOK
<1>1. Init => TypeOK
    BY DEF Init, TypeOK, URIHosts, Loads
<1> QED BY <1>1, TypeStep, PTL DEF Spec
=============================================================================
