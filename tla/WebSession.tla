------------------------------ MODULE WebSession ------------------------------
(***************************************************************************)
(* One WebKit session (src/webkit-session.c): the handlers that decide     *)
(* navigations, follow loads, answer certificate challenges and end the    *)
(* transaction, and the origin they show (chrome.c).  The engine is        *)
(* external: the events it raises, in the orders it may raise them, and    *)
(* what it answers to webkit_web_view_get_uri and _get_tls_info.           *)
(*                                                                         *)
(* Teardown disconnects every handler and frees the session, so nothing    *)
(* happens once the transaction has a result.                              *)
(***************************************************************************)
EXTENDS FiniteSets

CONSTANTS
    Hosts,
    NoHost     \* a URI without a host, and a NULL host

ASSUME NoHostAssumption == NoHost \notin Hosts

VARIABLES
    stage,            \* "new", "presented" or "finished"
    pending_host,     \* the host of the last navigation decided, in any frame
    current_host,     \* the host the main frame was last seen loading or showing
    pending_reason,   \* why a certificate challenge was declined, or "none"
    origin,           \* the host shown in the window
    icon,             \* "plain", "secure" or "insecure"
    result,           \* how the transaction ended, or "none"
    load,             \* engine: the main frame's load
    view_host,        \* engine: the host of webkit_web_view_get_uri
    page_host,        \* engine: the host of the page on display
    tls_info,         \* engine: the page on display came over verified TLS
    doomed,           \* engine: the load lost its connection to a declined challenge
    survived          \* a page loaded fully after the last declined challenge

session == <<stage, pending_host, current_host, pending_reason, origin, icon, result>>
engine == <<load, view_host, page_host, tls_info, doomed>>
vars == <<session, engine, survived>>

URIHosts == Hosts \cup {NoHost}
Loads == {"idle", "provisional", "committed", "finished", "aborted"}
CertificateReasons == {"credential_unavailable", "unrelated_certificate_challenge"}
Results == CertificateReasons \cup
    {"completed", "user_cancelled", "load_failed", "tls_error", "session_terminated", "ended"}

Init ==
    /\ stage = "new"
    /\ pending_host = NoHost /\ current_host = NoHost
    /\ pending_reason = "none"
    /\ origin = NoHost /\ icon = "plain"
    /\ result = "none"
    /\ load = "idle"
    /\ view_host = NoHost /\ page_host = NoHost
    /\ tls_info = FALSE
    /\ doomed = FALSE
    /\ survived = FALSE

Presented == stage = "presented"
Loading == Presented /\ load = "provisional"

-----------------------------------------------------------------------------
(* A missing host leaves the icon of the last one.                          *)
webauth_chrome_set_origin(host, secure) ==
    /\ origin' = host
    /\ icon' = IF host = NoHost THEN icon ELSE IF secure THEN "secure" ELSE "insecure"

(* webauth_transaction_finish, whose teardown ends the session.             *)
Finish(answer) ==
    /\ result' = answer
    /\ stage' = "finished"
    /\ UNCHANGED <<pending_host, current_host, pending_reason, origin, icon>>

Present(host) ==
    /\ stage = "new"
    /\ stage' = "presented"
    /\ pending_host' = host
    /\ webauth_chrome_set_origin(host, TRUE)
    /\ UNCHANGED <<current_host, pending_reason, result, engine, survived>>

-----------------------------------------------------------------------------
(* decide-policy.  A navigation of any frame moves pending_host; a match,   *)
(* seen as navigation or as response, completes the flow.                   *)
DecideNavigation(host) ==
    /\ Presented
    /\ pending_host' = host
    /\ UNCHANGED <<stage, current_host, pending_reason, origin, icon, result, engine, survived>>

CompleteOn ==
    /\ Presented
    /\ Finish("completed")
    /\ UNCHANGED <<engine, survived>>

-----------------------------------------------------------------------------
(* load-changed.  The TLS information is still that of the page on display  *)
(* until the new one commits.                                               *)
update_origin(host, secure) == webauth_chrome_set_origin(host, secure)

(* mutants: a redirect is only waited for; hosts are read at the commit       *)
RedirectIgnored(host) ==
    UNCHANGED <<current_host, origin, icon>>
ReadAtCommit(host) ==
    current_host' = current_host /\ update_origin(host, tls_info)

FollowRedirect(host) ==
    /\ current_host' = host
    /\ update_origin(host, tls_info)

FollowStart(host) ==
    /\ current_host' = host
    /\ update_origin(host, tls_info)

LoadStarted(host) ==
    /\ Presented /\ load # "provisional"
    /\ load' = "provisional" /\ view_host' = host
    /\ FollowStart(host)
    /\ UNCHANGED <<stage, pending_host, pending_reason, result, page_host, tls_info, doomed, survived>>

LoadRedirected(host) ==
    /\ Loading /\ ~doomed
    /\ view_host' = host
    /\ FollowRedirect(host)
    /\ UNCHANGED <<stage, pending_host, pending_reason, result, load, page_host, tls_info,
                   doomed, survived>>

LoadCommitted(verified) ==
    /\ Loading /\ ~doomed
    /\ verified => view_host # NoHost
    /\ load' = "committed" /\ page_host' = view_host /\ tls_info' = verified
    /\ current_host' = view_host
    /\ update_origin(view_host, verified)
    /\ UNCHANGED <<stage, pending_host, pending_reason, result, view_host, doomed, survived>>

LoadFinished ==
    /\ Presented /\ load = "committed"
    /\ load' = "finished"
    /\ update_origin(current_host, tls_info)
    /\ survived' = (pending_reason # "none")
    /\ UNCHANGED <<stage, pending_host, current_host, pending_reason, result, view_host,
                   page_host, tls_info, doomed>>

-----------------------------------------------------------------------------
(* load-failed.  A cancelled load is no failure, unless a declined          *)
(* challenge cancelled it; the engine then reports the load finished and    *)
(* its view returns to the page on display.                                 *)
GenericReason == "load_failed"  \* mutant: the challenge is not remembered
PendingReason == pending_reason  \* mutant: there is no other reason
Reason == IF pending_reason # "none" THEN pending_reason ELSE "load_failed"

Abandon ==
    /\ load' = "aborted" /\ view_host' = page_host
    /\ update_origin(current_host, tls_info)
    /\ UNCHANGED <<stage, pending_host, current_host, pending_reason, result, page_host,
                   tls_info, doomed, survived>>

(* mutant: every cancelled load is skipped                                    *)
CancelledIsIgnored == Abandon

OnCancelledLoad ==
    IF pending_reason = "none"
      THEN Abandon
      ELSE Finish(Reason) /\ UNCHANGED <<engine, survived>>

(* A new navigation, or the page itself, stops the load; or the refused     *)
(* challenge did.                                                           *)
LoadCancelled == Loading /\ OnCancelledLoad

LoadFailed ==
    /\ Loading /\ ~doomed
    /\ Finish(Reason)
    /\ UNCHANGED <<engine, survived>>

LoadFailedTls ==
    /\ Loading /\ ~doomed
    /\ Finish("tls_error")
    /\ UNCHANGED <<engine, survived>>

-----------------------------------------------------------------------------
(* authenticate.  A challenge comes from the connection of the main load or *)
(* of another resource.  Declining cancels that connection, and with it the *)
(* load it served.                                                          *)
challenge_is_related(host) ==
    host # NoHost /\ (host = pending_host \/ host = current_host)

Decline(reason, main) ==
    /\ pending_reason' = reason
    /\ doomed' = (doomed \/ main)
    /\ survived' = FALSE

Accept == UNCHANGED <<pending_reason, doomed, survived>>

(* The provider may be missing, and it may find no certificate.             *)
OnCertificateRequested(host, main) ==
    /\ IF challenge_is_related(host)
         THEN Accept \/ Decline("credential_unavailable", main)
         ELSE Decline("unrelated_certificate_challenge", main)
    /\ UNCHANGED <<stage, pending_host, current_host, origin, icon, result, load, view_host,
                   page_host, tls_info>>

OnPinRequested(main) ==
    /\ Accept \/ Decline("credential_unavailable", main)
    /\ UNCHANGED <<stage, pending_host, current_host, origin, icon, result, load, view_host,
                   page_host, tls_info>>

MainChallenge == Loading /\ ~doomed /\ view_host # NoHost
                   /\ (OnCertificateRequested(view_host, TRUE) \/ OnPinRequested(TRUE))
ResourceChallenge == Presented
    /\ \/ \E host \in Hosts : OnCertificateRequested(host, FALSE)
       \/ OnPinRequested(FALSE)

-----------------------------------------------------------------------------
OnCancel ==
    /\ Presented
    /\ Finish("user_cancelled")
    /\ UNCHANGED <<engine, survived>>

OnWebProcessTerminated ==
    /\ Presented
    /\ Finish("session_terminated")
    /\ UNCHANGED <<engine, survived>>

(* Deadline, Close, loss of the frontend, exit: Backend.tla.                *)
EndedElsewhere ==
    /\ Presented
    /\ Finish("ended")
    /\ UNCHANGED <<engine, survived>>

Finished == stage = "finished" /\ UNCHANGED vars

Next ==
    \/ \E host \in Hosts : Present(host)
    \/ \E host \in URIHosts : DecideNavigation(host) \/ LoadStarted(host) \/ LoadRedirected(host)
    \/ CompleteOn
    \/ \E verified \in BOOLEAN : LoadCommitted(verified)
    \/ LoadFinished
    \/ LoadCancelled \/ LoadFailed \/ LoadFailedTls
    \/ MainChallenge \/ ResourceChallenge
    \/ OnCancel \/ OnWebProcessTerminated \/ EndedElsewhere
    \/ Finished

Spec == Init /\ [][Next]_vars

(* The engine reports a load that it has already cancelled.                 *)
FairSpec == Spec /\ WF_vars(doomed /\ LoadCancelled)

-----------------------------------------------------------------------------
(* Properties.                                                              *)

(* The variables keep their types, and a session ends with a result.        *)
TypeOK ==
    /\ stage \in {"new", "presented", "finished"}
    /\ {pending_host, current_host, origin, view_host, page_host} \subseteq URIHosts
    /\ pending_reason \in CertificateReasons \cup {"none"}
    /\ icon \in {"plain", "secure", "insecure"}
    /\ result \in Results \cup {"none"}
    /\ stage = "finished" <=> result # "none"
    /\ load \in Loads
    /\ {tls_info, doomed, survived} \subseteq BOOLEAN

Followed == load \in {"provisional", "committed", "finished"}

(* The window names the host of the page being loaded or shown, through     *)
(* redirects and while subframes navigate.                                  *)
OriginFollowsLoads == Presented /\ Followed => origin = view_host

(* The challenge of the page's own connection is never taken for a          *)
(* stranger's, whatever other frames have moved pending_host to meanwhile.  *)
OwnChallengeIsRelated == Loading /\ view_host # NoHost => challenge_is_related(view_host)

(* "A declined certificate challenge also cancels the load; pending_reason  *)
(* must still terminate the transaction" (webkit-session.c:278): a window   *)
(* whose load is lost to a declined challenge does not stay open.           *)
DeclinedLoadEnds == doomed ~> result # "none"

(* ... and the answer names the certificate, not the load.                  *)
DeclineIsNamed ==
    [][doomed /\ result = "none" /\ result' # "none"
         => result' \notin {"load_failed", "tls_error"}]_vars

(* "an optional certificate challenge need not fail a flow that can         *)
(* continue without it" (docs/SECURITY.md:238): a flow whose page loaded    *)
(* fully after the challenge is not failed for the certificate later.       *)
ContinuedFlowIsNotFailed ==
    [][result = "none" /\ result' \in CertificateReasons => ~survived]_vars

(* "@origin and @secure must come from the engine and follow redirects"     *)
(* (src/chrome.h:26), of the security indicator: a secure connection to a   *)
(* host is shown only when the engine has verified one.                     *)
SecureIsTheEngines == Presented /\ icon = "secure" => tls_info /\ origin = page_host

(* The same line, of the origin: once loading has begun, the host shown is  *)
(* the host of the engine's view.                                           *)
OriginIsTheViews == Presented /\ load # "idle" => origin = view_host
=============================================================================
