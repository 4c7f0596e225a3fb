------------------------------ MODULE Completion ------------------------------
(***************************************************************************)
(* The URI rules of src/completion.c, and a session that applies them to   *)
(* the navigations of one flow.  A URI is what the rules tell apart; what  *)
(* g_ascii_strcasecmp and g_uri_parse do to spellings are the constants    *)
(* Lower and Normalise.                                                    *)
(***************************************************************************)
EXTENDS Integers

CONSTANTS
    Schemes, Hosts, Paths,   \* spellings, as written in a URI
    NoHost,                  \* the empty or missing host
    NoPath,                  \* the empty path, as the parser returns it
    Wildcards,               \* the hosts with an asterisk
    Lower,                   \* ASCII lower case of a scheme or host
    Normalise,               \* the path as GLib's parser returns it
    NoURI                    \* no navigation is being decided

ASSUME HostAssumption == NoHost \in Hosts /\ Wildcards \subseteq Hosts \ {NoHost}
ASSUME LowerAssumption ==
    \A h \in Hosts : /\ Lower[h] = Lower[NoHost] <=> h = NoHost
                     /\ \A w \in Wildcards : Lower[h] = Lower[w] => h \in Wildcards

Ports == {-1, 80, 443, 8443}    \* -1: not given

(* `form' is what parse_uri objects to outside the query and the fragment,  *)
(* `result' what stands there: nothing, an answer, or an answer that holds  *)
(* a backslash or makes the URI longer than WEBAUTH_MAX_URI_LENGTH.         *)
URI == [scheme : Schemes, host : Hosts, port : Ports, path : Paths, userinfo : BOOLEAN,
        form : {"good", "bad"}, result : {"none", "plain", "backslash", "long"}]

ASSUME NoURIAssumption == NoURI \notin URI

VARIABLES
    requested,    \* the completion URI of the flow
    started,      \* the start URI was loaded
    navigation,   \* the navigation being decided, or NoURI
    matched       \* it ended the flow

vars == <<requested, started, navigation, matched>>

-----------------------------------------------------------------------------
default_port_for_scheme(scheme) ==
    IF Lower[scheme] = "https" THEN 443 ELSE IF Lower[scheme] = "http" THEN 80 ELSE -1

GivenPort(uri) == uri.port  \* mutant: no default ports
effective_port(uri) ==
    IF uri.port # -1 THEN uri.port ELSE default_port_for_scheme(uri.scheme)

scheme_requires_host(scheme) == Lower[scheme] \in {"https", "http"}
uri_has_host(uri) == uri.host # NoHost

parse_uri(uri) ==
    uri.form = "good" /\ uri.result \in {"none", "plain"} /\ ~uri.userinfo

webauth_completion_start_uri_is_valid(uri) ==
    parse_uri(uri) /\ Lower[uri.scheme] = "https" /\ uri_has_host(uri)

webauth_completion_uri_is_valid(uri) ==
    /\ parse_uri(uri)
    /\ uri_has_host(uri) \/ (~scheme_requires_host(uri.scheme) /\ Normalise[uri.path] # NoPath)
    /\ uri.host \notin Wildcards

webauth_completion_matches(candidate, completion) ==
    /\ parse_uri(completion) /\ parse_uri(candidate)
    /\ Lower[completion.scheme] = Lower[candidate.scheme]
    /\ uri_has_host(completion) = uri_has_host(candidate)
    /\ uri_has_host(completion) => Lower[completion.host] = Lower[candidate.host]
    /\ effective_port(completion) = effective_port(candidate)
    /\ Normalise[completion.path] = Normalise[candidate.path]

-----------------------------------------------------------------------------
(* A flow: Start validates both URIs, the first navigation is the start     *)
(* URI, and the first navigation that matches ends the flow; any other is   *)
(* left to the engine.                                                      *)
Init ==
    /\ requested \in {u \in URI : webauth_completion_uri_is_valid(u)}
    /\ started = FALSE
    /\ navigation = NoURI
    /\ matched = FALSE

complete_on(uri) ==
    /\ navigation' = uri
    /\ matched' = webauth_completion_matches(uri, requested)
    /\ UNCHANGED requested

LoadStart ==
    /\ ~started /\ navigation = NoURI
    /\ started' = TRUE
    /\ \E uri \in URI : webauth_completion_start_uri_is_valid(uri) /\ complete_on(uri)

Navigate ==
    /\ started /\ navigation = NoURI
    /\ \E uri \in URI : complete_on(uri)
    /\ UNCHANGED started

LeaveToEngine ==
    /\ navigation # NoURI /\ ~matched
    /\ navigation' = NoURI
    /\ UNCHANGED <<requested, started, matched>>

Done == matched /\ UNCHANGED vars

Next == LoadStart \/ Navigate \/ LeaveToEngine \/ Done

Spec == Init /\ [][Next]_vars

-----------------------------------------------------------------------------
(* Properties.                                                              *)

TypeOK ==
    /\ requested \in URI
    /\ started \in BOOLEAN
    /\ navigation \in URI \cup {NoURI}
    /\ matched \in BOOLEAN

(* The public rule: two URIs name the same target when they differ in       *)
(* spelling only, and lead to one port.                                     *)
DefaultPort == [s \in {"https", "http"} |-> IF s = "https" THEN 443 ELSE 80]
Connects(uri, port) ==
    \/ uri.port = port
    \/ uri.port = -1 /\ Lower[uri.scheme] \in DOMAIN DefaultPort
                     /\ port = DefaultPort[Lower[uri.scheme]]
SameTarget(u, v) ==
    /\ Lower[u.scheme] = Lower[v.scheme]
    /\ Lower[u.host] = Lower[v.host]
    /\ Normalise[u.path] = Normalise[v.path]
    /\ \/ \E port \in Ports \ {-1} : Connects(u, port) /\ Connects(v, port)
       \/ \A port \in Ports \ {-1} : ~Connects(u, port) /\ ~Connects(v, port)

(* The flow completes on a navigation exactly when it reaches the requested *)
(* target by an acceptable URI, for every pair of spellings: default ports, *)
(* letter case, escapes, and URIs without a host.                           *)
MatchesExactlyTheTarget ==
    navigation # NoURI => (matched <=> parse_uri(navigation) /\ SameTarget(navigation, requested))

(* What completes the flow would itself be accepted as a completion URI, so *)
(* the frontend's second check of the returned URI cannot discard it; a     *)
(* theorem of TextProofs, and no property of a run.                         *)
ResultIsAcceptable == matched => webauth_completion_uri_is_valid(navigation)

(* "Exclude query and fragment from the comparison; they carry the result"  *)
(* (docs/PUBLIC-INTERFACE.md:98).                                           *)
QueryAndFragmentExcluded ==
    navigation # NoURI /\ navigation.form = "good" /\ ~navigation.userinfo
      /\ SameTarget(navigation, requested) => matched
=============================================================================
