------------------------------- MODULE Storage -------------------------------
(***************************************************************************)
(* Where a transaction keeps website data (src/storage.c, and the network  *)
(* session src/webkit-session.c builds): in memory for an ephemeral one,   *)
(* under a directory named from the application id for a shared one.       *)
(*                                                                         *)
(* Disk contents outlive the process; sessions do not.  An application id  *)
(* is a sequence of characters; the empty one is an unidentified caller.   *)
(* Of a store's contents only who put cookies there is kept.               *)
(***************************************************************************)
EXTENDS Naturals, Sequences

CONSTANTS
    Transactions,
    AppIds,
    Plain,                       \* letters, digits, "-" and "_"
    Other,                       \* the characters that are neither plain nor a dot
    WEBAUTH_MAX_DIRECTORY_NAME

ASSUME CharacterAssumption == "_" \in Plain /\ "." \notin Plain /\ Other \cap Plain = {}
ASSUME AppIdAssumption == AppIds \subseteq Seq(Plain \cup {"."} \cup Other)
ASSUME LengthAssumption == WEBAUTH_MAX_DIRECTORY_NAME \in Nat \ {0}

VARIABLES
    data, cache,   \* names whose data/ and cache/ directories exist
    jar,           \* of each name, who has cookies in data/cookies.sqlite
    session        \* of each transaction: who asked for what, and what came of it

disk == <<data, cache, jar>>
vars == <<disk, session>>

(* What an options dictionary may say of session_mode.                       *)
Requests == {"absent", "shared", "ephemeral", "unknown"}

(* mutant: every known mode is the default                                   *)
AlwaysShared(value) == "shared"

webauth_session_mode_parse(value) == IF value = "absent" THEN "shared" ELSE value

webauth_storage_effective_mode(requested, id) ==
    IF id = << >> THEN "ephemeral" ELSE requested

AtMost(n, ceiling) == IF n < ceiling THEN n ELSE ceiling

(* The copying loop: it stops at the limit, and what is no plain character   *)
(* becomes an underscore.                                                    *)
Sanitised(id) ==
    [i \in 1 .. AtMost(Len(id), WEBAUTH_MAX_DIRECTORY_NAME) |->
        IF id[i] \in Plain \cup {"."} THEN id[i] ELSE "_"]

LeadingDots(s) ==
    CHOOSE n \in 0 .. Len(s) : (\A i \in 1 .. n : s[i] = ".") /\ (n < Len(s) => s[n + 1] # ".")

(* mutant: dots are removed wherever they are                                *)
Undotted(id) == SelectSeq(Sanitised(id), LAMBDA c : c # ".")

(* mutant: one leading dot is removed                                        *)
OneDotOff(id) == LET s == Sanitised(id)
                 IN  IF s # << >> /\ s[1] = "." THEN Tail(s) ELSE s

(* The empty sequence stands for NULL.                                       *)
webauth_storage_directory_name(id) ==
    LET s == Sanitised(id) IN SubSeq(s, LeadingDots(s) + 1, Len(s))

Name(id) == webauth_storage_directory_name(id)
Names == {Name(id) : id \in AppIds}

Records == [app : AppIds \cup {<< >>}, asked : Requests, mode : {"shared", "ephemeral"},
            state : {"unborn", "open", "refused", "ended"}]
None == [app |-> << >>, asked |-> "absent", mode |-> "shared", state |-> "unborn"]

Init ==
    /\ data = {} /\ cache = {}
    /\ jar = [n \in Names |-> {}]
    /\ session = [t \in Transactions |-> None]

Becomes(t, r, state) == session' = [session EXCEPT ![t] = [r EXCEPT !.state = state]]

-----------------------------------------------------------------------------
(* build_network_session: an ephemeral session, unless WebKit has none to    *)
(* give.                                                                     *)
OpenEphemeral(t, r) ==
    /\ \E state \in {"open", "refused"} : Becomes(t, r, state)
    /\ UNCHANGED disk

(* webauth_storage_paths: both directories are there before the session is,  *)
(* or the request fails with no_storage.                                     *)
NoData(t, r) ==
    /\ Name(r.app) = << >> \/ Name(r.app) \notin data
    /\ Becomes(t, r, "refused")
    /\ UNCHANGED disk

NoCache(t, r) ==
    /\ Name(r.app) # << >> /\ Name(r.app) \notin cache
    /\ data' = data \cup {Name(r.app)}
    /\ Becomes(t, r, "refused")
    /\ UNCHANGED <<cache, jar>>

(* mutant: a data directory is taken for a whole store                       *)
TrustsData(t, r) ==
    /\ Name(r.app) # << >>
    /\ data' = data \cup {Name(r.app)}
    /\ cache' = IF Name(r.app) \in data THEN cache ELSE cache \cup {Name(r.app)}
    /\ Becomes(t, r, "open")
    /\ UNCHANGED jar

BothMade(t, r) ==
    /\ Name(r.app) # << >>
    /\ data' = data \cup {Name(r.app)} /\ cache' = cache \cup {Name(r.app)}
    /\ Becomes(t, r, "open")
    /\ UNCHANGED jar

OpenShared(t, r) == NoData(t, r) \/ NoCache(t, r) \/ BothMade(t, r)

(* handle_start: a session_mode it does not know refuses the request.        *)
RefuseMode(t, id) ==
    /\ session[t].state = "unborn"
    /\ Becomes(t, [None EXCEPT !.app = id, !.asked = "unknown"], "refused")
    /\ UNCHANGED disk

Start(t, id, asked) ==
    LET mode == webauth_storage_effective_mode(webauth_session_mode_parse(asked), id)
        r == [app |-> id, asked |-> asked, mode |-> mode, state |-> "unborn"]
    IN  /\ session[t].state = "unborn"
        /\ \/ mode = "ephemeral" /\ OpenEphemeral(t, r)
           \/ mode # "ephemeral" /\ OpenShared(t, r)

(* A page sets a cookie; an ephemeral session keeps it in memory, where      *)
(* nobody else finds it.                                                     *)
SetCookie(t) ==
    /\ session[t].state = "open" /\ session[t].mode = "shared"
    /\ jar' = [jar EXCEPT ![Name(session[t].app)] = @ \cup {session[t].app}]
    /\ UNCHANGED <<data, cache, session>>

(* The transaction finishes, and its session with it.                        *)
End(t) ==
    /\ session[t].state = "open"
    /\ session' = [session EXCEPT ![t].state = "ended"]
    /\ UNCHANGED disk

(* The process ends, however it does, with every session it has.             *)
Exit ==
    /\ \E t \in Transactions : session[t].state = "open"
    /\ session' = [t \in Transactions |->
                     IF session[t].state = "open" THEN [session[t] EXCEPT !.state = "ended"]
                     ELSE session[t]]
    /\ UNCHANGED disk

Next ==
    \/ \E t \in Transactions, id \in AppIds :
          RefuseMode(t, id) \/ \E asked \in Requests \ {"unknown"} : Start(t, id, asked)
    \/ \E t \in Transactions : SetCookie(t) \/ End(t)
    \/ Exit

Spec == Init /\ [][Next]_vars

-----------------------------------------------------------------------------
Sharing(t) == session[t].state = "open" /\ session[t].mode = "shared"

(* Whose cookies the pages of a session meet.                                *)
Found(t) == IF Sharing(t) THEN jar[Name(session[t].app)] ELSE {session[t].app}

(* An id the directory name spells out in full.                              *)
SpelledOut(id) ==
    /\ Len(id) \in 1 .. WEBAUTH_MAX_DIRECTORY_NAME
    /\ \A i \in 1 .. Len(id) : id[i] \in Plain \cup {"."}
    /\ id[1] # "."

(* Types of the directories, the jars and the session records.               *)
TypeOK ==
    /\ data \subseteq Names /\ cache \subseteq Names
    /\ jar \in [Names -> SUBSET AppIds]
    /\ session \in [Transactions -> Records]

(* Every directory made is one component of a path, below the directory of   *)
(* the backend and not hidden, whatever the caller called itself             *)
(* (webauth_storage_directory_name).                                         *)
StaysBelow ==
    \A n \in data \cup cache :
        /\ Len(n) \in 1 .. WEBAUTH_MAX_DIRECTORY_NAME
        /\ n[1] # "."
        /\ \A i \in 1 .. Len(n) : n[i] \in Plain \cup {"."}

(* Two applications whose ids are spelled out never find each other's        *)
(* cookies, now or after a restart (webauth_storage_directory_name).         *)
SpelledOutIsIsolated ==
    \A t \in Transactions : Sharing(t) =>
        \A id \in Found(t) : SpelledOut(id) /\ SpelledOut(session[t].app) => id = session[t].app

(* What is on disk comes from requests that asked for it: an application     *)
(* that only ever asked for ephemeral sessions has left nothing there, and   *)
(* neither has a caller without an id (webauth_session_mode_parse,           *)
(* webauth_storage_effective_mode).                                          *)
Asked(id) == \E t \in Transactions :
    session[t].app = id /\ session[t].state # "unborn" /\ session[t].asked \in {"absent", "shared"}
LeavesNoTrace ==
    /\ \A n \in data \cup cache : \E id \in AppIds \ {<< >>} : Name(id) = n /\ Asked(id)
    /\ \A n \in Names : \A id \in jar[n] : id # << >> /\ Name(id) = n /\ Asked(id)

(* A shared session has both its directories, also when an earlier request   *)
(* made one of them and failed on the other (webauth_storage_paths).         *)
StoreIsWhole ==
    \A t \in Transactions : Sharing(t) => Name(session[t].app) \in data \cap cache

(* docs/SECURITY.md:33: "The persistent store is per application".           *)
StorePerApplication ==
    \A t \in Transactions : Sharing(t) => Found(t) \subseteq {session[t].app}
=============================================================================
