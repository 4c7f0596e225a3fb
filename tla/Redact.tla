-------------------------------- MODULE Redact --------------------------------
(***************************************************************************)
(* What of a value reaches the log (src/redact.c): the copying loop that   *)
(* replaces what a terminal would act on, the shape of a URI, and the cut  *)
(* of an error message before a URI in it.                                 *)
(*                                                                         *)
(* One value is rendered per behaviour.  A value is a sequence of          *)
(* characters, an invalid byte counting as one; p is the number of them    *)
(* the loop has passed and len the length of out in bytes.  The kinds that *)
(* render as a length or as "<secret>" show no character and are left out. *)
(***************************************************************************)
EXTENDS Integers, Sequences

CONSTANTS
    Characters,
    Space,         \* g_ascii_isspace
    Unprintable,   \* g_unichar_iscntrl, G_UNICODE_FORMAT, and " "
    Invalid,       \* bytes that are not UTF-8
    Width,         \* of each character, its bytes
    Candidates,    \* "://" and "pkcs11:", as sequences of characters
    Messages,      \* the values
    Schemes,       \* the schemes of the URIs among them
    Elided,        \* "<uri-elided>"
    WEBAUTH_MAX_LOGGED_VALUE

Sign == {"?", "_", "-"}
ASSUME CharacterAssumption ==
    /\ Space \subseteq Unprintable /\ Unprintable \subseteq Characters /\ Invalid \subseteq Characters
    /\ Invalid \cap Unprintable = {}
    /\ Sign \subseteq Characters \ (Unprintable \cup Invalid)
    /\ Elided \notin Characters
ASSUME WidthAssumption == Width \in [Characters -> 1 .. 4] /\ \A c \in Sign : Width[c] = 1
ASSUME CandidateAssumption ==
    Candidates \subseteq Seq(Characters \ Space) /\ << >> \notin Candidates
ASSUME MessageAssumption ==
    Messages \subseteq Seq(Characters) /\ Schemes \subseteq Seq(Characters \ (Unprintable \cup Invalid))
ASSUME LimitAssumption == WEBAUTH_MAX_LOGGED_VALUE \in Nat \ {0}

VARIABLES
    kind,      \* "field" (webauth_redact_field), "shape" (uri_shape) or "error" (error_text)
    message, scheme,
    pc,        \* "search", "back", "copy" or "done"
    end,       \* how much of the message may be copied
    elided,    \* a URI was found
    p, out, len

value == <<kind, message, scheme>>
vars == <<value, pc, end, elided, p, out, len>>

Init ==
    /\ kind \in {"field", "shape", "error"}
    /\ message \in Messages
    /\ scheme \in IF kind = "shape" THEN Schemes ELSE {<< >>}
    /\ pc = IF kind = "error" THEN "search" ELSE "copy"
    /\ end = Len(message) /\ elided = FALSE
    /\ p = 0 /\ out = << >> /\ len = 0

-----------------------------------------------------------------------------
(* strstr: where a candidate begins.                                         *)
Found(c) == {i \in 1 .. Len(message) : /\ i + Len(c) - 1 <= Len(message)
                                       /\ \A j \in 1 .. Len(c) : message[i + j - 1] = c[j]}
FoundAny == UNION {Found(c) : c \in Candidates}

NoneFound ==
    /\ FoundAny = {}
    /\ pc' = "copy"
    /\ UNCHANGED <<end, elided>>

(* mutant: the last occurrence is taken                                      *)
CutLast ==
    /\ \E i \in FoundAny : (\A j \in FoundAny : j <= i) /\ end' = i - 1
    /\ elided' = TRUE /\ pc' = "back"

CutFirst ==
    /\ \E i \in FoundAny : (\A j \in FoundAny : i <= j) /\ end' = i - 1
    /\ elided' = TRUE /\ pc' = "back"

Search ==
    /\ pc = "search"
    /\ NoneFound \/ CutFirst
    /\ UNCHANGED <<value, p, out, len>>

(* mutant: text before the URI is dropped up to the start of the message     *)
AnyBefore == end > 0

InWord == end > 0 /\ message[end] \notin Space

(* The cut moves back to the start of the word.                              *)
Back ==
    /\ pc = "back"
    /\ IF InWord THEN end' = end - 1 /\ UNCHANGED pc
                 ELSE pc' = "copy" /\ UNCHANGED end
    /\ UNCHANGED <<value, elided, p, out, len>>

Shown(c) == IF c \in Invalid THEN "?" ELSE IF c \in Unprintable THEN "_" ELSE c

(* mutant: one more character than fits                                      *)
OneOver == p < end /\ len <= WEBAUTH_MAX_LOGGED_VALUE

More == p < end /\ len < WEBAUTH_MAX_LOGGED_VALUE

Copy ==
    /\ pc = "copy" /\ More
    /\ out' = Append(out, Shown(message[p + 1]))
    /\ len' = len + Width[Shown(message[p + 1])]
    /\ p' = p + 1
    /\ UNCHANGED <<value, pc, end, elided>>

(* A shape shows the scheme as it was parsed; the separators, the port and   *)
(* the length of the path are left out.                                      *)
Finish ==
    /\ pc = "copy" /\ ~More
    /\ out' = scheme \o (IF out = << >> THEN <<"-">> ELSE out)
                     \o (IF elided THEN <<Elided>> ELSE << >>)
    /\ pc' = "done"
    /\ UNCHANGED <<value, end, elided, p, len>>

Next == Search \/ Back \/ Copy \/ Finish

Spec == Init /\ [][Next]_vars

-----------------------------------------------------------------------------
OneWord(i, j) == \A k \in (i .. j) \cup (j .. i) : message[k] \notin Space

(* Where the message spells a word that has one of the candidates in it.     *)
UriPositions == LET found == FoundAny
                IN  {i \in 1 .. Len(message) : \E k \in found : OneWord(i, k)}

TypeOK ==
    /\ kind \in {"field", "shape", "error"} /\ message \in Seq(Characters)
    /\ scheme \in Schemes \cup {<< >>}
    /\ pc \in {"search", "back", "copy", "done"}
    /\ end \in 0 .. Len(message) /\ elided \in BOOLEAN
    /\ p \in 0 .. Len(message) /\ len \in Nat
    /\ out \in Seq(Characters \cup {Elided})

(* No character of a word with a URI in it is shown, neither its scheme nor  *)
(* what follows the first such word (webauth_redact_error_text).             *)
NoUriIsShown ==
    kind = "error" /\ pc = "done" => (1 .. p) \cap UriPositions = {}

(* What precedes the first such word is shown, as far as the limit allows    *)
(* (webauth_redact_error_text).                                              *)
KeepsWhatPrecedes ==
    kind = "error" /\ pc = "done" /\ len < WEBAUTH_MAX_LOGGED_VALUE =>
        p = Len(message) \/ p + 1 \in UriPositions

(* A log line holds no control, no override and no space of the value's, and *)
(* no byte that is not text (sanitise).                                      *)
Printable ==
    \A i \in 1 .. Len(out) : out[i] \notin Unprintable \cup Invalid

(* A value takes no more of a line than the limit and the rest of one        *)
(* character (sanitise).                                                     *)
WithinLimit == len <= WEBAUTH_MAX_LOGGED_VALUE + 3

(* "Returns newly allocated text truncated before any embedded URI"          *)
(* (src/src/redact.h:53): a word that begins as scheme:/ is one.             *)
TruncatedBeforeAnyUri ==
    kind = "error" /\ pc = "done" =>
        ~ \E j \in 2 .. p - 1 : message[j - 1] \notin Space /\ message[j] = ":" /\ message[j + 1] = "/"

(* "URI and result sizes must stay bounded to prevent log amplification"     *)
(* (docs/SECURITY.md:274-275): by the limit for each of the two parts.       *)
UriSizesStayBounded ==
    pc = "done" /\ kind = "shape" => Len(out) <= 2 * WEBAUTH_MAX_LOGGED_VALUE
=============================================================================
