----------------------------- MODULE ParentWindow -----------------------------
(***************************************************************************)
(* Which window the sign-in window is placed over                          *)
(* (src/src/external-window.c): the handle the frontend forwards names a   *)
(* window of one display system, and an X11 handle is read by strtoul into *)
(* a long that is wider than what the X server stores.                     *)
(***************************************************************************)
EXTENDS Integers, Sequences, Functions

CONSTANTS
    Value,       \* of each hex digit: a function on characters
    Texts,       \* what may follow "x11:"
    LongSize,    \* values of unsigned long
    XidSize,     \* values of a window id on the wire
    Foreign,     \* the toplevel a Wayland handle stands for
    NoParent

ASSUME SizeAssumption == XidSize \in Nat \ {0} /\ LongSize \in Nat /\ LongSize >= XidSize
ASSUME ValueAssumption ==
    Value \in [DOMAIN Value -> Nat] /\ {" ", "+", "-", "x"} \cap DOMAIN Value = {}
ASSUME TextAssumption == \A t \in Texts : t \in Seq(Range(t))
ASSUME ParentAssumption == NoParent # Foreign /\ {NoParent, Foreign} \cap Nat = {}

VARIABLES
    display,    \* the display system of the session
    prefix,     \* of the handle: "x11:", "wayland:", another one, or the empty handle
    text,       \* the rest of an X11 handle
    stage,      \* "new", "realized", "parented" or "presented"
    parent      \* the window the display was told to stay above

handle == <<display, prefix, text>>
parentVars == <<handle, stage, parent>>

Digits == DOMAIN Value

ParentInit ==
    /\ display \in {"x11", "wayland", "other"}
    /\ prefix \in {"x11:", "wayland:", "other", "empty"}
    /\ text \in Texts
    /\ prefix # "x11:" => text = << >>
    /\ stage = "new"
    /\ parent = NoParent

-----------------------------------------------------------------------------
Base == 16

(* strtoul(handle, &end, 16): blanks, a sign, "0x" if a digit follows, and  *)
(* the digits.  A negative number wraps; one that does not fit sets errno.  *)
Past(string, set, from) ==
    CHOOSE n \in from .. Len(string) + 1 :
        /\ n = Len(string) + 1 \/ string[n] \notin set
        /\ \A k \in from .. n - 1 : string[k] \in set

IsAt(string, set, n) == n <= Len(string) /\ string[n] \in set

Read(digits) ==
    LET read[n \in 0 .. Len(digits)] ==
            IF n = 0 THEN 0 ELSE Base * read[n - 1] + Value[digits[n]]
    IN  read[Len(digits)]

strtoul(string) ==
    LET sign == Past(string, {" "}, 1)
        unsigned == IF IsAt(string, {"+", "-"}, sign) THEN sign + 1 ELSE sign
        hexed == /\ IsAt(string, {"0"}, unsigned) /\ IsAt(string, {"x"}, unsigned + 1)
                 /\ IsAt(string, Digits, unsigned + 2)
        first == IF hexed THEN unsigned + 2 ELSE unsigned
        end == Past(string, Digits, first)
        number == Read(SubSeq(string, first, end - 1))
    IN  [end |-> IF end = first THEN 1 ELSE end,
         errno |-> number >= LongSize,
         value |-> IF number >= LongSize THEN LongSize - 1
                   ELSE IF IsAt(string, {"-"}, sign) THEN (LongSize - number) % LongSize
                   ELSE number]

(* mutant: what follows the digits is not looked at                         *)
LeadingDigits(x) == ~x.errno /\ x.end # 1 /\ x.value # 0

Acceptable(x) == ~x.errno /\ x.end # 1 /\ x.end = Len(text) + 1 /\ x.value # 0

(* XSetTransientForHint stores 32 bits of it.                               *)
set_x11_parent ==
    LET read == strtoul(text)
    IN  parent' = IF Acceptable(read) THEN read.value % XidSize ELSE NoParent

-----------------------------------------------------------------------------
Realize ==
    /\ stage = "new" /\ stage' = "realized"
    /\ UNCHANGED <<handle, parent>>

(* The compositor may not know an exported toplevel, or not any more.       *)
set_parent_of ==
    IF display = "wayland" /\ prefix = "wayland:" THEN parent' \in {Foreign, NoParent}
    ELSE IF display = "x11" /\ prefix = "x11:" THEN set_x11_parent
    ELSE UNCHANGED parent

SetParent ==
    /\ stage = "realized" /\ stage' = "parented"
    /\ set_parent_of
    /\ UNCHANGED handle

Present ==
    /\ stage = "parented" /\ stage' = "presented"
    /\ UNCHANGED <<handle, parent>>

ParentNext == Realize \/ SetParent \/ Present
ParentSpec == ParentInit /\ [][ParentNext]_parentVars

-----------------------------------------------------------------------------
(* Properties.                                                              *)

(* What digits stand for in base 16: the sum of each at its place.          *)
Number(digits) ==
    LET power[n \in 0 .. Len(digits)] == IF n = 0 THEN 1 ELSE 16 * power[n - 1]
        sum[n \in 0 .. Len(digits)] ==
            IF n = 0 THEN 0 ELSE sum[n - 1] + Value[digits[n]] * power[Len(digits) - n]
    IN  sum[Len(digits)]

AllDigits(s) == s # << >> /\ \A n \in DOMAIN s : s[n] \in Digits

(* The window ids a handle can name: digits in hexadecimal, with or without *)
(* "0x", and an id the X server could have given to a window.               *)
Names(id) ==
    \E n \in {0, 2} :
        LET digits == SubSeq(text, n + 1, Len(text))
        IN  /\ n = 2 => Len(text) >= 2 /\ SubSeq(text, 1, 2) = <<"0", "x">>
            /\ AllDigits(digits) /\ Number(digits) = id
            /\ id # 0 /\ id < XidSize

OnX11 == display = "x11" /\ prefix = "x11:"

(* The windows the digits of the handle spell, in the width of an id and up *)
(* to the sign; and the one a Wayland handle stands for.                    *)
ParentIsSpelled ==
    \/ display = "wayland" /\ prefix = "wayland:" /\ parent = Foreign
    \/ /\ OnX11
       /\ \E n \in 1 .. Past(text, {" ", "+", "-", "0", "x"}, 1) :
            LET digits == SubSeq(text, n, Len(text)) IN
            /\ AllDigits(digits) /\ Number(digits) \in 1 .. LongSize - 1
            /\ parent \in {Number(digits) % XidSize, (LongSize - Number(digits)) % XidSize}

(* "x11:<hex XID>" (src/src/external-window.h:17): a window named by an X11 *)
(* handle is the one the sign-in window stays above.  Whatever the handle,  *)
(* the parent is one it stands for on this display system: no handle of     *)
(* another one, no text that merely begins with a number, and no number too *)
(* large for strtoul yields some other window.                              *)
ParentIsDenoted ==
    /\ stage = "presented" /\ OnX11 => \A id \in 1 .. XidSize - 1 : Names(id) => parent = id
    /\ parent # NoParent => ParentIsSpelled

(* "invalid handles produce an unparented window" (docs/ARCHITECTURE.md:65),*)
(* of the handles "x11:<hex XID>".                                          *)
InvalidHandlesAreUnparented ==
    stage = "presented" /\ OnX11 /\ parent # NoParent => Names(parent)
=============================================================================
