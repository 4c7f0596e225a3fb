----------------------------- MODULE RedactProofs -----------------------------
(***************************************************************************)
(* What a rendered value shows, for every alphabet, every set of           *)
(* candidates and messages, and every limit.                               *)
(***************************************************************************)
EXTENDS Redact, SequenceTheorems, TLAPS

(* The message without characters a terminal acts on.                        *)
Clean == (Characters \ (Unprintable \cup Invalid)) \cup {Elided}

(* Where the text to copy ends: before the first candidate, and on the way   *)
(* back nowhere but inside its word.                                         *)
CutIsRight ==
    elided =>
        /\ pc # "search"
        /\ \E i \in FoundAny : /\ \A j \in FoundAny : i <= j
                               /\ end < i
                               /\ \A k \in end + 1 .. i : message[k] \notin Space
        /\ pc \in {"copy", "done"} => end = 0 \/ message[end] \in Space

NothingToCut == kind = "error" /\ pc # "search" /\ ~elided => FoundAny = {}

IInv ==
    /\ TypeOK
    /\ elided => kind = "error"
    /\ pc = "search" => kind = "error"
    /\ ~elided => end = Len(message)
    /\ pc = "back" => elided
    /\ CutIsRight /\ NothingToCut
    /\ p <= end /\ (pc \in {"search", "back"} => p = 0)
    /\ pc = "done" => ~More
    /\ out \in Seq(Clean)
    /\ WithinLimit

LEMMA Alphabet ==
    /\ Sign \subseteq Clean /\ Elided \in Clean
    /\ Clean \subseteq Characters \cup {Elided}
    /\ \A c \in Clean : c \notin Unprintable \cup Invalid
    /\ \A c \in Characters : Shown(c) \in Clean /\ Shown(c) \in Characters /\ Width[Shown(c)] \in 1 .. 4
BY CharacterAssumption, WidthAssumption DEF Clean, Shown, Sign

LEMMA InitHolds == Init => IInv
<1> SUFFICES ASSUME Init PROVE IInv
    OBVIOUS
<1>1. message \in Seq(Characters) /\ Len(message) \in Nat
    BY MessageAssumption DEF Init
<1>2. << >> \in Seq(Characters \cup {Elided}) /\ << >> \in Seq(Clean)
    OBVIOUS
<1>3. scheme \in Schemes \cup {<< >>} /\ pc \in {"search", "copy"}
    BY Zenon DEF Init
<1>4. kind \in {"field", "shape", "error"} /\ end = Len(message) /\ elided = FALSE
      /\ p = 0 /\ out = << >> /\ len = 0
    BY DEF Init
<1>5. TypeOK
    <2>1. end \in 0 .. Len(message) /\ p \in 0 .. Len(message) /\ len \in Nat
        BY <1>1, <1>4
    <2>2. elided \in BOOLEAN
        BY <1>4
    <2>3. pc \in {"search", "back", "copy", "done"}
        BY <1>3
    <2>4. out \in Seq(Characters \cup {Elided})
        BY <1>2, <1>4
    <2> QED BY <1>1, <1>3, <1>4, <2>1, <2>2, <2>3, <2>4, Zenon DEF TypeOK
<1>6. pc = "search" => kind = "error"
    BY DEF Init
<1> QED BY <1>1, <1>2, <1>3, <1>4, <1>5, <1>6, LimitAssumption DEF Init, IInv, CutIsRight, NothingToCut, WithinLimit

(* A candidate begins at a character that is no space.                       *)
LEMMA FoundInWord ==
    ASSUME TypeOK, NEW i \in FoundAny
    PROVE  i \in 1 .. Len(message) /\ message[i] \notin Space
<1>1. PICK c \in Candidates : i \in Found(c)
    BY DEF FoundAny
<1>2. c \in Seq(Characters \ Space) /\ c # << >>
    BY <1>1, CandidateAssumption
<1>3. Len(c) \in Nat \ {0} /\ c[1] \in Characters \ Space
    BY <1>2
<1>4. i \in 1 .. Len(message) /\ message[i + 1 - 1] = c[1]
    BY <1>1, <1>3 DEF Found
<1> QED BY <1>3, <1>4

LEMMA SearchHolds == IInv /\ Search => IInv'
<1> SUFFICES ASSUME IInv, Search PROVE IInv'
    OBVIOUS
<1>1. UNCHANGED <<kind, message, scheme, p, out, len>> /\ pc = "search" /\ FoundAny' = FoundAny
    BY DEF Search, value, FoundAny, Found
<1>2. Len(message) \in Nat /\ p = 0 /\ ~elided /\ kind = "error"
    BY <1>1 DEF IInv, TypeOK, CutIsRight
<1>3. CASE NoneFound
    BY <1>1, <1>2, <1>3 DEF NoneFound, IInv, TypeOK, CutIsRight, NothingToCut, WithinLimit
<1>4. CASE CutFirst
    <2>1. PICK i \in FoundAny : (\A j \in FoundAny : i <= j) /\ end' = i - 1
        BY <1>4 DEF CutFirst
    <2>2. i \in 1 .. Len(message) /\ message[i] \notin Space
        BY <2>1, FoundInWord DEF IInv
    <2>3. elided' /\ pc' = "back"
        BY <1>4 DEF CutFirst
    <2>4. CutIsRight'
        BY <1>1, <2>1, <2>2, <2>3 DEF CutIsRight
    <2>5. TypeOK'
        BY <1>1, <1>2, <2>1, <2>2, <2>3 DEF IInv, TypeOK
    <2>6. end' \in Nat
        BY <2>1, <2>2
    <2> QED BY <1>1, <1>2, <2>3, <2>4, <2>5, <2>6 DEF IInv, NothingToCut, WithinLimit
<1> QED BY <1>3, <1>4 DEF Search

LEMMA BackHolds == IInv /\ Back => IInv'
<1> SUFFICES ASSUME IInv, Back PROVE IInv'
    OBVIOUS
<1>1. /\ UNCHANGED <<kind, message, scheme, elided, p, out, len>> /\ pc = "back"
      /\ FoundAny' = FoundAny
    BY DEF Back, value, FoundAny, Found
<1>2. Len(message) \in Nat /\ end \in 0 .. Len(message)
    BY DEF IInv, TypeOK
<1>3. CASE InWord
    <2>1. end' = end - 1 /\ pc' = "back" /\ end > 0 /\ message[end] \notin Space
        BY <1>1, <1>3 DEF Back, InWord
    <2>2. TypeOK' /\ NothingToCut'
        BY <1>1, <1>2, <2>1 DEF IInv, TypeOK, NothingToCut
    <2>3. elided
        BY <1>1, <1>3 DEF IInv
    <2>4. PICK i \in FoundAny : /\ \A j \in FoundAny : i <= j
                               /\ end < i
                               /\ \A k \in end + 1 .. i : message[k] \notin Space
        BY <2>3 DEF IInv, CutIsRight
    <2>5. i \in 1 .. Len(message)
        BY <2>4, FoundInWord DEF IInv
    <2>6. end' < i /\ \A k \in end' + 1 .. i : message[k] \notin Space
        BY <1>2, <2>1, <2>4, <2>5
    <2>7. CutIsRight'
        BY <1>1, <2>1, <2>4, <2>6 DEF CutIsRight
    <2>8. p = 0 /\ end' \in Nat
        BY <1>1, <1>2, <2>1 DEF IInv
    <2> QED BY <1>1, <2>1, <2>2, <2>3, <2>7, <2>8 DEF IInv, WithinLimit
<1>4. CASE ~InWord
    <2>1. end' = end /\ pc' = "copy" /\ (end = 0 \/ message[end] \in Space)
        BY <1>2, <1>4 DEF Back, InWord
    <2> QED BY <1>1, <1>2, <2>1 DEF IInv, TypeOK, CutIsRight, NothingToCut, WithinLimit
<1> QED BY <1>3, <1>4

LEMMA CopyHolds == IInv /\ Copy => IInv'
<1> SUFFICES ASSUME IInv, Copy PROVE IInv'
    OBVIOUS
<1>1. /\ UNCHANGED <<kind, message, scheme, pc, end, elided>> /\ pc = "copy"
      /\ FoundAny' = FoundAny /\ p' = p + 1 /\ p < end /\ len < WEBAUTH_MAX_LOGGED_VALUE
    BY DEF Copy, More, value, FoundAny, Found
<1>2. p + 1 \in 1 .. Len(message) /\ message[p + 1] \in Characters
    BY <1>1 DEF IInv, TypeOK
<1> DEFINE c == Shown(message[p + 1])
<1>3. c \in Clean /\ c \in Characters /\ Width[c] \in 1 .. 4
    BY <1>2, Alphabet
<1>4. out' = Append(out, c) /\ len' = len + Width[c]
    BY DEF Copy
<1> HIDE DEF c
<1>5. out' \in Seq(Clean) /\ out' \in Seq(Characters \cup {Elided})
    BY <1>3, <1>4 DEF IInv, TypeOK
<1>6. len' \in Nat /\ WithinLimit'
    BY <1>1, <1>3, <1>4, LimitAssumption DEF WithinLimit, IInv, TypeOK
<1>7. TypeOK'
    BY <1>1, <1>2, <1>5, <1>6 DEF IInv, TypeOK
<1> QED BY <1>1, <1>2, <1>5, <1>6, <1>7 DEF IInv, TypeOK, CutIsRight, NothingToCut

LEMMA FinishHolds == IInv /\ Finish => IInv'
<1> SUFFICES ASSUME IInv, Finish PROVE IInv'
    OBVIOUS
<1>1. /\ UNCHANGED <<kind, message, scheme, end, elided, p, len>> /\ pc = "copy" /\ pc' = "done"
      /\ FoundAny' = FoundAny /\ ~More /\ ~More'
    BY DEF Finish, value, FoundAny, Found, More
<1> DEFINE body == IF out = << >> THEN <<"-">> ELSE out
           tail == IF elided THEN <<Elided>> ELSE << >>
<1>2. body \in Seq(Clean) /\ tail \in Seq(Clean)
    <2>1. <<"-">> \in Seq(Clean) /\ <<Elided>> \in Seq(Clean) /\ << >> \in Seq(Clean)
        <3>1. "-" \in Clean /\ Elided \in Clean
            BY Alphabet, Zenon DEF Sign
        <3> QED BY <3>1
    <2> QED BY <2>1 DEF IInv
<1>3. scheme \in Seq(Clean)
    <2>1. scheme = << >> \/ scheme \in Seq(Characters \ (Unprintable \cup Invalid))
        BY MessageAssumption DEF IInv, TypeOK
    <2>2. CASE scheme \in Seq(Characters \ (Unprintable \cup Invalid))
        BY <2>2, SeqMonotonic DEF Clean
    <2>3. << >> \in Seq(Clean)
        OBVIOUS
    <2> QED BY <2>1, <2>2, <2>3
<1>4. out' = scheme \o body \o tail
    BY DEF Finish
<1> HIDE DEF body, tail
<1>5. out' \in Seq(Clean)
    BY <1>2, <1>3, <1>4
<1>6. out' \in Seq(Characters \cup {Elided})
    BY <1>5, Alphabet, SeqMonotonic
<1>7. TypeOK'
    BY <1>1, <1>6 DEF IInv, TypeOK
<1> QED BY <1>1, <1>5, <1>7 DEF IInv, CutIsRight, NothingToCut, WithinLimit

LEMMA StepHolds == IInv /\ [Next]_vars => IInv'
<1> SUFFICES ASSUME IInv, [Next]_vars PROVE IInv'
    OBVIOUS
<1>1. CASE UNCHANGED vars
    <2>1. FoundAny' = FoundAny /\ More' = More
        BY <1>1 DEF vars, value, FoundAny, Found, More
    <2> QED BY <1>1, <2>1 DEF vars, value, IInv, TypeOK, CutIsRight, NothingToCut, WithinLimit
<1> QED BY <1>1, SearchHolds, BackHolds, CopyHolds, FinishHolds DEF Next

THEOREM Invariance == Spec => []IInv
    BY InitHolds, StepHolds, PTL DEF Spec

(* The cut, the copy and the line keep their types.                          *)
THEOREM TypeCorrect == Spec => []TypeOK
    BY Invariance, PTL DEF IInv

(* A value takes no more than its share of a line.                           *)
THEOREM ValuesAreBounded == Spec => []WithinLimit
    BY Invariance, PTL DEF IInv

(* A line holds nothing a terminal would act on.                             *)
THEOREM LinesArePrintable == Spec => []Printable
<1>1. IInv => Printable
    BY Alphabet DEF IInv, Printable
<1> QED BY <1>1, Invariance, PTL

(* A word with a candidate in it is not shown.                               *)
THEOREM UrisAreElided == Spec => []NoUriIsShown
<1>1. IInv => NoUriIsShown
    <2> SUFFICES ASSUME IInv, kind = "error", pc = "done",
                        NEW i \in 1 .. p, NEW k \in FoundAny, OneWord(i, k)
                 PROVE  FALSE
        BY DEF NoUriIsShown, UriPositions
    <2>1. elided
        BY DEF IInv, NothingToCut
    <2>2. PICK first \in FoundAny : (\A j \in FoundAny : first <= j) /\ end < first
        BY <2>1 DEF IInv, CutIsRight
    <2>3. end \in Nat /\ p \in Nat /\ p <= end /\ first <= k /\ (end = 0 \/ message[end] \in Space)
        BY <2>1, <2>2 DEF IInv, TypeOK, CutIsRight
    <2>4. k \in 1 .. Len(message) /\ first \in 1 .. Len(message)
        BY <2>2, FoundInWord DEF IInv
    <2>5. Len(message) \in Nat
        BY DEF IInv, TypeOK
    <2>6. end \in i .. k
        BY <2>2, <2>3, <2>4, <2>5
    <2>7. message[end] \notin Space
        BY <2>6 DEF OneWord
    <2> QED BY <2>2, <2>3, <2>6, <2>7
<1> QED BY <1>1, Invariance, PTL

(* What comes before it is, up to the limit.                                 *)
THEOREM PrecedingTextIsKept == Spec => []KeepsWhatPrecedes
<1>1. IInv => KeepsWhatPrecedes
    <2> SUFFICES ASSUME IInv, kind = "error", pc = "done", len < WEBAUTH_MAX_LOGGED_VALUE,
                        p # Len(message)
                 PROVE  p + 1 \in UriPositions
        BY DEF KeepsWhatPrecedes
    <2>1. p = end /\ end \in 0 .. Len(message) /\ Len(message) \in Nat
        BY DEF IInv, TypeOK, More
    <2>2. elided
        BY <2>1 DEF IInv
    <2>3. PICK first \in FoundAny : end < first /\ \A k \in end + 1 .. first : message[k] \notin Space
        BY <2>2 DEF IInv, CutIsRight
    <2>4. first \in 1 .. Len(message)
        BY <2>3, FoundInWord DEF IInv
    <2>5. OneWord(p + 1, first)
        BY <2>1, <2>3, <2>4 DEF OneWord
    <2> QED BY <2>1, <2>3, <2>4, <2>5 DEF UriPositions
<1> QED BY <1>1, Invariance, PTL
=============================================================================
