---------------------------- MODULE StorageProofs ----------------------------
(***************************************************************************)
(* The store of an application, for every set of ids, every set of         *)
(* transactions and every limit on the length of a name.                   *)
(***************************************************************************)
EXTENDS Storage, SequenceTheorems, WellFoundedInduction, TLAPS

(* A nonempty set of natural numbers has a least element.                    *)
LEMMA LeastNumber ==
    ASSUME NEW S \in SUBSET Nat, S # {}
    PROVE  \E n \in S : \A m \in S : n <= m
<1>1. \E n \in S : \A m \in S : ~(<<m, n>> \in OpToRel(<, Nat))
    BY NatLessThanWellFounded, WFMin, Zenon
<1>2. PICK n \in S : \A m \in S : ~(<<m, n>> \in OpToRel(<, Nat))
    BY <1>1
<1>3. ASSUME NEW m \in S PROVE n <= m
    <2>1. <<m, n>> \in Nat \X Nat /\ ~(m < n)
        BY <1>2, <1>3 DEF OpToRel
    <2> QED BY <2>1
<1> QED BY <1>3

(* Sanitised returns a sequence within the limit, without separators.        *)
LEMMA SanitisedIsSafe ==
    ASSUME NEW id \in AppIds
    PROVE  /\ Sanitised(id) \in Seq(Plain \cup {"."})
           /\ Len(Sanitised(id)) = AtMost(Len(id), WEBAUTH_MAX_DIRECTORY_NAME)
           /\ Len(Sanitised(id)) \in 0 .. WEBAUTH_MAX_DIRECTORY_NAME
<1>1. id \in Seq(Plain \cup {"."} \cup Other)
    BY AppIdAssumption
<1>2. Len(id) \in Nat /\ DOMAIN id = 1 .. Len(id)
    BY <1>1
<1>3. AtMost(Len(id), WEBAUTH_MAX_DIRECTORY_NAME) \in 0 .. WEBAUTH_MAX_DIRECTORY_NAME
    BY <1>2, LengthAssumption DEF AtMost
<1>4. \A i \in 1 .. AtMost(Len(id), WEBAUTH_MAX_DIRECTORY_NAME) :
        Sanitised(id)[i] \in Plain \cup {"."}
    BY CharacterAssumption DEF Sanitised
<1>5. Sanitised(id) \in [1 .. AtMost(Len(id), WEBAUTH_MAX_DIRECTORY_NAME) -> Plain \cup {"."}]
    BY <1>4 DEF Sanitised
<1>6. AtMost(Len(id), WEBAUTH_MAX_DIRECTORY_NAME) \in Nat
    BY <1>3
<1>7. Sanitised(id) \in Seq(Plain \cup {"."})
    BY <1>5, <1>6, SeqDef, Zenon
<1>8. Len(Sanitised(id)) = AtMost(Len(id), WEBAUTH_MAX_DIRECTORY_NAME)
    BY <1>5, <1>6
<1> QED BY <1>3, <1>7, <1>8

(* LeadingDots counts the dots a sequence begins with.                       *)
LEMMA LeadingDotsCounts ==
    ASSUME NEW C, NEW s \in Seq(C)
    PROVE  /\ LeadingDots(s) \in 0 .. Len(s)
           /\ \A i \in 1 .. LeadingDots(s) : s[i] = "."
           /\ LeadingDots(s) < Len(s) => s[LeadingDots(s) + 1] # "."
<1> DEFINE Ends == {n \in 0 .. Len(s) : n < Len(s) => s[n + 1] # "."}
<1>1. Len(s) \in Nat
    OBVIOUS
<1>2. Ends \in SUBSET Nat /\ Len(s) \in Ends
    BY <1>1
<1>3. PICK n \in Ends : \A m \in Ends : n <= m
    BY <1>2, LeastNumber
<1>4. ASSUME NEW i \in 1 .. n PROVE s[i] = "."
    <2>1. i - 1 \in 0 .. Len(s) /\ i - 1 < n /\ i - 1 < Len(s)
        BY <1>1, <1>3, <1>4
    <2>2. i - 1 \notin Ends
        BY <1>2, <1>3, <2>1
    <2>3. s[(i - 1) + 1] = "."
        BY <2>1, <2>2
    <2> QED BY <1>4, <2>3
<1>5. \E k \in 0 .. Len(s) : (\A i \in 1 .. k : s[i] = ".") /\ (k < Len(s) => s[k + 1] # ".")
    BY <1>3, <1>4
<1> QED BY <1>5, Zenon DEF LeadingDots

(* A name is empty, or one visible component of a path.                      *)
LEMMA NameIsSafe ==
    ASSUME NEW id \in AppIds, Name(id) # << >>
    PROVE  /\ Len(Name(id)) \in 1 .. WEBAUTH_MAX_DIRECTORY_NAME
           /\ Name(id)[1] # "."
           /\ \A i \in 1 .. Len(Name(id)) : Name(id)[i] \in Plain \cup {"."}
<1> DEFINE s == Sanitised(id)
           k == LeadingDots(s)
<1>1. s \in Seq(Plain \cup {"."}) /\ Len(s) \in 0 .. WEBAUTH_MAX_DIRECTORY_NAME
    BY SanitisedIsSafe
<1>2. k \in 0 .. Len(s) /\ (k < Len(s) => s[k + 1] # ".")
    BY <1>1, LeadingDotsCounts
<1>3. Name(id) = SubSeq(s, k + 1, Len(s))
    BY DEF Name, webauth_storage_directory_name
<1> HIDE DEF s, k
<1>4. k < Len(s)
    BY <1>1, <1>2, <1>3
<1>5. /\ Len(Name(id)) = Len(s) - k
      /\ \A i \in 1 .. Len(s) - k : Name(id)[i] = s[i + k]
    BY <1>1, <1>2, <1>3, <1>4
<1>6. Name(id)[1] = s[k + 1]
    BY <1>1, <1>2, <1>4, <1>5
<1>7. ASSUME NEW i \in 1 .. Len(s) - k PROVE Name(id)[i] \in Plain \cup {"."}
    BY <1>1, <1>2, <1>5, <1>7
<1> QED BY <1>1, <1>2, <1>4, <1>5, <1>6, <1>7, LengthAssumption

(* The name of an id that is spelled out is the id itself.                   *)
LEMMA SpelledOutIsItsName ==
    ASSUME NEW id \in AppIds, SpelledOut(id)
    PROVE  Name(id) = id
<1>1. id \in Seq(Plain \cup {"."} \cup Other)
    BY AppIdAssumption
<1>2. Len(id) \in Nat /\ AtMost(Len(id), WEBAUTH_MAX_DIRECTORY_NAME) = Len(id)
    BY <1>1, LengthAssumption DEF SpelledOut, AtMost
<1>3. Sanitised(id) = id
    <2>1. /\ Sanitised(id) \in Seq(Plain \cup {"."} \cup Other)
          /\ Len(Sanitised(id)) = Len(id)
        BY <1>2, SanitisedIsSafe, SeqMonotonic
    <2>2. \A i \in 1 .. Len(id) : Sanitised(id)[i] = id[i]
        BY <1>2 DEF SpelledOut, Sanitised
    <2> QED BY <1>1, <2>1, <2>2, SeqEqual
<1>4. LeadingDots(id) = 0
    <2>1. LeadingDots(id) \in 0 .. Len(id) /\ \A i \in 1 .. LeadingDots(id) : id[i] = "."
        BY <1>1, LeadingDotsCounts
    <2>2. ~(1 \in 1 .. LeadingDots(id))
        BY <2>1 DEF SpelledOut
    <2> QED BY <1>2, <2>1, <2>2
<1> QED BY <1>1, <1>2, <1>3, <1>4 DEF Name, webauth_storage_directory_name

-----------------------------------------------------------------------------
(* What holds between steps: a shared session is open only with both its     *)
(* directories, under a name, for an application that asked for it; what is  *)
(* on disk is there under its owner's name.                                  *)
SharedIsBacked ==
    \A t \in Transactions : Sharing(t) =>
        /\ Name(session[t].app) \in data \cap cache
        /\ session[t].app \in AppIds \ {<< >>}
        /\ session[t].asked \in {"absent", "shared"}

IInv == TypeOK /\ StaysBelow /\ SharedIsBacked /\ LeavesNoTrace

LEMMA InitHolds == Init => IInv
    BY DEF Init, None, IInv, TypeOK, Records, StaysBelow, SharedIsBacked, LeavesNoTrace, Sharing, Requests

(* Who asked for a store is not forgotten while no transaction is born.      *)
LEMMA AskedIsKept ==
    ASSUME TypeOK, NEW r, NEW t \in Transactions, session[t].state = "unborn",
           session' = [session EXCEPT ![t] = r], NEW id, Asked(id)
    PROVE  Asked(id)'
BY DEF Asked, TypeOK, Records

(* A request that touches no directory: refused, or served from memory.      *)
LEMMA DisklessHolds ==
    ASSUME IInv, NEW t \in Transactions, session[t].state = "unborn",
           NEW r \in Records, r.app \in AppIds, ~(r.state = "open" /\ r.mode = "shared"),
           session' = [session EXCEPT ![t] = r], UNCHANGED disk
    PROVE  IInv'
<1>1. TypeOK'
    BY DEF IInv, TypeOK, disk, Records
<1>2. StaysBelow'
    BY DEF IInv, StaysBelow, disk
<1>3. SharedIsBacked'
    BY DEF IInv, SharedIsBacked, TypeOK, Records, disk, Sharing
<1>4. LeavesNoTrace'
    BY AskedIsKept DEF IInv, LeavesNoTrace, disk
<1> QED BY <1>1, <1>2, <1>3, <1>4 DEF IInv

(* A request that makes directories under its own name, and opens the store  *)
(* only when it has both.                                                    *)
LEMMA DirectoriesHold ==
    ASSUME IInv, NEW t \in Transactions, session[t].state = "unborn",
           NEW r \in Records, r.app \in AppIds, r.mode = "shared", r.asked \in {"absent", "shared"},
           r.app # << >>, r.state # "unborn", Name(r.app) # << >>,
           session' = [session EXCEPT ![t] = r], jar' = jar,
           data' = data \cup {Name(r.app)}, cache' \in {cache, cache \cup {Name(r.app)}},
           r.state = "open" => cache' = cache \cup {Name(r.app)}
    PROVE  IInv'
<1>1. TypeOK'
    BY DEF IInv, TypeOK, Records, Names
<1>2. StaysBelow'
    BY NameIsSafe DEF IInv, StaysBelow, Records
<1>3. SharedIsBacked'
    BY DEF IInv, SharedIsBacked, TypeOK, Sharing, Records
<1>4. LeavesNoTrace'
    <2>1. session'[t] = r
        BY DEF IInv, TypeOK, Records
    <2>2. Asked(r.app)'
        BY <2>1 DEF Asked
    <2>3. r.app \in AppIds \ {<< >>}
        BY DEF Records
    <2> QED BY <2>2, <2>3, AskedIsKept DEF IInv, LeavesNoTrace
<1> QED BY <1>1, <1>2, <1>3, <1>4 DEF IInv

LEMMA StartHolds ==
    ASSUME IInv, NEW t \in Transactions, NEW id \in AppIds,
           NEW asked \in Requests \ {"unknown"}, Start(t, id, asked)
    PROVE  IInv'
<1> DEFINE mode == webauth_storage_effective_mode(webauth_session_mode_parse(asked), id)
           r == [app |-> id, asked |-> asked, mode |-> mode, state |-> "unborn"]
<1>1. mode \in {"shared", "ephemeral"}
    BY DEF Requests, webauth_storage_effective_mode, webauth_session_mode_parse
<1>2. mode = "shared" => id # << >> /\ asked \in {"absent", "shared"}
    BY DEF Requests, webauth_storage_effective_mode, webauth_session_mode_parse
<1>3. /\ session[t].state = "unborn"
      /\ \/ OpenEphemeral(t, r) /\ mode = "ephemeral"
         \/ OpenShared(t, r) /\ mode # "ephemeral"
    BY DEF Start
<1> HIDE DEF mode
<1>4. \A state \in {"open", "refused"} :
        [r EXCEPT !.state = state] \in Records
    BY <1>1 DEF Records
<1>5. CASE OpenEphemeral(t, r) /\ mode = "ephemeral"
    <2>1. PICK state \in {"open", "refused"} : Becomes(t, r, state)
        BY <1>5 DEF OpenEphemeral
    <2> DEFINE q == [r EXCEPT !.state = state]
    <2>2. q \in Records /\ q.app \in AppIds /\ q.mode = "ephemeral"
        BY <1>4, <1>5
    <2>3. session' = [session EXCEPT ![t] = q] /\ UNCHANGED disk
        BY <1>5, <2>1 DEF Becomes, OpenEphemeral
    <2> HIDE DEF q
    <2> QED BY <1>3, <2>2, <2>3, DisklessHolds
<1>6. CASE OpenShared(t, r) /\ mode # "ephemeral"
    <2>1. mode = "shared" /\ r.app # << >> /\ r.asked \in {"absent", "shared"}
        BY <1>1, <1>2, <1>6
    <2>2. CASE NoData(t, r)
        <3> DEFINE q == [r EXCEPT !.state = "refused"]
        <3>1. q \in Records /\ q.app \in AppIds /\ q.state = "refused"
            BY <1>4
        <3>2. session' = [session EXCEPT ![t] = q] /\ UNCHANGED disk
            BY <2>2 DEF NoData, Becomes
        <3> HIDE DEF q
        <3> QED BY <1>3, <3>1, <3>2, DisklessHolds
    <2>3. CASE NoCache(t, r)
        <3> DEFINE q == [r EXCEPT !.state = "refused"]
        <3>1. q \in Records /\ q.app \in AppIds /\ q.state = "refused" /\ q.app = r.app /\ q.mode = "shared" /\ q.asked = r.asked
            BY <1>4, <2>1
        <3>2. /\ session' = [session EXCEPT ![t] = q] /\ jar' = jar /\ cache' = cache
              /\ data' = data \cup {Name(q.app)} /\ Name(q.app) # << >>
            BY <2>3, <3>1 DEF NoCache, Becomes
        <3> HIDE DEF q
        <3> QED BY <1>3, <2>1, <3>1, <3>2, DirectoriesHold
    <2>4. CASE BothMade(t, r)
        <3> DEFINE q == [r EXCEPT !.state = "open"]
        <3>1. q \in Records /\ q.app \in AppIds /\ q.state = "open" /\ q.app = r.app /\ q.mode = "shared" /\ q.asked = r.asked
            BY <1>4, <2>1
        <3>2. /\ session' = [session EXCEPT ![t] = q] /\ jar' = jar
              /\ cache' = cache \cup {Name(q.app)}
              /\ data' = data \cup {Name(q.app)} /\ Name(q.app) # << >>
            BY <2>4, <3>1 DEF BothMade, Becomes
        <3> HIDE DEF q
        <3> QED BY <1>3, <2>1, <3>1, <3>2, DirectoriesHold
    <2> QED BY <1>6, <2>2, <2>3, <2>4 DEF OpenShared
<1> QED BY <1>3, <1>5, <1>6

(* Sessions that only end leave everything else as it was.                   *)
LEMMA EndingHolds ==
    ASSUME IInv, UNCHANGED disk,
           session' \in [Transactions -> Records],
           \A t \in Transactions :
             \/ session'[t] = session[t]
             \/ session[t].state = "open" /\ session'[t] = [session[t] EXCEPT !.state = "ended"]
    PROVE  IInv'
<1>1. TypeOK' /\ StaysBelow'
    BY DEF IInv, TypeOK, Records, StaysBelow, disk
<1>2. SharedIsBacked'
    BY DEF IInv, TypeOK, Records, SharedIsBacked, Sharing, disk
<1>3. \A id : Asked(id) => Asked(id)'
    BY DEF IInv, TypeOK, Records, Asked
<1>4. LeavesNoTrace'
    BY <1>3 DEF IInv, LeavesNoTrace, disk
<1> QED BY <1>1, <1>2, <1>4 DEF IInv

LEMMA CookieHolds ==
    ASSUME IInv, NEW t \in Transactions, SetCookie(t)
    PROVE  IInv'
<1>1. Sharing(t) /\ session[t].app \in AppIds \ {<< >>} /\ session[t].asked \in {"absent", "shared"}
    BY DEF SetCookie, Sharing, IInv, SharedIsBacked
<1>2. TypeOK'
    BY <1>1 DEF IInv, TypeOK, Records, SetCookie, Names
<1>3. StaysBelow' /\ SharedIsBacked'
    BY DEF IInv, StaysBelow, SharedIsBacked, SetCookie, Sharing
<1>4. Asked(session[t].app)
    BY <1>1 DEF Asked, Sharing
<1>5. \A id : Asked(id) => Asked(id)'
    BY DEF Asked, SetCookie
<1>6. ASSUME NEW n \in Names, NEW id \in jar'[n] PROVE id # << >> /\ Name(id) = n /\ Asked(id)
    <2>1. id \in jar[n] \/ (n = Name(session[t].app) /\ id = session[t].app)
        BY <1>6 DEF SetCookie, IInv, TypeOK, Records
    <2> QED BY <1>1, <1>4, <2>1 DEF IInv, LeavesNoTrace
<1>7. LeavesNoTrace'
    BY <1>5, <1>6 DEF IInv, LeavesNoTrace, SetCookie
<1> QED BY <1>2, <1>3, <1>7 DEF IInv

LEMMA StepHolds == IInv /\ [Next]_vars => IInv'
<1> SUFFICES ASSUME IInv, [Next]_vars PROVE IInv'
    OBVIOUS
<1>1. CASE \E t \in Transactions, id \in AppIds : RefuseMode(t, id)
    <2>1. PICK t \in Transactions, id \in AppIds : RefuseMode(t, id)
        BY <1>1
    <2> DEFINE q == [None EXCEPT !.app = id, !.asked = "unknown", !.state = "refused"]
    <2>2. q \in Records /\ q.app \in AppIds /\ q.state = "refused"
        BY DEF None, Records, Requests
    <2>3. session[t].state = "unborn" /\ session' = [session EXCEPT ![t] = q] /\ UNCHANGED disk
        BY <2>1 DEF RefuseMode, Becomes, None
    <2> HIDE DEF q
    <2> QED BY <2>2, <2>3, DisklessHolds
<1>2. CASE \E t \in Transactions, id \in AppIds, asked \in Requests \ {"unknown"} : Start(t, id, asked)
    BY <1>2, StartHolds
<1>3. CASE \E t \in Transactions : SetCookie(t)
    BY <1>3, CookieHolds
<1>4. CASE \E t \in Transactions : End(t)
    <2>1. PICK t \in Transactions : End(t)
        BY <1>4
    <2>2. UNCHANGED disk /\ session[t].state = "open"
          /\ session' = [session EXCEPT ![t] = [session[t] EXCEPT !.state = "ended"]]
        BY <2>1 DEF End, IInv, TypeOK, Records
    <2>3. session' \in [Transactions -> Records]
        BY <2>2 DEF IInv, TypeOK, Records
    <2>4. \A u \in Transactions :
            \/ session'[u] = session[u]
            \/ session[u].state = "open" /\ session'[u] = [session[u] EXCEPT !.state = "ended"]
        BY <2>2 DEF IInv, TypeOK, Records
    <2> QED BY <2>2, <2>3, <2>4, EndingHolds
<1>5. CASE Exit
    <2>1. UNCHANGED disk
          /\ session' = [u \in Transactions |->
                           IF session[u].state = "open" THEN [session[u] EXCEPT !.state = "ended"]
                           ELSE session[u]]
        BY <1>5 DEF Exit
    <2>2. session' \in [Transactions -> Records]
        BY <2>1 DEF IInv, TypeOK, Records
    <2>3. \A u \in Transactions :
            \/ session'[u] = session[u]
            \/ session[u].state = "open" /\ session'[u] = [session[u] EXCEPT !.state = "ended"]
        BY <2>1
    <2> QED BY <2>1, <2>2, <2>3, EndingHolds
<1>6. CASE UNCHANGED vars
    BY <1>6 DEF vars, disk, IInv, TypeOK, Records, StaysBelow, SharedIsBacked, LeavesNoTrace, Sharing, Asked
<1> QED BY <1>1, <1>2, <1>3, <1>4, <1>5, <1>6 DEF Next

THEOREM Invariance == Spec => []IInv
    BY InitHolds, StepHolds, PTL DEF Spec

(* Directories, jars and sessions keep their types.                          *)
THEOREM TypeCorrect == Spec => []TypeOK
    BY Invariance, PTL DEF IInv

(* Every directory made is one visible component below the backend's own.    *)
THEOREM DirectoriesStayBelow == Spec => []StaysBelow
    BY Invariance, PTL DEF IInv

(* What is on disk was asked for by an application with an id.               *)
THEOREM NothingUnasked == Spec => []LeavesNoTrace
    BY Invariance, PTL DEF IInv

(* A shared session has both its directories.                                *)
THEOREM StoresAreWhole == Spec => []StoreIsWhole
<1>1. IInv => StoreIsWhole
    BY DEF IInv, SharedIsBacked, StoreIsWhole
<1> QED BY <1>1, Invariance, PTL

(* Applications whose ids are spelled out do not meet each other's cookies.  *)
THEOREM SpelledOutAreIsolated == Spec => []SpelledOutIsIsolated
<1>1. IInv => SpelledOutIsIsolated
    <2> SUFFICES ASSUME IInv, NEW t \in Transactions, Sharing(t), NEW id \in Found(t),
                        SpelledOut(id), SpelledOut(session[t].app)
                 PROVE  id = session[t].app
        BY DEF SpelledOutIsIsolated
    <2>1. session[t].app \in AppIds /\ Name(session[t].app) \in Names
        BY DEF IInv, SharedIsBacked, Names
    <2>2. id \in jar[Name(session[t].app)]
        BY DEF Found
    <2>3. id \in AppIds /\ Name(id) = Name(session[t].app)
        BY <2>1, <2>2 DEF IInv, TypeOK, Records, LeavesNoTrace
    <2> QED BY <2>1, <2>3, SpelledOutIsItsName
<1> QED BY <1>1, Invariance, PTL
=============================================================================
