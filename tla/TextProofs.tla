------------------------------ MODULE TextProofs ------------------------------
(***************************************************************************)
(* What the portal reads out of text an application wrote: the completion  *)
(* URI, compared with the public rule for every set of URIs, every case    *)
(* folding and every path normalisation; and the handle of the parent      *)
(* window, read by strtoul, for every text and every width of a long.      *)
(***************************************************************************)
EXTENDS Completion, ParentWindow, WellFoundedInduction, TLAPS

(* The effective port is the port a navigation connects to, if there is one. *)
LEMMA PortsAgree ==
    ASSUME NEW u \in URI, NEW v \in URI, Lower[u.scheme] = Lower[v.scheme]
    PROVE  effective_port(u) = effective_port(v) <=>
             \/ \E port \in Ports \ {-1} : Connects(u, port) /\ Connects(v, port)
             \/ \A port \in Ports \ {-1} : ~Connects(u, port) /\ ~Connects(v, port)
<1>1. u.port \in Ports /\ v.port \in Ports
    BY DEF URI
<1>2. \A w \in URI, port \in Ports \ {-1} :
        Connects(w, port) <=> effective_port(w) = port
    BY DEF URI, Ports, Connects, DefaultPort, effective_port, default_port_for_scheme
<1>3. \A w \in URI : effective_port(w) \in Ports
    BY DEF URI, Ports, effective_port, default_port_for_scheme
<1>4. effective_port(u) \in Ports /\ effective_port(v) \in Ports
    BY <1>3
<1>5. CASE effective_port(u) = effective_port(v)
    <2>1. CASE effective_port(u) = -1
        <3>1. \A port \in Ports \ {-1} : ~Connects(u, port) /\ ~Connects(v, port)
            BY <1>2, <1>5, <2>1
        <3> QED BY <1>5, <3>1
    <2>2. CASE effective_port(u) # -1
        BY <1>2, <1>4, <1>5, <2>2
    <2> QED BY <2>1, <2>2
<1>6. CASE effective_port(u) # effective_port(v)
    <2>1. ~ \E port \in Ports \ {-1} : Connects(u, port) /\ Connects(v, port)
        BY <1>2, <1>6
    <2>2. effective_port(u) \in Ports \ {-1} \/ effective_port(v) \in Ports \ {-1}
        BY <1>4, <1>6
    <2>3. \E port \in Ports \ {-1} : Connects(u, port) \/ Connects(v, port)
        BY <1>2, <2>2
    <2> QED BY <1>6, <2>1, <2>3
<1> QED BY <1>5, <1>6

(* The matcher decides exactly whether two acceptable URIs name the same      *)
(* target.                                                                    *)
THEOREM MatcherIsExact ==
    ASSUME NEW u \in URI, NEW v \in URI
    PROVE  webauth_completion_matches(u, v) <=>
             parse_uri(u) /\ parse_uri(v) /\ SameTarget(u, v)
<1>1. Lower[u.host] = Lower[v.host] <=>
        /\ uri_has_host(v) = uri_has_host(u)
        /\ uri_has_host(v) => Lower[v.host] = Lower[u.host]
    <2>1. u.host \in Hosts /\ v.host \in Hosts
        BY DEF URI
    <2>2. (Lower[u.host] = Lower[NoHost] <=> u.host = NoHost)
            /\ (Lower[v.host] = Lower[NoHost] <=> v.host = NoHost)
        BY <2>1, LowerAssumption
    <2> QED BY <2>2 DEF uri_has_host
<1>2. CASE Lower[u.scheme] = Lower[v.scheme]
    <2>1. effective_port(u) = effective_port(v) <=>
             \/ \E port \in Ports \ {-1} : Connects(u, port) /\ Connects(v, port)
             \/ \A port \in Ports \ {-1} : ~Connects(u, port) /\ ~Connects(v, port)
        BY <1>2, PortsAgree
    <2> QED BY <1>1, <1>2, <2>1 DEF webauth_completion_matches, SameTarget
<1>3. CASE Lower[u.scheme] # Lower[v.scheme]
    BY <1>3 DEF webauth_completion_matches, SameTarget
<1> QED BY <1>2, <1>3

(* A URI that matches an accepted completion URI is acceptable itself.        *)
LEMMA MatchIsAcceptable ==
    ASSUME NEW u \in URI, NEW v \in URI,
           webauth_completion_uri_is_valid(v), webauth_completion_matches(u, v)
    PROVE  webauth_completion_uri_is_valid(u)
<1>1. u.host \in Hosts /\ v.host \in Hosts
    BY DEF URI
<1>2. parse_uri(u) /\ Lower[v.scheme] = Lower[u.scheme]
    BY DEF webauth_completion_matches
<1>3. uri_has_host(u) \/ (~scheme_requires_host(u.scheme) /\ Normalise[u.path] # NoPath)
    <2>1. CASE uri_has_host(v)
        BY <2>1 DEF webauth_completion_matches
    <2>2. CASE ~uri_has_host(v)
        <3>1. ~scheme_requires_host(v.scheme) /\ Normalise[v.path] # NoPath
            BY <2>2 DEF webauth_completion_uri_is_valid
        <3>2. Normalise[v.path] = Normalise[u.path]
            BY DEF webauth_completion_matches
        <3> QED BY <1>2, <3>1, <3>2 DEF scheme_requires_host
    <2> QED BY <2>1, <2>2
<1>4. u.host \notin Wildcards
    <2>1. SUFFICES ASSUME u.host \in Wildcards PROVE FALSE
        OBVIOUS
    <2>2. uri_has_host(u)
        BY <2>1, HostAssumption DEF uri_has_host
    <2>3. Lower[v.host] = Lower[u.host]
        BY <2>2 DEF webauth_completion_matches
    <2>4. v.host \in Wildcards
        BY <1>1, <2>1, <2>3, LowerAssumption
    <2> QED BY <2>4 DEF webauth_completion_uri_is_valid
<1> QED BY <1>2, <1>3, <1>4 DEF webauth_completion_uri_is_valid

-----------------------------------------------------------------------------
(* What a flow's state says of its URIs.                                     *)
FlowInv ==
    /\ TypeOK
    /\ webauth_completion_uri_is_valid(requested)
    /\ navigation = NoURI => ~matched
    /\ navigation # NoURI => (matched <=> webauth_completion_matches(navigation, requested))

(* Every step of a flow keeps the invariant.                                  *)
LEMMA FlowStep == FlowInv /\ [Next]_vars => FlowInv'
<1> SUFFICES ASSUME FlowInv, [Next]_vars PROVE FlowInv'
    OBVIOUS
<1>1. ASSUME NEW uri \in URI, complete_on(uri), started' \in BOOLEAN PROVE FlowInv'
    BY <1>1, NoURIAssumption DEF FlowInv, TypeOK, complete_on, webauth_completion_matches
<1>2. CASE LoadStart
    BY <1>1, <1>2 DEF LoadStart
<1>3. CASE Navigate
    BY <1>1, <1>3 DEF Navigate, FlowInv, TypeOK
<1>4. CASE LeaveToEngine
    BY <1>4 DEF LeaveToEngine, FlowInv, TypeOK
<1>5. CASE UNCHANGED vars
    BY <1>5 DEF vars, FlowInv, TypeOK
<1> QED BY <1>2, <1>3, <1>4, <1>5 DEF Next, Done

(* The invariant of a flow holds throughout.                                  *)
LEMMA FlowInvariant == Spec => []FlowInv
<1>1. Init => FlowInv
    BY DEF Init, FlowInv, TypeOK
<1> QED BY <1>1, FlowStep, PTL DEF Spec

(* A flow completes exactly on an acceptable URI of its target.              *)
THEOREM FlowMatchesTarget == Spec => []MatchesExactlyTheTarget
<1>1. FlowInv => MatchesExactlyTheTarget
    <2> SUFFICES ASSUME FlowInv, navigation # NoURI
                 PROVE  matched <=> parse_uri(navigation) /\ SameTarget(navigation, requested)
        BY DEF MatchesExactlyTheTarget
    <2>1. navigation \in URI /\ requested \in URI /\ parse_uri(requested)
        BY DEF FlowInv, TypeOK, webauth_completion_uri_is_valid
    <2> QED BY <2>1, MatcherIsExact DEF FlowInv
<1> QED BY <1>1, FlowInvariant, PTL

(* Whatever completes a flow passes the frontend's check of it.              *)
THEOREM FlowResultAcceptable == Spec => []ResultIsAcceptable
<1>1. FlowInv => ResultIsAcceptable
    <2> SUFFICES ASSUME FlowInv, matched PROVE webauth_completion_uri_is_valid(navigation)
        BY DEF ResultIsAcceptable
    <2>1. navigation # NoURI
        BY DEF FlowInv
    <2>2. navigation \in URI /\ requested \in URI
        BY <2>1 DEF FlowInv, TypeOK
    <2> QED BY <2>1, <2>2, MatchIsAcceptable DEF FlowInv
<1> QED BY <1>1, FlowInvariant, PTL

-----------------------------------------------------------------------------
(* A set of natural numbers that is not empty has a least member.             *)
LEMMA HasLeast ==
    ASSUME NEW T \in SUBSET Nat, T # {}
    PROVE  \E least \in T : \A n \in T : least <= n
<1>1. \E least \in T : \A n \in T : ~ (<<n, least>> \in OpToRel(<, Nat))
    BY NatLessThanWellFounded, WFMin, Zenon
<1>2. PICK least \in T : \A n \in T : ~ (<<n, least>> \in OpToRel(<, Nat))
    BY <1>1
<1>3. ASSUME NEW n \in T PROVE least <= n
    <2>1. <<n, least>> \in Nat \X Nat /\ ~(n < least)
        BY <1>2, <1>3 DEF OpToRel
    <2> QED BY <2>1
<1> QED BY <1>3

(* f is defined up to n from a base and a step for each number.               *)
Follows(f, n, base, step) ==
    /\ f \in [0 .. n -> Nat]
    /\ f[0] = base
    /\ \A i \in 1 .. n : f[i] = step[i][f[i - 1]]

(* Induction up to a number, over the set of those a fact holds of.           *)
LEMMA Induction ==
    ASSUME NEW N \in Nat, NEW Holds, 0 \in Holds,
           \A n \in 1 .. N : n - 1 \in Holds => n \in Holds
    PROVE  0 .. N \subseteq Holds
<1> DEFINE Others == (0 .. N) \ Holds
<1>1. SUFFICES ASSUME Others # {} PROVE FALSE
    OBVIOUS
<1>2. PICK n \in Others : \A k \in Others : n <= k
    <2>1. Others \in SUBSET Nat
        OBVIOUS
    <2> HIDE DEF Others
    <2> QED BY <1>1, <2>1, HasLeast
<1>3. n \in 1 .. N /\ n - 1 \in 0 .. N
    OBVIOUS
<1>4. n - 1 \in Holds
    BY <1>2, <1>3
<1> QED BY <1>3, <1>4

(* A base and steps define a function up to any number.                       *)
LEMMA Recursion ==
    ASSUME NEW N \in Nat, NEW base \in Nat, NEW step \in [1 .. N -> [Nat -> Nat]]
    PROVE  \E f : Follows(f, N, base, step)
<1> DEFINE Defined == {n \in 0 .. N : \E f : Follows(f, n, base, step)}
<1>1. 0 \in Defined
    <2> DEFINE g == [i \in 0 .. 0 |-> base]
    <2>1. g \in [0 .. 0 -> Nat] /\ g[0] = base /\ 1 .. 0 = {}
        OBVIOUS
    <2> HIDE DEF g
    <2>2. Follows(g, 0, base, step)
        BY <2>1 DEF Follows
    <2> QED BY <2>2
<1>2. ASSUME NEW n \in 1 .. N, n - 1 \in Defined PROVE n \in Defined
    <2>1. PICK f : Follows(f, n - 1, base, step)
        BY <1>2
    <2>2. f \in [0 .. n - 1 -> Nat] /\ f[0] = base
        BY <2>1 DEF Follows
    <2>3. PICK last \in Nat : last = step[n][f[n - 1]]
        <3>1. f[n - 1] \in Nat /\ step[n] \in [Nat -> Nat]
            BY <2>2
        <3> QED BY <3>1
    <2> DEFINE g == [i \in 0 .. n |-> IF i = n THEN last ELSE f[i]]
    <2>4. g[n] = last /\ \A i \in 0 .. n - 1 : g[i] = f[i]
        OBVIOUS
    <2>5. \A i \in 0 .. n : i = n \/ i \in 0 .. n - 1
        OBVIOUS
    <2>6. g \in [0 .. n -> Nat]
        BY <2>2, <2>5
    <2> HIDE DEF g
    <2>7. g[0] = base
        <3>1. 0 \in 0 .. n - 1
            OBVIOUS
        <3> QED BY <2>2, <2>4, <3>1
    <2>8. g[n] = step[n][g[n - 1]]
        <3>1. n - 1 \in 0 .. n - 1
            OBVIOUS
        <3>2. g[n - 1] = f[n - 1]
            BY <2>4, <3>1
        <3> QED BY <2>3, <2>4, <3>2
    <2>9. ASSUME NEW i \in 1 .. n - 1 PROVE g[i] = step[i][g[i - 1]]
        <3>1. i \in 0 .. n - 1 /\ i - 1 \in 0 .. n - 1
            OBVIOUS
        <3>2. g[i - 1] = f[i - 1] /\ g[i] = f[i]
            BY <2>4, <3>1, Zenon
        <3>3. f[i] = step[i][f[i - 1]]
            BY <2>1 DEF Follows
        <3> QED BY <3>2, <3>3
    <2>10. \A i \in 1 .. n : i = n \/ i \in 1 .. n - 1
        OBVIOUS
    <2>11. \A i \in 1 .. n : g[i] = step[i][g[i - 1]]
        BY <2>8, <2>9, <2>10, Zenon
    <2>12. Follows(g, n, base, step)
        BY <2>6, <2>7, <2>11 DEF Follows
    <2> QED BY <2>12
<1> HIDE DEF Defined
<1>3. 0 .. N \subseteq Defined
    BY <1>1, <1>2, Induction
<1> QED BY <1>3 DEF Defined

(* A sequence of digits, each with a value.                                   *)
Digital(digits) == Len(digits) \in Nat /\ \A n \in 1 .. Len(digits) : Value[digits[n]] \in Nat

(* What is read of the digits so far.                                         *)
LEMMA ReadFollows ==
    ASSUME NEW digits, Digital(digits)
    PROVE  \E f \in [0 .. Len(digits) -> Nat] :
             /\ f[0] = 0
             /\ \A n \in 1 .. Len(digits) : f[n] = 16 * f[n - 1] + Value[digits[n]]
             /\ Read(digits) = f[Len(digits)]
<1> DEFINE L == Len(digits)
           Rule(f) == [n \in 0 .. L |-> IF n = 0 THEN 0 ELSE Base * f[n - 1] + Value[digits[n]]]
           given == CHOOSE f : f = Rule(f)
<1>0. L \in Nat /\ \A n \in 1 .. L : Value[digits[n]] \in Nat
    BY DEF Digital
<1>1. PICK f \in [0 .. L -> Nat] :
        f[0] = 0 /\ \A n \in 1 .. L : f[n] = 16 * f[n - 1] + Value[digits[n]]
    <2> DEFINE step == [n \in 1 .. L |-> [last \in Nat |-> 16 * last + Value[digits[n]]]]
    <2>1. step \in [1 .. L -> [Nat -> Nat]]
        BY <1>0
    <2>2. PICK f : Follows(f, L, 0, step)
        <3> HIDE DEF step
        <3> QED BY <1>0, <2>1, Recursion
    <2>3. f \in [0 .. L -> Nat] /\ f[0] = 0 /\ \A n \in 1 .. L : f[n] = step[n][f[n - 1]]
        <3> HIDE DEF step
        <3> QED BY <2>2 DEF Follows
    <2>4. \A n \in 1 .. L : n - 1 \in 0 .. L
        BY <1>0
    <2>5. \A n \in 1 .. L : f[n - 1] \in Nat
        BY <2>3, <2>4
    <2> QED BY <2>3, <2>5
<1>2. \A n \in 1 .. L : f[n] = Base * f[n - 1] + Value[digits[n]]
    BY <1>0, <1>1 DEF Base
<1>3. f = Rule(f)
    <2>1. \A n \in 0 .. L : f[n] = IF n = 0 THEN 0 ELSE Base * f[n - 1] + Value[digits[n]]
        BY <1>0, <1>1, <1>2
    <2> QED BY <1>1, <2>1
<1>4. given = Rule(given)
    <2> HIDE DEF Rule
    <2> QED BY <1>3
<1>5. \A n \in 0 .. L : given[n] = f[n]
    <2> HIDE DEF given
    <2>1. given[0] = f[0]
        BY <1>0, <1>1, <1>4
    <2>2. \A n \in 1 .. L : given[n] = Base * given[n - 1] + Value[digits[n]]
        BY <1>0, <1>4
    <2>3. \A n \in 1 .. L : given[n - 1] = f[n - 1] => given[n] = f[n]
        BY <1>2, <2>2
    <2> DEFINE Same == {n \in 0 .. L : given[n] = f[n]}
    <2>4. 0 \in Same
        BY <1>0, <2>1
    <2>5. ASSUME NEW n \in 1 .. L, n - 1 \in Same PROVE n \in Same
        BY <2>3, <2>5
    <2>6. 0 .. L \subseteq Same
        <3> HIDE DEF Same, Rule, L
        <3> QED BY <1>0, <2>4, <2>5, Induction
    <2> QED BY <2>6
<1>6. Read(digits) = given[L]
    BY Zenon DEF Read
<1>7. Read(digits) = f[L]
    BY <1>0, <1>5, <1>6
<1> QED BY <1>1, <1>7

(* What each place is worth, the last place first.                            *)
Powers(digits) ==
    CHOOSE f : f = [n \in 0 .. Len(digits) |-> IF n = 0 THEN 1 ELSE 16 * f[n - 1]]

(* Each place is worth the base times the one after it.                       *)
LEMMA PowersFollow ==
    ASSUME NEW digits, Digital(digits)
    PROVE  \E f \in [0 .. Len(digits) -> Nat] :
             /\ f[0] = 1
             /\ \A n \in 1 .. Len(digits) : f[n] = 16 * f[n - 1]
             /\ \A n \in 0 .. Len(digits) : Powers(digits)[n] = f[n]
<1> DEFINE L == Len(digits)
           Rule(f) == [n \in 0 .. L |-> IF n = 0 THEN 1 ELSE 16 * f[n - 1]]
           given == CHOOSE f : f = Rule(f)
<1>0. L \in Nat /\ \A n \in 1 .. L : Value[digits[n]] \in Nat
    BY DEF Digital
<1>1. PICK f \in [0 .. L -> Nat] :
        f[0] = 1 /\ \A n \in 1 .. L : f[n] = 16 * f[n - 1]
    <2> DEFINE step == [n \in 1 .. L |-> [last \in Nat |-> 16 * last]]
    <2>1. step \in [1 .. L -> [Nat -> Nat]]
        BY <1>0
    <2>2. PICK f : Follows(f, L, 1, step)
        <3> HIDE DEF step
        <3> QED BY <1>0, <2>1, Recursion
    <2>3. f \in [0 .. L -> Nat] /\ f[0] = 1 /\ \A n \in 1 .. L : f[n] = step[n][f[n - 1]]
        <3> HIDE DEF step
        <3> QED BY <2>2 DEF Follows
    <2>4. \A n \in 1 .. L : n - 1 \in 0 .. L
        BY <1>0
    <2>5. \A n \in 1 .. L : f[n - 1] \in Nat
        BY <2>3, <2>4
    <2> QED BY <2>3, <2>5
<1>2. \A n \in 1 .. L : f[n] = 16 * f[n - 1]
    BY <1>0, <1>1
<1>3. f = Rule(f)
    <2>1. \A n \in 0 .. L : f[n] = IF n = 0 THEN 1 ELSE 16 * f[n - 1]
        BY <1>0, <1>1, <1>2
    <2> QED BY <1>1, <2>1
<1>4. given = Rule(given)
    <2> HIDE DEF Rule
    <2> QED BY <1>3
<1>5. \A n \in 0 .. L : given[n] = f[n]
    <2> HIDE DEF given
    <2>1. given[0] = f[0]
        BY <1>0, <1>1, <1>4
    <2>2. \A n \in 1 .. L : given[n] = 16 * given[n - 1]
        BY <1>0, <1>4
    <2>3. \A n \in 1 .. L : given[n - 1] = f[n - 1] => given[n] = f[n]
        BY <1>2, <2>2
    <2> DEFINE Same == {n \in 0 .. L : given[n] = f[n]}
    <2>4. 0 \in Same
        BY <1>0, <2>1
    <2>5. ASSUME NEW n \in 1 .. L, n - 1 \in Same PROVE n \in Same
        BY <2>3, <2>5
    <2>6. 0 .. L \subseteq Same
        <3> HIDE DEF Same, Rule, L
        <3> QED BY <1>0, <2>4, <2>5, Induction
    <2> QED BY <2>6
<1>6. Powers(digits) = given
    BY DEF Powers
<1> QED BY <1>1, <1>5, <1>6

(* The number digits stand for adds one place at a time.                      *)
LEMMA SumsFollow ==
    ASSUME NEW digits, Digital(digits),
           NEW power \in [0 .. Len(digits) -> Nat],
           \A n \in 0 .. Len(digits) : Powers(digits)[n] = power[n]
    PROVE  \E f \in [0 .. Len(digits) -> Nat] :
             /\ f[0] = 0
             /\ \A n \in 1 .. Len(digits) :
                  f[n] = f[n - 1] + Value[digits[n]] * power[Len(digits) - n]
             /\ Number(digits) = f[Len(digits)]
<1> DEFINE L == Len(digits)
           Rule(f) == [n \in 0 .. L |->
                         IF n = 0 THEN 0 ELSE f[n - 1] + Value[digits[n]] * Powers(digits)[L - n]]
           given == CHOOSE f : f = Rule(f)
<1>1. L \in Nat /\ \A n \in 1 .. L : Value[digits[n]] \in Nat
    BY DEF Digital
<1>2. PICK term \in [1 .. L -> Nat] : \A n \in 1 .. L :
        /\ term[n] = Value[digits[n]] * power[L - n]
        /\ term[n] = Value[digits[n]] * Powers(digits)[L - n]
    <2>1. \A n \in 1 .. L : L - n \in 0 .. L
        BY <1>1
    <2>2. \A n \in 1 .. L : power[L - n] \in Nat /\ power[L - n] = Powers(digits)[L - n]
        BY <2>1
    <2>3. \A n \in 1 .. L : Value[digits[n]] * power[L - n] \in Nat
        BY <1>1, <2>2
    <2> DEFINE term == [n \in 1 .. L |-> Value[digits[n]] * power[L - n]]
    <2>4. term \in [1 .. L -> Nat]
        BY <2>3
    <2>5. \A n \in 1 .. L :
            /\ term[n] = Value[digits[n]] * power[L - n]
            /\ term[n] = Value[digits[n]] * Powers(digits)[L - n]
        BY <2>2
    <2> HIDE DEF term
    <2> QED BY <2>4, <2>5
<1>3. L \in Nat /\ term \in [1 .. L -> Nat]
    BY <1>1
<1>4. PICK f \in [0 .. L -> Nat] :
        f[0] = 0 /\ \A n \in 1 .. L : f[n] = f[n - 1] + term[n]
    <2> DEFINE step == [n \in 1 .. L |-> [last \in Nat |-> last + term[n]]]
    <2>1. step \in [1 .. L -> [Nat -> Nat]]
        BY <1>3
    <2>2. PICK f : Follows(f, L, 0, step)
        <3> HIDE DEF step
        <3> QED BY <1>3, <2>1, Recursion
    <2>3. f \in [0 .. L -> Nat] /\ f[0] = 0 /\ \A n \in 1 .. L : f[n] = step[n][f[n - 1]]
        <3> HIDE DEF step
        <3> QED BY <2>2 DEF Follows
    <2>4. \A n \in 1 .. L : n - 1 \in 0 .. L
        BY <1>3
    <2>5. \A n \in 1 .. L : f[n - 1] \in Nat
        BY <2>3, <2>4
    <2> QED BY <2>3, <2>5
<1>5. \A n \in 1 .. L : f[n] = f[n - 1] + Value[digits[n]] * Powers(digits)[L - n]
    BY <1>3, <1>4, <1>2
<1>6. f = Rule(f)
    <2>1. \A n \in 0 .. L :
            f[n] = IF n = 0 THEN 0 ELSE f[n - 1] + Value[digits[n]] * Powers(digits)[L - n]
        BY <1>3, <1>4, <1>5
    <2> QED BY <1>4, <2>1
<1>7. given = Rule(given)
    <2> HIDE DEF Rule
    <2> QED BY <1>6
<1>8. \A n \in 0 .. L : given[n] = f[n]
    <2> HIDE DEF given
    <2>1. given[0] = f[0]
        BY <1>3, <1>4, <1>7
    <2>2. \A n \in 1 .. L : given[n] = given[n - 1] + Value[digits[n]] * Powers(digits)[L - n]
        BY <1>3, <1>7
    <2>3. \A n \in 1 .. L : given[n - 1] = f[n - 1] => given[n] = f[n]
        BY <1>5, <2>2
    <2> DEFINE Same == {n \in 0 .. L : given[n] = f[n]}
    <2>4. 0 \in Same
        BY <1>3, <2>1
    <2>5. ASSUME NEW n \in 1 .. L, n - 1 \in Same PROVE n \in Same
        BY <2>3, <2>5
    <2>6. 0 .. L \subseteq Same
        <3> HIDE DEF Same, Rule, L
        <3> QED BY <1>3, <2>4, <2>5, Induction
    <2> QED BY <2>6
<1>9. Number(digits) = given[L]
    BY Zenon DEF Number, Powers
<1>10. Number(digits) = f[L]
    BY <1>3, <1>8, <1>9
<1>11. \A n \in 1 .. L : f[n] = f[n - 1] + Value[digits[n]] * power[L - n]
    BY <1>4, <1>2
<1> QED BY <1>4, <1>10, <1>11

(* Reading from the left gives the number that the digits stand for.          *)
THEOREM ReadIsNumber ==
    ASSUME NEW digits, Digital(digits)
    PROVE  Read(digits) = Number(digits) /\ Number(digits) \in Nat
<1> DEFINE L == Len(digits)
<1>1. PICK read \in [0 .. L -> Nat] :
        /\ read[0] = 0
        /\ \A n \in 1 .. L : read[n] = 16 * read[n - 1] + Value[digits[n]]
        /\ Read(digits) = read[L]
    BY ReadFollows
<1>2. PICK power \in [0 .. L -> Nat] :
        /\ power[0] = 1
        /\ \A n \in 1 .. L : power[n] = 16 * power[n - 1]
        /\ \A n \in 0 .. L : Powers(digits)[n] = power[n]
    BY PowersFollow
<1>3. PICK sum \in [0 .. L -> Nat] :
        /\ sum[0] = 0
        /\ \A n \in 1 .. L : sum[n] = sum[n - 1] + Value[digits[n]] * power[L - n]
        /\ Number(digits) = sum[L]
    BY <1>2, SumsFollow
<1>4. L \in Nat /\ \A n \in 1 .. L : Value[digits[n]] \in Nat
    BY DEF Digital
<1> HIDE DEF L
<1> DEFINE Agrees == {n \in 0 .. L : read[n] * power[L - n] = sum[n]}
<1>5. 0 \in Agrees
    BY <1>1, <1>2, <1>3, <1>4
<1>6. ASSUME NEW n \in 1 .. L, n - 1 \in Agrees PROVE n \in Agrees
    <2>1. /\ n - 1 \in 0 .. L /\ L - n \in 0 .. L /\ L - (n - 1) \in 1 .. L
          /\ L - (n - 1) - 1 = L - n
        BY <1>4
    <2>2. PICK r \in Nat, s \in Nat, p \in Nat, v \in Nat :
            r = read[n - 1] /\ s = sum[n - 1] /\ p = power[L - n] /\ v = Value[digits[n]]
        BY <1>4, <2>1
    <2>3. power[L - (n - 1)] = 16 * p
        BY <1>2, <2>1, <2>2
    <2>4. r * (16 * p) = s
        BY <1>6, <2>2, <2>3
    <2>5. read[n] = 16 * r + v /\ sum[n] = s + v * p
        BY <1>1, <1>3, <2>2
    <2>6. (16 * r + v) * p = r * (16 * p) + v * p
        OBVIOUS
    <2>7. read[n] * power[L - n] = sum[n]
        BY <2>2, <2>4, <2>5, <2>6
    <2> QED BY <2>7
<1>7. L \in Agrees
    <2>1. 0 .. L \subseteq Agrees
        <3> HIDE DEF Agrees
        <3> QED BY <1>4, <1>5, <1>6, Induction
    <2> QED BY <1>4, <2>1
<1>8. read[L] * 1 = sum[L]
    BY <1>2, <1>4, <1>7
<1> QED BY <1>1, <1>3, <1>4, <1>8 DEF L

-----------------------------------------------------------------------------
(* Where the characters of a set end.                                         *)
LEMMA PastIs ==
    ASSUME NEW string, Len(string) \in Nat, NEW set, NEW from \in 1 .. Len(string) + 1
    PROVE  /\ Past(string, set, from) \in from .. Len(string) + 1
           /\ \/ Past(string, set, from) = Len(string) + 1
              \/ string[Past(string, set, from)] \notin set
           /\ \A k \in from .. Past(string, set, from) - 1 : string[k] \in set
<1> DEFINE Stops == {n \in from .. Len(string) + 1 : n = Len(string) + 1 \/ string[n] \notin set}
<1>1. PICK n \in Stops : \A k \in Stops : n <= k
    <2>1. Stops \in SUBSET Nat /\ Len(string) + 1 \in Stops
        OBVIOUS
    <2> HIDE DEF Stops
    <2> QED BY <2>1, HasLeast
<1>2. \A k \in from .. n - 1 : string[k] \in set
    <2> TAKE k \in from .. n - 1
    <2>1. k \in from .. Len(string) + 1 /\ k < n
        OBVIOUS
    <2>2. k \notin Stops
        BY <1>1, <2>1
    <2> QED BY <2>1, <2>2
<1>3. \E m \in from .. Len(string) + 1 :
        /\ m = Len(string) + 1 \/ string[m] \notin set
        /\ \A k \in from .. m - 1 : string[k] \in set
    BY <1>2
<1> QED BY <1>3, Zenon DEF Past

(* The place where they end is the only one of its kind.                      *)
LEMMA PastIsThere ==
    ASSUME NEW string, Len(string) \in Nat, NEW set, NEW from \in 1 .. Len(string) + 1,
           NEW n \in from .. Len(string) + 1, n = Len(string) + 1 \/ string[n] \notin set,
           \A k \in from .. n - 1 : string[k] \in set
    PROVE  Past(string, set, from) = n
<1> DEFINE m == Past(string, set, from)
<1>1. /\ m \in from .. Len(string) + 1
      /\ m = Len(string) + 1 \/ string[m] \notin set
      /\ \A k \in from .. m - 1 : string[k] \in set
    BY PastIs
<1> HIDE DEF m
<1>2. ~ (m < n) /\ ~ (n < m)
    BY <1>1
<1> QED BY <1>1, <1>2 DEF m

(* A stretch of digits has a number.                                          *)
LEMMA DigitsHaveANumber ==
    ASSUME NEW string \in Texts, NEW first \in 1 .. Len(string) + 1, NEW last \in 0 .. Len(string),
           first <= last + 1,
           \A n \in first .. last : string[n] \in Digits
    PROVE  LET digits == SubSeq(string, first, last)
           IN  /\ digits \in Seq(Digits) /\ Len(digits) = last - first + 1
               /\ Read(digits) = Number(digits) /\ Number(digits) \in Nat
<1> DEFINE digits == SubSeq(string, first, last)
<1>1. string \in Seq(Range(string)) /\ Len(string) \in Nat
    BY TextAssumption
<1>2. Len(digits) = last - first + 1
           /\ \A n \in 1 .. Len(digits) : digits[n] = string[first + n - 1]
    BY <1>1
<1>3. digits \in Seq(Range(string))
    BY <1>1
<1> HIDE DEF digits
<1>4. \A n \in 1 .. Len(digits) : digits[n] \in Digits
    BY <1>2
<1>5. digits \in Seq(Digits)
    BY <1>3, <1>4
<1>6. Digital(digits)
    <2>1. \A c \in Digits : Value[c] \in Nat
        BY ValueAssumption DEF Digits
    <2>2. Len(digits) \in Nat
        BY <1>5
    <2> QED BY <1>4, <2>1, <2>2 DEF Digital
<1> QED BY <1>2, <1>5, <1>6, ReadIsNumber DEF digits

(* Remainders that leave a number as it is.                                   *)
LEMMA SmallRemainder ==
    ASSUME NEW size \in Nat \ {0}
    PROVE  size % size = 0 /\ \A n \in 0 .. size - 1 : n % size = n
OBVIOUS

(* The signs a number may have.                                              *)
Signs == {"+", "-"}

(* What strtoul returns for digits that stand for a number.                   *)
Result(string, sign, first, end, number) ==
    [end |-> IF end = first THEN 1 ELSE end,
     errno |-> number >= LongSize,
     value |-> IF number >= LongSize THEN LongSize - 1
               ELSE IF IsAt(string, {"-"}, sign) THEN (LongSize - number) % LongSize
               ELSE number]

(* The parts of a string that strtoul goes through.                           *)
Parts(string, sign, unsigned, first, end) ==
    /\ sign = Past(string, {" "}, 1)
    /\ unsigned = IF IsAt(string, Signs, sign) THEN sign + 1 ELSE sign
    /\ first = IF /\ IsAt(string, {"0"}, unsigned) /\ IsAt(string, {"x"}, unsigned + 1)
                  /\ IsAt(string, Digits, unsigned + 2)
               THEN unsigned + 2 ELSE unsigned
    /\ end = Past(string, Digits, first)
    /\ strtoul(string) =
         Result(string, sign, first, end, Number(SubSeq(string, first, end - 1)))

(* Every string has those parts, and what is read is the number of its digits. *)
LEMMA StrtoulParts ==
    ASSUME NEW string \in Texts
    PROVE  \E sign, unsigned, first, end \in 1 .. Len(string) + 1 :
             /\ Parts(string, sign, unsigned, first, end)
             /\ first <= end /\ \A k \in first .. end - 1 : string[k] \in Digits
             /\ Number(SubSeq(string, first, end - 1)) \in Nat
<1>1. Len(string) \in Nat
    BY TextAssumption
<1> DEFINE sign == Past(string, {" "}, 1)
           unsigned == IF IsAt(string, Signs, sign) THEN sign + 1 ELSE sign
           first == IF /\ IsAt(string, {"0"}, unsigned) /\ IsAt(string, {"x"}, unsigned + 1)
                       /\ IsAt(string, Digits, unsigned + 2)
                    THEN unsigned + 2 ELSE unsigned
           end == Past(string, Digits, first)
           digits == SubSeq(string, first, end - 1)
<1>2. strtoul(string) = Result(string, sign, first, end, Read(digits))
    BY Zenon DEF strtoul, Result, Signs
<1>3. sign \in 1 .. Len(string) + 1
    <2>1. 1 \in 1 .. Len(string) + 1
        BY <1>1
    <2> QED BY <1>1, <2>1, PastIs
<1> HIDE DEF sign
<1>4. unsigned \in 1 .. Len(string) + 1
    BY <1>1, <1>3 DEF IsAt
<1> HIDE DEF unsigned
<1>5. first \in 1 .. Len(string) + 1
    BY <1>1, <1>4 DEF IsAt
<1> HIDE DEF first
<1>6. end \in first .. Len(string) + 1 /\ \A k \in first .. end - 1 : string[k] \in Digits
    BY <1>1, <1>5, PastIs
<1> HIDE DEF end
<1>7. Read(digits) = Number(digits) /\ Number(digits) \in Nat
    <2>1. end - 1 \in 0 .. Len(string) /\ first <= end - 1 + 1
        BY <1>1, <1>5, <1>6
    <2> QED BY <1>5, <1>6, <2>1, DigitsHaveANumber
<1>8. end \in 1 .. Len(string) + 1
    BY <1>1, <1>5, <1>6
<1>9. strtoul(string) = Result(string, sign, first, end, Number(digits))
    BY <1>2, <1>7
<1>10. Parts(string, sign, unsigned, first, end)
    BY <1>9, Zenon DEF Parts, sign, unsigned, first, end
<1>11. first <= end
    BY <1>5, <1>6
<1> HIDE DEF digits
<1> QED BY <1>3, <1>4, <1>5, <1>6, <1>7, <1>8, <1>10, <1>11, Zenon DEF digits

(* The characters that may precede the digits.                               *)
Before == {" ", "+", "-", "0", "x"}

(* A stretch from the start ends no later than all of its kind.              *)
LEMMA NotPast ==
    ASSUME NEW string, Len(string) \in Nat, NEW set, NEW n \in 1 .. Len(string) + 1,
           \A k \in 1 .. n - 1 : string[k] \in set
    PROVE  n <= Past(string, set, 1) /\ Past(string, set, 1) \in 1 .. Len(string) + 1
<1> DEFINE m == Past(string, set, 1)
<1>1. /\ m \in 1 .. Len(string) + 1
      /\ m = Len(string) + 1 \/ string[m] \notin set
    <2>1. 1 \in 1 .. Len(string) + 1
        OBVIOUS
    <2> QED BY <2>1, PastIs
<1> HIDE DEF m
<1>2. ~ (m < n)
    BY <1>1
<1> QED BY <1>1, <1>2 DEF m

(* A parent that is read is one that digits of the string spell.              *)
LEMMA ReadIsSpelled ==
    ASSUME NEW string \in Texts,
           ~strtoul(string).errno, strtoul(string).end # 1,
           strtoul(string).end = Len(string) + 1, strtoul(string).value # 0
    PROVE  \E n \in 1 .. Past(string, Before, 1) :
             LET digits == SubSeq(string, n, Len(string)) IN
             /\ AllDigits(digits) /\ Number(digits) \in 1 .. LongSize - 1
             /\ strtoul(string).value \in {Number(digits), LongSize - Number(digits)}
<1>1. Len(string) \in Nat
    BY TextAssumption
<1>2. PICK sign, unsigned, first, end \in 1 .. Len(string) + 1 :
             /\ Parts(string, sign, unsigned, first, end)
             /\ first <= end /\ \A k \in first .. end - 1 : string[k] \in Digits
             /\ Number(SubSeq(string, first, end - 1)) \in Nat
    BY StrtoulParts
<1>3. PICK number \in Nat : number = Number(SubSeq(string, first, end - 1))
    BY <1>2
<1>4. strtoul(string) = Result(string, sign, first, end, number)
    BY <1>2, <1>3 DEF Parts
<1>5. end # first /\ end = Len(string) + 1 /\ number < LongSize
    <2>1. strtoul(string).end = IF end = first THEN 1 ELSE end
        BY <1>4 DEF Result
    <2>2. strtoul(string).errno = (number >= LongSize)
        <3>1. Result(string, sign, first, end, number).errno = (number >= LongSize)
            BY DEF Result
        <3> QED BY <1>4, <3>1, Zenon
    <2>3. ~(number >= LongSize)
        BY <2>2, Zenon
    <2> QED BY <2>1, <2>3, SizeAssumption
<1>6. strtoul(string).value \in {number, (LongSize - number) % LongSize}
    BY <1>3, <1>4, <1>5, SizeAssumption DEF Result
<1>7. number # 0 /\ (LongSize - number) % LongSize = LongSize - number
    <2>1. LongSize \in Nat \ {0}
        BY SizeAssumption
    <2>2. LongSize % LongSize = 0
        BY <2>1, SmallRemainder
    <2>3. number # 0
        BY <1>6, <2>1, <2>2
    <2>4. LongSize - number \in 0 .. LongSize - 1
        BY <1>3, <1>5, <2>1, <2>3
    <2> QED BY <2>1, <2>3, <2>4, SmallRemainder
<1>8. end - 1 = Len(string)
    BY <1>1, <1>5
<1> DEFINE digits == SubSeq(string, first, Len(string))
<1>9. digits \in Seq(Digits) /\ Len(digits) = Len(string) - first + 1
    <2>1. Len(string) \in 0 .. Len(string) /\ first <= Len(string) + 1
        BY <1>1
    <2> QED BY <1>2, <1>8, <2>1, DigitsHaveANumber
<1> HIDE DEF digits
<1>10. AllDigits(digits)
    BY <1>1, <1>2, <1>5, <1>9 DEF AllDigits
<1>11. number = Number(digits)
    BY <1>3, <1>8 DEF digits
<1>12. \A k \in 1 .. first - 1 : string[k] \in Before
    <2>1. \A k \in 1 .. sign - 1 : string[k] \in {" "}
        <3>1. 1 \in 1 .. Len(string) + 1
            BY <1>1
        <3> QED BY <1>1, <1>2, <3>1, PastIs DEF Parts
    <2>2. unsigned = sign \/ (unsigned = sign + 1 /\ string[sign] \in Before)
        BY <1>2 DEF Parts, IsAt, Signs, Before
    <2>3. \/ first = unsigned
          \/ first = unsigned + 2 /\ string[unsigned] \in Before /\ string[unsigned + 1] \in Before
        BY <1>2 DEF Parts, IsAt, Before
    <2>4. \A k \in 1 .. unsigned - 1 : string[k] \in Before
        <3>1. \A k \in 1 .. unsigned - 1 : k \in 1 .. sign - 1 \/ (k = sign /\ unsigned = sign + 1)
            BY <2>2
        <3>2. \A k \in 1 .. sign - 1 : string[k] \in Before
            BY <2>1 DEF Before
        <3> QED BY <2>2, <3>1, <3>2
    <2>5. \A k \in 1 .. first - 1 :
            k \in 1 .. unsigned - 1 \/ (first = unsigned + 2 /\ k \in {unsigned, unsigned + 1})
        <3>1. CASE first = unsigned
            BY <3>1
        <3>2. CASE first = unsigned + 2
            BY <3>2
        <3> QED BY <2>3, <3>1, <3>2
    <2> QED BY <2>3, <2>4, <2>5
<1>13. first \in 1 .. Past(string, Before, 1)
    BY <1>1, <1>12, NotPast
<1>14. Number(digits) \in 1 .. LongSize - 1
         /\ strtoul(string).value \in {Number(digits), LongSize - Number(digits)}
    BY <1>3, <1>5, <1>6, <1>7, <1>11, SizeAssumption
<1> QED BY <1>10, <1>13, <1>14 DEF digits

(* Digits with or without "0x" are read as the number they stand for.         *)
THEOREM NameIsRead ==
    ASSUME NEW string \in Texts, NEW n \in {0, 2},
           n = 2 => Len(string) >= 2 /\ SubSeq(string, 1, 2) = <<"0", "x">>,
           AllDigits(SubSeq(string, n + 1, Len(string))),
           Number(SubSeq(string, n + 1, Len(string))) < LongSize
    PROVE  strtoul(string) = [end |-> Len(string) + 1, errno |-> FALSE,
                              value |-> Number(SubSeq(string, n + 1, Len(string)))]
<1>1. Len(string) \in Nat /\ string \in Seq(Range(string))
    BY TextAssumption
<1>2. PICK sign, unsigned, first, end \in 1 .. Len(string) + 1 :
             /\ Parts(string, sign, unsigned, first, end)
             /\ Number(SubSeq(string, first, end - 1)) \in Nat
    BY StrtoulParts
<1>3. n < Len(string) /\ \A k \in n + 1 .. Len(string) : string[k] \in Digits
    <2> DEFINE digits == SubSeq(string, n + 1, Len(string))
    <2>1. DOMAIN digits = 1 .. Len(digits) /\ \A k \in 1 .. Len(digits) : digits[k] = string[n + k]
        BY <1>1
    <2>2. Len(digits) = IF n < Len(string) THEN Len(string) - n ELSE 0
        BY <1>1
    <2>3. n < Len(string)
        BY <1>1, <2>2 DEF AllDigits
    <2>4. ASSUME NEW k \in n + 1 .. Len(string) PROVE string[k] \in Digits
        <3>1. k - n \in 1 .. Len(digits) /\ string[k] = string[n + (k - n)]
            BY <1>1, <2>2, <2>3
        <3>2. digits[k - n] = string[n + (k - n)] /\ digits[k - n] \in Digits
            BY <2>1, <3>1 DEF AllDigits
        <3> QED BY <3>1, <3>2
    <2> QED BY <2>3, <2>4
<1>4. \A c \in Digits : c \notin {" ", "+", "-", "x"}
    BY ValueAssumption DEF Digits
<1>5. n = 2 => string[1] = "0" /\ string[2] = "x"
    <2> SUFFICES ASSUME n = 2 PROVE string[1] = "0" /\ string[2] = "x"
        OBVIOUS
    <2>1. SubSeq(string, 1, 2)[1] = string[1] /\ SubSeq(string, 1, 2)[2] = string[2]
        BY <1>1, <1>3
    <2>2. SubSeq(string, 1, 2) = <<"0", "x">>
        OBVIOUS
    <2>3. <<"0", "x">>[1] = "0" /\ <<"0", "x">>[2] = "x"
        OBVIOUS
    <2> QED BY <2>1, <2>2, <2>3, Zenon
<1>6. Len(string) >= 1
    BY <1>1, <1>3
<1>7. string[1] \notin {" ", "+", "-"}
    <2>1. CASE n = 0
        <3>1. string[1] \in Digits
            <4>1. 1 \in n + 1 .. Len(string)
                BY <1>1, <1>3, <2>1
            <4> QED BY <1>3, <4>1
        <3>2. \A c \in Digits : c \notin {" ", "+", "-"}
            BY <1>4
        <3> QED BY <3>1, <3>2, Zenon
    <2>2. CASE n = 2
        <3>1. string[1] = "0" /\ "0" \notin {" ", "+", "-"}
            BY <1>5, <2>2
        <3> QED BY <3>1, Zenon
    <2> QED BY <2>1, <2>2
<1>8. sign = 1
    <2>1. string[1] \notin {" "}
        BY <1>7
    <2>2. 1 \in 1 .. Len(string) + 1 /\ 1 .. 1 - 1 = {}
        BY <1>1
    <2> QED BY <1>1, <1>2, <2>1, <2>2, PastIsThere DEF Parts
<1>9. unsigned = 1 /\ ~IsAt(string, {"-"}, sign)
    <2>1. string[1] \notin Signs
        BY <1>7 DEF Signs
    <2>2. string[1] \notin {"-"}
        BY <1>7
    <2> QED BY <2>2, <1>2, <1>8, <2>1 DEF Parts, IsAt, Signs
<1>10. first = n + 1
    <2>1. first = IF IsAt(string, {"0"}, 1) /\ IsAt(string, {"x"}, 2) /\ IsAt(string, Digits, 3)
                  THEN 3 ELSE 1
        <3>1. unsigned + 1 = 2 /\ unsigned + 2 = 3 /\ unsigned = 1
            BY <1>9
        <3> QED BY <1>2, <3>1 DEF Parts
    <2>2. CASE n = 0
        <3>1. 2 <= Len(string) => 2 \in n + 1 .. Len(string)
            BY <1>1, <2>2
        <3>2. 2 <= Len(string) => string[2] \in Digits
            BY <1>3, <3>1
        <3>3. ~IsAt(string, {"x"}, 2)
            BY <1>4, <3>2 DEF IsAt
        <3> QED BY <2>1, <2>2, <3>3
    <2>3. CASE n = 2
        <3>1. IsAt(string, {"0"}, 1) /\ IsAt(string, {"x"}, 2) /\ IsAt(string, Digits, 3)
            BY <1>1, <1>3, <1>5, <2>3 DEF IsAt
        <3> QED BY <2>1, <2>3, <3>1
    <2> QED BY <2>2, <2>3
<1>11. end = Len(string) + 1
    <2>1. Len(string) + 1 \in first .. Len(string) + 1
            /\ \A k \in first .. Len(string) + 1 - 1 : string[k] \in Digits
        BY <1>1, <1>3, <1>10
    <2>2. end = Past(string, Digits, first)
        BY <1>2 DEF Parts
    <2> QED BY <1>1, <2>1, <2>2, PastIsThere
<1>12. end - 1 = Len(string) /\ end # first
    BY <1>1, <1>3, <1>10, <1>11
<1>13. PICK number \in Nat : number = Number(SubSeq(string, n + 1, Len(string)))
    BY <1>2, <1>10, <1>12
<1>14. number < LongSize /\ strtoul(string) = Result(string, sign, first, end, number)
    BY <1>2, <1>10, <1>12, <1>13 DEF Parts
<1>15. ~(number >= LongSize)
    BY <1>14, SizeAssumption
<1> DEFINE result == [end |-> Len(string) + 1, errno |-> FALSE, value |-> number]
<1>16. Result(string, sign, first, end, number) = result
    <2>1. ~(number >= LongSize) = TRUE /\ (number >= LongSize) = FALSE
        BY <1>15
    <2>2. /\ (IF end = first THEN 1 ELSE end) = Len(string) + 1
          /\ (IF number >= LongSize THEN LongSize - 1
              ELSE IF IsAt(string, {"-"}, sign) THEN (LongSize - number) % LongSize
              ELSE number) = number
        BY <1>9, <1>11, <1>12, <1>15
    <2> QED BY <2>1, <2>2, Zenon DEF Result
<1> QED BY <1>13, <1>14, <1>16

-----------------------------------------------------------------------------
(* What the display was told follows from the handle alone.                   *)
Told ==
    IF display = "wayland" /\ prefix = "wayland:" THEN parent \in {Foreign, NoParent}
    ELSE IF OnX11 /\ Acceptable(strtoul(text))
    THEN parent = strtoul(text).value % XidSize
    ELSE parent = NoParent

(* No window is told before the handle is applied, and Told from then on.    *)
ParentInv ==
    /\ text \in Texts
    /\ stage \in {"new", "realized", "parented", "presented"}
    /\ IF stage \in {"new", "realized"} THEN parent = NoParent ELSE Told

(* Every step of a sign-in window keeps that.                                *)
LEMMA ParentInvariance == ParentSpec => []ParentInv
<1>1. ParentInit => ParentInv
    BY DEF ParentInit, ParentInv
<1>2. ParentInv /\ [ParentNext]_parentVars => ParentInv'
    <2> SUFFICES ASSUME ParentInv, [ParentNext]_parentVars PROVE ParentInv'
        OBVIOUS
    <2>1. display' = display /\ prefix' = prefix /\ text' = text
        BY DEF ParentNext, Realize, SetParent, Present, parentVars, handle
    <2>2. CASE Realize
        BY <2>1, <2>2 DEF Realize, ParentInv
    <2>3. CASE SetParent
        <3>1. set_parent_of /\ stage' = "parented" /\ parent = NoParent
            BY <2>3 DEF SetParent, ParentInv
        <3>2. Told'
            BY <2>1, <3>1 DEF set_parent_of, set_x11_parent, Told, OnX11, Acceptable
        <3> QED BY <2>1, <3>1, <3>2 DEF ParentInv
    <2>4. CASE Present
        BY <2>1, <2>4 DEF Present, ParentInv, Told, OnX11, Acceptable
    <2>5. CASE UNCHANGED parentVars
        BY <2>1, <2>5 DEF parentVars, ParentInv, Told, OnX11, Acceptable
    <2> QED BY <2>2, <2>3, <2>4, <2>5 DEF ParentNext
<1> QED BY <1>1, <1>2, PTL DEF ParentSpec

(* A window a handle names is the parent, and a parent is one the handle      *)
(* stands for, whatever follows "x11:" and however wide a long is.            *)
THEOREM ParentFollowsHandle == ParentSpec => []ParentIsDenoted
<1>1. ParentInv =>
        (stage = "presented" /\ OnX11 => \A id \in 1 .. XidSize - 1 : Names(id) => parent = id)
    <2> SUFFICES ASSUME ParentInv, stage = "presented", OnX11,
                        NEW id \in 1 .. XidSize - 1, Names(id)
                 PROVE  parent = id
        OBVIOUS
    <2>1. text \in Texts /\ Told
        BY DEF ParentInv
    <2>2. PICK n \in {0, 2} :
            /\ n = 2 => Len(text) >= 2 /\ SubSeq(text, 1, 2) = <<"0", "x">>
            /\ AllDigits(SubSeq(text, n + 1, Len(text)))
            /\ Number(SubSeq(text, n + 1, Len(text))) = id
        BY DEF Names
    <2>3. id < LongSize /\ id \in Nat /\ id # 0 /\ XidSize \in Nat \ {0}
        BY SizeAssumption
    <2>4. strtoul(text) = [end |-> Len(text) + 1, errno |-> FALSE, value |-> id]
        BY <2>1, <2>2, <2>3, NameIsRead
    <2>5. Len(text) \in Nat /\ Len(text) # 0
        <3>1. Len(text) \in Nat /\ text \in Seq(Range(text))
            BY <2>1, TextAssumption
        <3>2. CASE Len(text) = 0
            <4>1. n = 0
                BY <2>2, <3>2
            <4>2. SubSeq(text, n + 1, Len(text)) = << >>
                BY <3>1, <3>2, <4>1
            <4> QED BY <2>2, <4>2 DEF AllDigits
        <3> QED BY <3>1, <3>2
    <2>6. Acceptable(strtoul(text))
        BY <2>3, <2>4, <2>5 DEF Acceptable
    <2>7. parent = id % XidSize
        BY <2>1, <2>4, <2>6 DEF Told, OnX11
    <2> QED BY <2>3, <2>7, SmallRemainder
<1>2. ParentInv => (parent # NoParent => ParentIsSpelled)
    <2> SUFFICES ASSUME ParentInv, parent # NoParent PROVE ParentIsSpelled
        OBVIOUS
    <2>1. text \in Texts /\ Told
        BY DEF ParentInv
    <2>2. CASE display = "wayland" /\ prefix = "wayland:"
        BY <2>1, <2>2 DEF Told, ParentIsSpelled
    <2>3. CASE ~(display = "wayland" /\ prefix = "wayland:")
        <3>1. OnX11 /\ Acceptable(strtoul(text)) /\ parent = strtoul(text).value % XidSize
            BY <2>1, <2>3 DEF Told
        <3>2. PICK n \in 1 .. Past(text, Before, 1) :
                LET digits == SubSeq(text, n, Len(text)) IN
                /\ AllDigits(digits) /\ Number(digits) \in 1 .. LongSize - 1
                /\ strtoul(text).value \in {Number(digits), LongSize - Number(digits)}
            BY <2>1, <3>1, ReadIsSpelled DEF Acceptable
        <3> QED BY <3>1, <3>2 DEF ParentIsSpelled, Before
    <2> QED BY <2>2, <2>3
<1> QED BY <1>1, <1>2, ParentInvariance, PTL DEF ParentIsDenoted
=============================================================================
