---------------------------- MODULE LifetimeProofs ----------------------------
(***************************************************************************)
(* No handler outlives what it uses, and none leaves a reference behind,   *)
(* for every set of transactions and every order of their callbacks.       *)
(*                                                                         *)
(* The stack todo interleaves the calls of several transactions only when  *)
(* cancel_all made it.  The proof follows each transaction on its own: it  *)
(* is at a step of the callback that is running, the calls of the stack    *)
(* take every transaction through the rest of its steps, and the step says *)
(* what the transaction looks like and who holds its references.           *)
(***************************************************************************)
EXTENDS Lifetime, FiniteSetTheorems, TLAPS

(* The callbacks: a signal of the session or its deadline, handle_start,     *)
(* cancel_all, a Close, and on_authenticate.                                 *)
Contexts == {"session", "start", "cancel", "close", "choose"}

(* The steps a callback takes a transaction through.  Those from 2 to 12 are *)
(* webauth_transaction_finish, with the calls its calls make: the session's  *)
(* reference goes at 5, the bus's at 7, the list's at 10, its own at 11, and *)
(* with the last one the transaction's reference to its Request, at 12 or,   *)
(* when the caller had the last one, at 14.                                  *)
End == 17
Steps == 0 .. End

Names ==
    {"open", "acquire", "finish", "ref", "clear_sources", "teardown", "unexport", "reply",
     "forget", "unref", "ref_request", "unref_request"}
Call == Names \X Transactions

Makes(c, n, call) ==
    \/ n = 0 /\ c = "start" /\ call = "open"
    \/ n = 0 /\ c = "cancel" /\ call = "ref"
    \/ n = 0 /\ c = "choose" /\ call = "acquire"
    \/ n = 1 /\ call = "finish"
    \/ n = 2 /\ call = "ref"
    \/ n = 3 /\ call = "clear_sources"
    \/ n = 4 /\ call = "teardown"
    \/ n = 5 /\ call = "unref"
    \/ n = 6 /\ call = "unexport"
    \/ n = 7 /\ call = "unref_request"
    \/ n = 8 /\ call = "reply"
    \/ n = 9 /\ call = "forget"
    \/ n = 10 /\ call = "unref"
    \/ n = 11 /\ call = "unref"
    \/ n = 12 /\ c # "start" /\ c # "cancel" /\ call = "unref_request"
    \/ n = 13 /\ c \in {"start", "cancel"} /\ call = "unref"
    \/ n = 13 /\ c = "close" /\ call = "ref_request"
    \/ n = 14 /\ c \in {"start", "cancel"} /\ call = "unref_request"
    \/ n = 14 /\ c = "close" /\ call = "unexport"
    \/ n = 15 /\ c \in {"start", "close"} /\ call = "unref_request"
    \/ n = 16 /\ c = "close" /\ call = "unref_request"

(* Where the handler goes on when finish has returned to it.                 *)
Rest(c) == IF c \in {"start", "cancel", "close"} THEN 13 ELSE End

(* The step after the call of a step has returned, when it made no others.   *)
After(c, n) ==
    CASE n = 0 -> (IF c = "start" THEN 13 ELSE IF c = "cancel" THEN 1 ELSE End)
      [] n \in {1, 11, 12} -> Rest(c)
      [] n \in {4, 6, 9} -> n + 2
      [] n \in {2, 3, 5, 7, 8, 10} -> n + 1
      [] n = 13 -> (IF c = "start" THEN 15 ELSE IF c = "close" THEN 14 ELSE End)
      [] n = 14 -> (IF c \in {"start", "close"} THEN 15 ELSE End)
      [] n = 15 -> (IF c = "close" THEN 16 ELSE End)
      [] OTHER -> End

(* A call takes its transaction from a step to the one after it.             *)
Takes(call, ctx, from, to) ==
    \E t \in Transactions :
        /\ call[2] = t
        /\ Makes(ctx[t], from[t], call[1])
        /\ to = [from EXCEPT ![t] = After(ctx[t], @)]

(* The calls of the stack, made one after the other, take each transaction   *)
(* from its step to the end of its callback.                                 *)
Follows(stack, ctx, conf) ==
    /\ conf \in [1 .. Len(stack) + 1 -> [Transactions -> Steps]]
    /\ conf[Len(stack) + 1] = [t \in Transactions |-> End]
    /\ \A i \in 1 .. Len(stack) : Takes(stack[i], ctx, conf[i], conf[i + 1])

Unfolds(stack, ctx, step) == \E conf : Follows(stack, ctx, conf) /\ conf[1] = step

-----------------------------------------------------------------------------
(* What a transaction looks like at each step.                               *)
Fresh(t) ==
    /\ done[t] = FALSE /\ t \notin listed /\ exported[t] = FALSE
    /\ answers[t] = 0 /\ session[t] = "none" /\ sources[t] = {}

Pending(t) ==
    /\ done[t] = FALSE /\ t \in listed /\ exported[t] = TRUE
    /\ answers[t] = 0 /\ "close" \in sources[t]

Opening(t) == Pending(t) /\ session[t] = "none"
Running(t) == Pending(t) /\ session[t] = "alive"

(* Inside finish: what has been cleared so far.                              *)
Ending(t, c, n) ==
    /\ done[t] = TRUE
    /\ n >= 4 => sources[t] = {}
    /\ session[t] = IF c = "start" THEN "none" ELSE IF n <= 4 THEN "alive" ELSE "freed"
    /\ exported[t] = TRUE <=> n <= 6
    /\ answers[t] = IF n <= 8 THEN 0 ELSE 1
    /\ t \in listed <=> n <= 9

Over(t) ==
    /\ done[t] = TRUE /\ t \notin listed /\ exported[t] = FALSE
    /\ answers[t] = 1 /\ session[t] # "alive" /\ sources[t] = {}

Stands(t, c, n) ==
    /\ n \in {0, 1} => IF c = "start" THEN Opening(t) ELSE Running(t)
    /\ n \in 2 .. 11 => Ending(t, c, n)
    /\ n \in {12, 14, 16} => Over(t)
    /\ n \in {13, 15} => Over(t) \/ (c # "close" /\ Running(t))
    /\ n = End => Fresh(t) \/ Running(t) \/ Over(t)

(* Who holds its references: the list, its session, and the handlers that    *)
(* have still to drop theirs.                                                *)
HeldRefs(c, n) ==
    One(n \in 3 .. 11) + One(n = 5) + One(n = 10)
      + One(c = "start" /\ n <= 13) + One(c = "cancel" /\ n \in 1 .. 13)

HeldRequests(c, n) ==
    One(n = 7) + One(n = 12) + One(c # "close" /\ n = 14)
      + One(c = "start" /\ n <= 15)
      + One(c = "close" /\ n <= 16) + One(c = "close" /\ n \in {14, 15})

Books(t, c, n) ==
    /\ refs[t] = One(t \in listed) + One(session[t] = "alive") + HeldRefs(c, n)
    /\ reqRefs[t] = One(refs[t] > 0) + One(exported[t] = TRUE) + HeldRequests(c, n)

At(t, c, n) == Stands(t, c, n) /\ Books(t, c, n)

Types ==
    /\ refs \in [Transactions -> Int] /\ reqRefs \in [Transactions -> Int]
    /\ listed \subseteq Transactions /\ IsFiniteSet(listed)
    /\ session \in [Transactions -> {"none", "alive", "freed"}]
    /\ exported \in [Transactions -> BOOLEAN] /\ done \in [Transactions -> BOOLEAN]
    /\ sources \in [Transactions -> SUBSET {"deadline", "close"}]
    /\ answers \in [Transactions -> Int]
    /\ fault \in BOOLEAN

(* The inductive invariant.                                                  *)
Placed ==
    \E ctx \in [Transactions -> Contexts], step \in [Transactions -> Steps] :
        /\ Unfolds(todo, ctx, step)
        /\ \A t \in Transactions : At(t, ctx[t], step[t])

LifetimeInv == todo \in Seq(Call) /\ Types /\ ~fault /\ Placed

-----------------------------------------------------------------------------
(* The stack.                                                                *)
AtEnd == [t \in Transactions |-> End]

(* With nothing left to call, every transaction is at the end of its         *)
(* callback.                                                                 *)
LEMMA NothingLeft ==
    ASSUME NEW ctx, NEW step
    PROVE  Unfolds(<< >>, ctx, step) <=> step = AtEnd
<1>1. ASSUME Unfolds(<< >>, ctx, step) PROVE step = AtEnd
    BY <1>1 DEF Unfolds, Follows, AtEnd
<1>2. ASSUME step = AtEnd PROVE Unfolds(<< >>, ctx, step)
  <2> DEFINE conf == [i \in 1 .. 1 |-> AtEnd]
  <2>1. Follows(<< >>, ctx, conf)
      BY DEF Follows, AtEnd, Steps, End
  <2> HIDE DEF conf
  <2>2. conf[1] = step
      BY <1>2 DEF conf
  <2> QED BY <2>1, <2>2 DEF Unfolds
<1> QED BY <1>1, <1>2

(* The step after a step is one.                                             *)
LEMMA AfterSteps == \A c, n : n \in Steps => After(c, n) \in Steps
BY DEF After, Steps, Rest, End

(* The call due is that of its transaction's step; once it is off the stack, *)
(* the transaction is a step further.                                        *)
LEMMA Pop ==
    ASSUME NEW stack \in Seq(Call), stack # << >>, NEW ctx, NEW step,
           Unfolds(stack, ctx, step),
           NEW t \in Transactions, NEW call, Head(stack) = <<call, t>>
    PROVE  /\ Makes(ctx[t], step[t], call)
           /\ Unfolds(Tail(stack), ctx, [step EXCEPT ![t] = After(ctx[t], @)])
<1>1. PICK conf : Follows(stack, ctx, conf) /\ conf[1] = step
    BY DEF Unfolds
<1>2. /\ Len(stack) \in Nat \ {0} /\ stack[1] = <<call, t>>
      /\ Tail(stack) \in Seq(Call) /\ Len(Tail(stack)) = Len(stack) - 1
      /\ \A i \in 1 .. Len(stack) - 1 : Tail(stack)[i] = stack[i + 1]
    BY DEF Call
<1>3. /\ Makes(ctx[t], step[t], call)
      /\ conf[2] = [step EXCEPT ![t] = After(ctx[t], @)]
  <2>1. Takes(<<call, t>>, ctx, step, conf[2])
    <3>1. 1 \in 1 .. Len(stack)
        BY <1>2
    <3>2. Takes(stack[1], ctx, conf[1], conf[1 + 1])
        BY <1>1, <3>1 DEF Follows
    <3> QED BY <1>1, <1>2, <3>2
  <2> QED BY <2>1 DEF Takes
<1> DEFINE later == [i \in 1 .. Len(stack) |-> conf[i + 1]]
<1>4. Follows(Tail(stack), ctx, later)
  <2>1. later \in [1 .. Len(Tail(stack)) + 1 -> [Transactions -> Steps]]
      BY <1>1, <1>2 DEF Follows
  <2>2. later[Len(Tail(stack)) + 1] = [u \in Transactions |-> End]
      BY <1>1, <1>2 DEF Follows
  <2>3. ASSUME NEW i \in 1 .. Len(Tail(stack))
        PROVE  Takes(Tail(stack)[i], ctx, later[i], later[i + 1])
    <3>1. /\ i + 1 \in 1 .. Len(stack) /\ Tail(stack)[i] = stack[i + 1]
          /\ later[i] = conf[i + 1] /\ later[i + 1] = conf[(i + 1) + 1]
        BY <1>2
    <3> HIDE DEF later
    <3> QED BY <1>1, <3>1 DEF Follows
  <2> QED BY <2>1, <2>2, <2>3 DEF Follows
<1>5. later[1] = conf[2]
    BY <1>2
<1> QED BY <1>3, <1>4, <1>5 DEF Unfolds

(* Calls pushed for one transaction, along a path of steps that leads to     *)
(* where it is, put it at the first of them.                                 *)
LEMMA Push ==
    ASSUME NEW rest \in Seq(Call), NEW ctx, NEW step \in [Transactions -> Steps],
           Unfolds(rest, ctx, step),
           NEW t \in Transactions, NEW names \in Seq(Names),
           NEW path \in [1 .. Len(names) + 1 -> Steps], path[Len(names) + 1] = step[t],
           \A i \in 1 .. Len(names) : /\ Makes(ctx[t], path[i], names[i])
                                      /\ path[i + 1] = After(ctx[t], path[i])
    PROVE  /\ Calls(names, t) \o rest \in Seq(Call)
           /\ Unfolds(Calls(names, t) \o rest, ctx, [step EXCEPT ![t] = path[1]])
<1> DEFINE k == Len(names)
           stack == Calls(names, t) \o rest
<1>1. PICK conf : Follows(rest, ctx, conf) /\ conf[1] = step
    BY DEF Unfolds
<1>2. k \in Nat /\ Len(rest) \in Nat
    OBVIOUS
<1>3. /\ stack \in Seq(Call) /\ Len(stack) = k + Len(rest)
      /\ \A i \in 1 .. k : stack[i] = <<names[i], t>>
      /\ \A i \in 1 .. Len(rest) : stack[k + i] = rest[i]
  <2>1. Calls(names, t) \in Seq(Call) /\ Len(Calls(names, t)) = k
      BY DEF Calls, Call
  <2>2. \A i \in 1 .. k : Calls(names, t)[i] = <<names[i], t>>
      BY DEF Calls
  <2> HIDE DEF k
  <2> QED BY <1>2, <2>1, <2>2
<1> DEFINE at(i) == [step EXCEPT ![t] = path[i]]
           before == [i \in 1 .. Len(stack) + 1 |-> IF i <= k THEN at(i) ELSE conf[i - k]]
<1>4. at(k + 1) = step
    OBVIOUS
<1>5. \A i \in 1 .. k + 1 : at(i) \in [Transactions -> Steps]
    OBVIOUS
<1>6. \A i \in 1 .. k : Takes(<<names[i], t>>, ctx, at(i), at(i + 1))
  <2>1. TAKE i \in 1 .. k
  <2>2. Makes(ctx[t], path[i], names[i]) /\ path[i + 1] = After(ctx[t], path[i])
      OBVIOUS
  <2>3. at(i)[t] = path[i] /\ at(i + 1) = [at(i) EXCEPT ![t] = path[i + 1]]
      OBVIOUS
  <2> QED BY <2>2, <2>3 DEF Takes
<1> HIDE DEF at, k, stack
<1>7. \A i \in 1 .. k + 1 : before[i] = at(i)
    BY <1>1, <1>2, <1>3, <1>4
<1>8. \A i \in 1 .. Len(rest) + 1 : before[k + i] = conf[i]
  <2>1. TAKE i \in 1 .. Len(rest) + 1
  <2>2. k + i \in 1 .. Len(stack) + 1 /\ ~(k + i <= k) /\ (k + i) - k = i
      BY <1>2, <1>3
  <2> QED BY <2>2
<1> HIDE DEF before
<1>9. Follows(stack, ctx, before)
  <2>1. before \in [1 .. Len(stack) + 1 -> [Transactions -> Steps]]
    <3>1. ASSUME NEW i \in 1 .. Len(stack) + 1 PROVE before[i] \in [Transactions -> Steps]
      <4>1. CASE i <= k
          BY <1>2, <1>5, <1>7, <4>1
      <4>2. CASE i > k
        <5>1. PICK j \in 1 .. Len(rest) + 1 : i = k + j
          <6>1. i - k \in 1 .. Len(rest) + 1 /\ i = k + (i - k)
              BY <1>2, <1>3, <4>2
          <6> QED BY <6>1
        <5> QED BY <1>1, <1>8, <5>1 DEF Follows
      <4> QED BY <1>2, <4>1, <4>2
    <3> QED BY <3>1 DEF before
  <2>2. before[Len(stack) + 1] = [u \in Transactions |-> End]
    <3>1. Len(stack) + 1 = k + (Len(rest) + 1) /\ Len(rest) + 1 \in 1 .. Len(rest) + 1
        BY <1>2, <1>3
    <3> QED BY <1>1, <1>8, <3>1 DEF Follows
  <2>3. ASSUME NEW i \in 1 .. Len(stack)
        PROVE  Takes(stack[i], ctx, before[i], before[i + 1])
    <3>1. CASE i <= k
      <4>1. i \in 1 .. k /\ i \in 1 .. k + 1 /\ i + 1 \in 1 .. k + 1
          BY <1>2, <3>1
      <4> QED BY <1>3, <1>6, <1>7, <4>1
    <3>2. CASE i > k
      <4>1. PICK j \in 1 .. Len(rest) : i = k + j /\ i + 1 = k + (j + 1)
                                      /\ j \in 1 .. Len(rest) + 1 /\ j + 1 \in 1 .. Len(rest) + 1
        <5>1. /\ i - k \in 1 .. Len(rest) /\ i = k + (i - k) /\ i + 1 = k + ((i - k) + 1)
              /\ i - k \in 1 .. Len(rest) + 1 /\ (i - k) + 1 \in 1 .. Len(rest) + 1
            BY <1>2, <1>3, <3>2
        <5> QED BY <5>1
      <4>2. Takes(rest[j], ctx, conf[j], conf[j + 1])
          BY <1>1 DEF Follows
      <4>3. stack[i] = rest[j] /\ before[i] = conf[j] /\ before[i + 1] = conf[j + 1]
          BY <1>3, <1>8, <4>1
      <4> QED BY <4>2, <4>3
    <3> QED BY <1>2, <3>1, <3>2
  <2> QED BY <2>1, <2>2, <2>3 DEF Follows
<1>10. before[1] = [step EXCEPT ![t] = path[1]]
  <2>1. before[1] = at(1)
      BY <1>2, <1>7
  <2> QED BY <2>1 DEF at
<1>11. Unfolds(stack, ctx, [step EXCEPT ![t] = path[1]])
    BY <1>9, <1>10 DEF Unfolds
<1> QED BY <1>3, <1>11 DEF stack

-----------------------------------------------------------------------------
(* One step of the stack.                                                    *)
Same(t) ==
    /\ refs'[t] = refs[t] /\ reqRefs'[t] = reqRefs[t]
    /\ t \in listed' <=> t \in listed
    /\ session'[t] = session[t] /\ exported'[t] = exported[t]
    /\ done'[t] = done[t] /\ sources'[t] = sources[t] /\ answers'[t] = answers[t]

(* A transaction no step touches stays where it is.                          *)
LEMMA SameStays == \A t, c, n : At(t, c, n) /\ Same(t) => At(t, c, n)'
BY DEF At, Stands, Books, Same, Ending, Over, Opening, Running, Pending, Fresh

(* At the end of a callback it is the same which one it was.                 *)
LEMMA EndIsEnd == \A t, c, d : At(t, c, End) => At(t, d, End)
BY DEF At, Stands, Books, HeldRefs, HeldRequests, End, One

(* The transactions have their places when one of them moves.                *)
LEMMA Moves ==
    ASSUME Types', ~fault', todo' \in Seq(Call),
           NEW ctx \in [Transactions -> Contexts], NEW step \in [Transactions -> Steps],
           NEW t \in Transactions, NEW n \in Steps,
           \A u \in Transactions \ {t} : At(u, ctx[u], step[u]) /\ Same(u),
           At(t, ctx[t], n)',
           Unfolds(todo', ctx, [step EXCEPT ![t] = n])
    PROVE  LifetimeInv'
<1> DEFINE next == [step EXCEPT ![t] = n]
<1>1. next \in [Transactions -> Steps]
    OBVIOUS
<1>2. ASSUME NEW u \in Transactions PROVE At(u, ctx[u], next[u])'
  <2>1. CASE u = t
      BY <2>1
  <2>2. CASE u # t
    <3>1. At(u, ctx[u], step[u])'
        BY <2>2, SameStays
    <3>2. next[u] = step[u]
        BY <2>2
    <3> QED BY <3>1, <3>2
  <2> QED BY <2>1, <2>2
<1>3. Unfolds(todo', ctx, next)
    OBVIOUS
<1> HIDE DEF next
<1>4. Placed'
    BY <1>1, <1>2, <1>3 DEF Placed
<1> QED BY <1>4 DEF LifetimeInv

(* The call due belongs to the step its transaction is at, and the rest of   *)
(* the stack to the step after.                                              *)
LEMMA DueIsPlaced ==
    ASSUME LifetimeInv, NEW t \in Transactions, NEW call, Due(call, t)
    PROVE  \E ctx \in [Transactions -> Contexts], step \in [Transactions -> Steps] :
             /\ \A u \in Transactions : At(u, ctx[u], step[u])
             /\ Makes(ctx[t], step[t], call)
             /\ Tail(todo) \in Seq(Call)
             /\ Unfolds(Tail(todo), ctx, [step EXCEPT ![t] = After(ctx[t], step[t])])
<1>1. PICK ctx \in [Transactions -> Contexts], step \in [Transactions -> Steps] :
        /\ Unfolds(todo, ctx, step)
        /\ \A u \in Transactions : At(u, ctx[u], step[u])
    BY DEF LifetimeInv, Placed
<1>2. todo \in Seq(Call) /\ todo # << >> /\ Head(todo) = <<call, t>>
    BY DEF LifetimeInv, Due
<1>3. /\ Makes(ctx[t], step[t], call)
      /\ Unfolds(Tail(todo), ctx, [step EXCEPT ![t] = After(ctx[t], step[t])])
    BY <1>1, <1>2, Pop
<1>4. Tail(todo) \in Seq(Call)
    BY <1>2
<1> QED BY <1>1, <1>3, <1>4

(* A call returns without making others.                                     *)
LEMMA Returns ==
    ASSUME LifetimeInv, Types', NEW t \in Transactions, NEW call, Due(call, t), Return,
           \A u \in Transactions \ {t} : Same(u),
           \A c \in Contexts, n \in Steps :
             Makes(c, n, call) /\ At(t, c, n) => ~fault' /\ At(t, c, After(c, n))'
    PROVE  LifetimeInv'
<1>1. PICK ctx \in [Transactions -> Contexts], step \in [Transactions -> Steps] :
        /\ \A u \in Transactions : At(u, ctx[u], step[u])
        /\ Makes(ctx[t], step[t], call)
        /\ Tail(todo) \in Seq(Call)
        /\ Unfolds(Tail(todo), ctx, [step EXCEPT ![t] = After(ctx[t], step[t])])
    BY DueIsPlaced
<1>2. ctx[t] \in Contexts /\ step[t] \in Steps
    OBVIOUS
<1> DEFINE n == After(ctx[t], step[t])
<1>3. n \in Steps
    BY <1>2, AfterSteps
<1>4. ~fault' /\ At(t, ctx[t], n)'
    BY <1>1, <1>2
<1>5. todo' \in Seq(Call) /\ Unfolds(todo', ctx, [step EXCEPT ![t] = n])
    BY <1>1 DEF Return
<1> HIDE DEF n
<1> QED BY <1>1, <1>3, <1>4, <1>5, Moves

(* A callback makes these calls along a path of steps.                       *)
Leads(names, c, path, from, to) ==
    /\ path \in [1 .. Len(names) + 1 -> Steps]
    /\ path[1] = from /\ path[Len(names) + 1] = to
    /\ \A i \in 1 .. Len(names) : Makes(c, path[i], names[i]) /\ path[i + 1] = After(c, path[i])

(* A call is replaced by those it makes.                                     *)
LEMMA MakesOthers ==
    ASSUME LifetimeInv, Types', NEW t \in Transactions, NEW call, Due(call, t),
           NEW names \in Seq(Names), Becomes(names, t),
           \A u \in Transactions \ {t} : Same(u),
           \A c \in Contexts, n \in Steps :
             Makes(c, n, call) /\ At(t, c, n) =>
               /\ ~fault'
               /\ \E m \in Steps : /\ At(t, c, m)'
                                  /\ \E path : Leads(names, c, path, m, After(c, n))
    PROVE  LifetimeInv'
<1>1. PICK ctx \in [Transactions -> Contexts], step \in [Transactions -> Steps] :
        /\ \A u \in Transactions : At(u, ctx[u], step[u])
        /\ Makes(ctx[t], step[t], call)
        /\ Tail(todo) \in Seq(Call)
        /\ Unfolds(Tail(todo), ctx, [step EXCEPT ![t] = After(ctx[t], step[t])])
    BY DueIsPlaced
<1>2. ctx[t] \in Contexts /\ step[t] \in Steps
    OBVIOUS
<1>3. ~fault' /\ \E m \in Steps :
        At(t, ctx[t], m)' /\ \E path : Leads(names, ctx[t], path, m, After(ctx[t], step[t]))
    BY <1>1, <1>2
<1>4. PICK m \in Steps :
        At(t, ctx[t], m)' /\ \E path : Leads(names, ctx[t], path, m, After(ctx[t], step[t]))
    BY <1>3
<1>5. PICK path : Leads(names, ctx[t], path, m, After(ctx[t], step[t]))
    BY <1>4
<1> DEFINE returned == [step EXCEPT ![t] = After(ctx[t], step[t])]
<1>6. returned \in [Transactions -> Steps] /\ returned[t] = After(ctx[t], step[t])
    BY <1>2, AfterSteps
<1>7. Unfolds(Tail(todo), ctx, returned)
    BY <1>1
<1>8. [returned EXCEPT ![t] = m] = [step EXCEPT ![t] = m]
    OBVIOUS
<1> HIDE DEF returned
<1>9. /\ Calls(names, t) \o Tail(todo) \in Seq(Call)
      /\ Unfolds(Calls(names, t) \o Tail(todo), ctx, [returned EXCEPT ![t] = path[1]])
    BY <1>1, <1>5, <1>6, <1>7, Push DEF Leads
<1>10. path[1] = m
    BY <1>5 DEF Leads
<1>11. todo' \in Seq(Call) /\ Unfolds(todo', ctx, [step EXCEPT ![t] = m])
    BY <1>8, <1>9, <1>10 DEF Becomes
<1> QED BY <1>1, <1>3, <1>4, <1>11, Moves

(* While the loop is idle, every transaction is at the end of its callback.  *)
LEMMA IdleIsEnd ==
    ASSUME LifetimeInv, Idle
    PROVE  \A t \in Transactions, c \in Contexts : At(t, c, End)
<1>1. PICK ctx \in [Transactions -> Contexts], step \in [Transactions -> Steps] :
        /\ Unfolds(todo, ctx, step)
        /\ \A u \in Transactions : At(u, ctx[u], step[u])
    BY DEF LifetimeInv, Placed
<1>2. step = AtEnd
    BY <1>1, NothingLeft DEF Idle
<1>3. \A t \in Transactions : At(t, ctx[t], End)
    BY <1>1, <1>2 DEF AtEnd
<1> QED BY <1>3, EndIsEnd

(* The loop calls one transaction's handler.                                 *)
LEMMA Begins ==
    ASSUME LifetimeInv, Idle, Types', ~fault', NEW t \in Transactions,
           NEW names \in Seq(Names), Runs(Calls(names, t)),
           \A u \in Transactions \ {t} : Same(u),
           NEW c \in Contexts, NEW n \in Steps, At(t, c, n)',
           \E path : Leads(names, c, path, n, End)
    PROVE  LifetimeInv'
<1>1. PICK ctx \in [Transactions -> Contexts] : ctx[t] = c
  <2>1. [u \in Transactions |-> c] \in [Transactions -> Contexts]
      OBVIOUS
  <2> QED BY <2>1
<1>2. \A u \in Transactions : At(u, ctx[u], AtEnd[u])
    BY IdleIsEnd DEF AtEnd
<1>3. AtEnd \in [Transactions -> Steps] /\ AtEnd[t] = End
    BY DEF AtEnd, Steps, End
<1>4. todo = << >> /\ todo \in Seq(Call)
    BY DEF Idle, LifetimeInv
<1>5. Unfolds(todo, ctx, AtEnd)
    BY <1>4, NothingLeft
<1>6. PICK path : Leads(names, ctx[t], path, n, AtEnd[t])
    BY <1>1, <1>3
<1>7. /\ Calls(names, t) \o todo \in Seq(Call)
      /\ Unfolds(Calls(names, t) \o todo, ctx, [AtEnd EXCEPT ![t] = path[1]])
  <2>1. todo \in Seq(Call)
      BY <1>4
  <2>2. /\ path \in [1 .. Len(names) + 1 -> Steps] /\ path[Len(names) + 1] = AtEnd[t]
        /\ \A i \in 1 .. Len(names) : /\ Makes(ctx[t], path[i], names[i])
                                      /\ path[i + 1] = After(ctx[t], path[i])
      BY <1>6 DEF Leads
  <2> QED BY <1>3, <1>5, <2>1, <2>2, Push
<1>8. todo' \in Seq(Call) /\ Unfolds(todo', ctx, [AtEnd EXCEPT ![t] = n])
    BY <1>6, <1>7 DEF Runs, Leads
<1>9. At(t, ctx[t], n)'
    BY <1>1 DEF At, Stands, Books
<1> QED BY <1>1, <1>2, <1>3, <1>8, <1>9, Moves

-----------------------------------------------------------------------------
(* The calls, one by one: what a call does to its transaction takes it from  *)
(* what one step says of it to what the next says, and finds alive what it   *)
(* works on.                                                                 *)
LEMMA RefStep ==
    ASSUME LifetimeInv, NEW t \in Transactions, Ref(t)
    PROVE  LifetimeInv'
<1>1. Types /\ ~fault
    BY DEF LifetimeInv
<1>2. Types' /\ \A u \in Transactions \ {t} : Same(u)
    BY <1>1 DEF Types, Same, Ref, Touch, objects
<1>3. /\ fault' = (refs[t] = 0) /\ refs'[t] = refs[t] + 1 /\ reqRefs'[t] = reqRefs[t]
      /\ session'[t] = session[t] /\ exported'[t] = exported[t] /\ done'[t] = done[t]
      /\ sources'[t] = sources[t] /\ answers'[t] = answers[t]
      /\ (t \in listed' <=> t \in listed)
    BY <1>1 DEF Types, Ref, Touch, objects
<1>4. ASSUME NEW c \in Contexts, NEW n \in Steps, Makes(c, n, "ref"), At(t, c, n)
      PROVE  ~fault' /\ At(t, c, After(c, n))'
  <2>1. n = 2 \/ (n = 0 /\ c = "cancel")
      BY <1>4 DEF Makes
  <2>2. CASE n = 2
      BY <1>1, <1>3, <1>4, <2>2 DEF Types, Contexts, At, Stands, Books, Fresh, Pending,
              Opening, Running, Ending, Over, HeldRefs, HeldRequests, One, Rest, After,
              Steps, End
  <2>3. CASE n = 0 /\ c = "cancel"
      BY <1>1, <1>3, <1>4, <2>3 DEF Types, Contexts, At, Stands, Books, Fresh, Pending,
              Opening, Running, Ending, Over, HeldRefs, HeldRequests, One, Rest, After,
              Steps, End
  <2> QED BY <2>1, <2>2, <2>3
<1> QED BY <1>2, <1>4, Returns DEF Ref

(* webauth_impl_request_handle_close keeps the Request.                      *)
LEMMA RefRequestStep ==
    ASSUME LifetimeInv, NEW t \in Transactions, RefRequest(t)
    PROVE  LifetimeInv'
<1>1. Types /\ ~fault
    BY DEF LifetimeInv
<1>2. Types' /\ \A u \in Transactions \ {t} : Same(u)
    BY <1>1 DEF Types, Same, RefRequest, TouchRequest, objects
<1>3. /\ fault' = (reqRefs[t] = 0) /\ reqRefs'[t] = reqRefs[t] + 1 /\ refs'[t] = refs[t]
      /\ session'[t] = session[t] /\ exported'[t] = exported[t] /\ done'[t] = done[t]
      /\ sources'[t] = sources[t] /\ answers'[t] = answers[t]
      /\ (t \in listed' <=> t \in listed)
    BY <1>1 DEF Types, RefRequest, TouchRequest, objects
<1>4. ASSUME NEW c \in Contexts, NEW n \in Steps, Makes(c, n, "ref_request"), At(t, c, n)
      PROVE  ~fault' /\ At(t, c, After(c, n))'
  <2>1. (n = 13 /\ c = "close")
      BY <1>4 DEF Makes
  <2> QED BY <1>1, <1>3, <1>4, <2>1 DEF Types, Contexts, At, Stands, Books, Fresh, Pending,
          Opening, Running, Ending, Over, HeldRefs, HeldRequests, One, Rest, After, Steps,
          End
<1> QED BY <1>2, <1>4, Returns DEF RefRequest

(* A reference to the Request dropped: finish's, a handler's or an emission's. *)
LEMMA UnrefRequestStep ==
    ASSUME LifetimeInv, NEW t \in Transactions, UnrefRequest(t)
    PROVE  LifetimeInv'
<1>1. Types /\ ~fault
    BY DEF LifetimeInv
<1>2. Types' /\ \A u \in Transactions \ {t} : Same(u)
    BY <1>1 DEF Types, Same, UnrefRequest, TouchRequest, objects
<1>3. /\ fault' = (reqRefs[t] = 0) /\ reqRefs'[t] = reqRefs[t] - 1 /\ refs'[t] = refs[t]
      /\ session'[t] = session[t] /\ exported'[t] = exported[t] /\ done'[t] = done[t]
      /\ sources'[t] = sources[t] /\ answers'[t] = answers[t]
      /\ (t \in listed' <=> t \in listed)
    BY <1>1 DEF Types, UnrefRequest, TouchRequest, objects
<1>4. ASSUME NEW c \in Contexts, NEW n \in Steps, Makes(c, n, "unref_request"), At(t, c, n)
      PROVE  ~fault' /\ At(t, c, After(c, n))'
  <2>1. n \in {7, 12} \/ (n = 14 /\ c \in {"start", "cancel"}) \/ (n = 15 /\ c \in {"start", "close"}) \/ (n = 16 /\ c = "close")
      BY <1>4 DEF Makes
  <2>2. CASE n \in {7, 12}
      BY <1>1, <1>3, <1>4, <2>2 DEF Types, Contexts, At, Stands, Books, Fresh, Pending,
              Opening, Running, Ending, Over, HeldRefs, HeldRequests, One, Rest, After,
              Steps, End
  <2>3. CASE n = 14 /\ c \in {"start", "cancel"}
      BY <1>1, <1>3, <1>4, <2>3 DEF Types, Contexts, At, Stands, Books, Fresh, Pending,
              Opening, Running, Ending, Over, HeldRefs, HeldRequests, One, Rest, After,
              Steps, End
  <2>4. CASE n = 15 /\ c \in {"start", "close"}
      BY <1>1, <1>3, <1>4, <2>4 DEF Types, Contexts, At, Stands, Books, Fresh, Pending,
              Opening, Running, Ending, Over, HeldRefs, HeldRequests, One, Rest, After,
              Steps, End
  <2>5. CASE n = 16 /\ c = "close"
      BY <1>1, <1>3, <1>4, <2>5 DEF Types, Contexts, At, Stands, Books, Fresh, Pending,
              Opening, Running, Ending, Over, HeldRefs, HeldRequests, One, Rest, After,
              Steps, End
  <2> QED BY <2>1, <2>2, <2>3, <2>4, <2>5
<1> QED BY <1>2, <1>4, Returns DEF UnrefRequest

(* finish disarms the callbacks.                                             *)
LEMMA ClearSourcesStep ==
    ASSUME LifetimeInv, NEW t \in Transactions, ClearSources(t)
    PROVE  LifetimeInv'
<1>1. Types /\ ~fault
    BY DEF LifetimeInv
<1>2. Types' /\ \A u \in Transactions \ {t} : Same(u)
    BY <1>1 DEF Types, Same, ClearSources, Touch, counts
<1>3. /\ fault' = (refs[t] = 0) /\ sources'[t] = {} /\ refs'[t] = refs[t]
      /\ reqRefs'[t] = reqRefs[t] /\ session'[t] = session[t]
      /\ exported'[t] = exported[t] /\ done'[t] = done[t] /\ answers'[t] = answers[t]
      /\ (t \in listed' <=> t \in listed)
    BY <1>1 DEF Types, ClearSources, Touch, counts
<1>4. ASSUME NEW c \in Contexts, NEW n \in Steps, Makes(c, n, "clear_sources"), At(t, c, n)
      PROVE  ~fault' /\ At(t, c, After(c, n))'
  <2>1. n = 3
      BY <1>4 DEF Makes
  <2> QED BY <1>1, <1>3, <1>4, <2>1 DEF Types, Contexts, At, Stands, Books, Fresh, Pending,
          Opening, Running, Ending, Over, HeldRefs, HeldRequests, One, Rest, After, Steps,
          End
<1> QED BY <1>2, <1>4, Returns DEF ClearSources

(* finish answers the invocation.                                            *)
LEMMA ReplyStep ==
    ASSUME LifetimeInv, NEW t \in Transactions, Reply(t)
    PROVE  LifetimeInv'
<1>1. Types /\ ~fault
    BY DEF LifetimeInv
<1>2. Types' /\ \A u \in Transactions \ {t} : Same(u)
    BY <1>1 DEF Types, Same, Reply, Touch, counts
<1>3. /\ fault' = (refs[t] = 0) /\ answers'[t] = answers[t] + 1 /\ refs'[t] = refs[t]
      /\ reqRefs'[t] = reqRefs[t] /\ session'[t] = session[t]
      /\ exported'[t] = exported[t] /\ done'[t] = done[t] /\ sources'[t] = sources[t]
      /\ (t \in listed' <=> t \in listed)
    BY <1>1 DEF Types, Reply, Touch, counts
<1>4. ASSUME NEW c \in Contexts, NEW n \in Steps, Makes(c, n, "reply"), At(t, c, n)
      PROVE  ~fault' /\ At(t, c, After(c, n))'
  <2>1. n = 8
      BY <1>4 DEF Makes
  <2> QED BY <1>1, <1>3, <1>4, <2>1 DEF Types, Contexts, At, Stands, Books, Fresh, Pending,
          Opening, Running, Ending, Over, HeldRefs, HeldRequests, One, Rest, After, Steps,
          End
<1> QED BY <1>2, <1>4, Returns DEF Reply

(* The handler that waited for the chooser finds its session.                *)
LEMMA AcquiredStep ==
    ASSUME LifetimeInv, NEW t \in Transactions, Acquired(t)
    PROVE  LifetimeInv'
<1>1. Types /\ ~fault
    BY DEF LifetimeInv
<1>2. Types' /\ \A u \in Transactions \ {t} : Same(u)
    BY <1>1 DEF Types, Same, Acquired, counts, objects
<1>3. /\ fault' = (refs[t] = 0 \/ session[t] # "alive") /\ refs'[t] = refs[t]
      /\ reqRefs'[t] = reqRefs[t] /\ session'[t] = session[t]
      /\ exported'[t] = exported[t] /\ done'[t] = done[t] /\ sources'[t] = sources[t]
      /\ answers'[t] = answers[t] /\ (t \in listed' <=> t \in listed)
    BY <1>1 DEF Types, Acquired, counts, objects
<1>4. ASSUME NEW c \in Contexts, NEW n \in Steps, Makes(c, n, "acquire"), At(t, c, n)
      PROVE  ~fault' /\ At(t, c, After(c, n))'
  <2>1. (n = 0 /\ c = "choose")
      BY <1>4 DEF Makes
  <2> QED BY <1>1, <1>3, <1>4, <2>1 DEF Types, Contexts, At, Stands, Books, Fresh, Pending,
          Opening, Running, Ending, Over, HeldRefs, HeldRequests, One, Rest, After, Steps,
          End
<1> QED BY <1>2, <1>4, Returns DEF Acquired

(* The session is opened with a reference of its own, and the deadline armed. *)
LEMMA OpenSessionStep ==
    ASSUME LifetimeInv, NEW t \in Transactions, OpenSession(t)
    PROVE  LifetimeInv'
<1>1. Types /\ ~fault
    BY DEF LifetimeInv
<1>2. Types' /\ \A u \in Transactions \ {t} : Same(u)
    BY <1>1 DEF Types, Same, OpenSession, Touch
<1>3. /\ fault' = (refs[t] = 0) /\ refs'[t] = refs[t] + 1 /\ session'[t] = "alive"
      /\ sources'[t] = sources[t] \cup {"deadline"} /\ reqRefs'[t] = reqRefs[t]
      /\ exported'[t] = exported[t] /\ done'[t] = done[t] /\ answers'[t] = answers[t]
      /\ (t \in listed' <=> t \in listed)
    BY <1>1 DEF Types, OpenSession, Touch
<1>4. ASSUME NEW c \in Contexts, NEW n \in Steps, Makes(c, n, "open"), At(t, c, n)
      PROVE  ~fault' /\ At(t, c, After(c, n))'
  <2>1. (n = 0 /\ c = "start")
      BY <1>4 DEF Makes
  <2> QED BY <1>1, <1>3, <1>4, <2>1 DEF Types, Contexts, At, Stands, Books, Fresh, Pending,
          Opening, Running, Ending, Over, HeldRefs, HeldRequests, One, Rest, After, Steps,
          End
<1> QED BY <1>2, <1>4, Returns DEF OpenSession
(* The last reference takes the transaction's Request along.                 *)
LEMMA UnrefStep ==
    ASSUME LifetimeInv, NEW t \in Transactions, Unref(t)
    PROVE  LifetimeInv'
<1>1. Types /\ ~fault
    BY DEF LifetimeInv
<1>2. Types' /\ \A u \in Transactions \ {t} : Same(u)
    BY <1>1 DEF Types, Same, Unref, Touch
<1>3. /\ fault' = (refs[t] = 0) /\ refs'[t] = refs[t] - 1 /\ reqRefs'[t] = reqRefs[t]
      /\ session'[t] = session[t] /\ exported'[t] = exported[t] /\ done'[t] = done[t]
      /\ sources'[t] = (IF refs[t] = 1 THEN {} ELSE sources[t])
      /\ answers'[t] = answers[t] /\ (t \in listed' <=> t \in listed)
    BY <1>1 DEF Types, Unref, Touch
<1>4. \A c \in Contexts, n \in Steps : Makes(c, n, "unref") =>
        n \in {5, 10, 11} \/ (n = 13 /\ c \in {"start", "cancel"})
    BY DEF Makes
<1>5. CASE refs[t] = 1
  <2>1. ASSUME NEW c \in Contexts, NEW n \in Steps, Makes(c, n, "unref"), At(t, c, n)
        PROVE  /\ ~fault'
               /\ \E m \in Steps : /\ At(t, c, m)'
                                  /\ \E path : Leads(<<"unref_request">>, c, path, m, After(c, n))
    <3>1. CASE n \in {5, 10}
        BY <1>1, <1>5, <2>1, <3>1 DEF Types, Contexts, At, Stands, Books, Fresh, Pending,
                Opening, Running, Ending, Over, HeldRefs, HeldRequests, One, Rest, After,
                Steps, End
    <3>2. CASE n = 11
      <4>1. c \notin {"start", "cancel"}
          BY <1>1, <1>5, <2>1, <3>2 DEF Types, Contexts, At, Stands, Books, Fresh, Pending,
                  Opening, Running, Ending, Over, HeldRefs, HeldRequests, One, Rest, After,
                  Steps, End
      <4>2. ~fault' /\ At(t, c, 12)'
          BY <1>1, <1>3, <1>5, <2>1, <3>2, <4>1 DEF Types, Contexts, At, Stands, Books,
                  Fresh, Pending, Opening, Running, Ending, Over, HeldRefs, HeldRequests,
                  One, Rest, After, Steps, End
      <4>3. Leads(<<"unref_request">>, c, <<12, Rest(c)>>, 12, After(c, n))
          BY <3>2, <4>1 DEF Leads, Makes, After, Rest, Steps, End
      <4> QED BY <4>2, <4>3 DEF Steps, End
    <3>3. CASE n = 13 /\ c \in {"start", "cancel"}
      <4>1. ~fault' /\ At(t, c, 14)'
          BY <1>1, <1>3, <1>5, <2>1, <3>3 DEF Types, Contexts, At, Stands, Books, Fresh,
                  Pending, Opening, Running, Ending, Over, HeldRefs, HeldRequests, One,
                  Rest, After, Steps, End
      <4>2. Leads(<<"unref_request">>, c, <<14, After(c, 14)>>, 14, After(c, n))
          BY <3>3 DEF Leads, Makes, After, Rest, Steps, End
      <4> QED BY <4>1, <4>2 DEF Steps, End
    <3> QED BY <1>4, <2>1, <3>1, <3>2, <3>3
  <2>2. Becomes(<<"unref_request">>, t)
      BY <1>5 DEF Unref
  <2>3. <<"unref_request">> \in Seq(Names)
      BY DEF Names
  <2> QED BY <1>2, <2>1, <2>2, <2>3, MakesOthers DEF Unref
<1>6. CASE refs[t] # 1
  <2>1. ASSUME NEW c \in Contexts, NEW n \in Steps, Makes(c, n, "unref"), At(t, c, n)
        PROVE  ~fault' /\ At(t, c, After(c, n))'
    <3>1. CASE n \in {5, 10}
        BY <1>1, <1>3, <1>6, <2>1, <3>1 DEF Types, Contexts, At, Stands, Books, Fresh,
                Pending, Opening, Running, Ending, Over, HeldRefs, HeldRequests, One, Rest,
                After, Steps, End
    <3>2. CASE n = 11
        BY <1>1, <1>3, <1>6, <2>1, <3>2 DEF Types, Contexts, At, Stands, Books, Fresh,
                Pending, Opening, Running, Ending, Over, HeldRefs, HeldRequests, One, Rest,
                After, Steps, End
    <3>3. CASE n = 13 /\ c \in {"start", "cancel"}
        BY <1>1, <1>3, <1>6, <2>1, <3>3 DEF Types, Contexts, At, Stands, Books, Fresh,
                Pending, Opening, Running, Ending, Over, HeldRefs, HeldRequests, One, Rest,
                After, Steps, End
    <3> QED BY <1>4, <2>1, <3>1, <3>2, <3>3
  <2> QED BY <1>2, <1>6, <2>1, Returns DEF Unref
<1> QED BY <1>5, <1>6

(* The calls of webauth_transaction_finish are a path through its steps.     *)
LEMMA FinishPath ==
    ASSUME NEW c \in Contexts
    PROVE  Leads(FinishCalls, c, <<2, 3, 4, 6, 8, 9, 11, Rest(c)>>, 2, Rest(c))
<1> DEFINE path == <<2, 3, 4, 6, 8, 9, 11, Rest(c)>>
<1>1. /\ Rest(c) \in Steps /\ 13 \in Steps
      /\ path \in Seq(Steps) /\ Len(path) = 8 /\ Len(FinishCalls) = 7
    BY DEF FinishCalls, Rest, Steps, End
<1>2. path \in [1 .. 7 + 1 -> Steps]
    BY <1>1
<1>3. ASSUME NEW i \in 1 .. 7
      PROVE  Makes(c, path[i], FinishCalls[i]) /\ path[i + 1] = After(c, path[i])
  <2>1. i \in {1, 2, 3, 4, 5, 6, 7}
      OBVIOUS
  <2> QED BY <2>1 DEF FinishCalls, Makes, After
<1> QED BY <1>1, <1>2, <1>3 DEF Leads

(* finish begins on a transaction that is not done.                          *)
LEMMA FinishStep ==
    ASSUME LifetimeInv, NEW t \in Transactions, Finish(t)
    PROVE  LifetimeInv'
<1>1. Types /\ ~fault
    BY DEF LifetimeInv
<1>2. Types' /\ \A u \in Transactions \ {t} : Same(u)
    BY <1>1 DEF Types, Same, Finish, Touch, counts
<1>3. /\ fault' = (refs[t] = 0) /\ refs'[t] = refs[t] /\ reqRefs'[t] = reqRefs[t]
      /\ session'[t] = session[t] /\ exported'[t] = exported[t] /\ done'[t] = TRUE
      /\ sources'[t] = sources[t] /\ answers'[t] = answers[t]
      /\ (t \in listed' <=> t \in listed)
    BY <1>1 DEF Types, Finish, Touch, counts
<1>4. ASSUME NEW c \in Contexts, NEW n \in Steps, Makes(c, n, "finish"), At(t, c, n)
      PROVE  /\ done[t] = FALSE /\ ~fault' /\ At(t, c, 2)' /\ After(c, n) = Rest(c)
  <2>1. n = 1
      BY <1>4 DEF Makes
  <2> QED BY <1>1, <1>3, <1>4, <2>1 DEF Types, Contexts, At, Stands, Books, Fresh, Pending,
          Opening, Running, Ending, Over, HeldRefs, HeldRequests, One, Rest, After, Steps,
          End
<1>5. CASE done[t]
  <2>1. ASSUME NEW c \in Contexts, NEW n \in Steps, Makes(c, n, "finish"), At(t, c, n)
        PROVE  ~fault' /\ At(t, c, After(c, n))'
      BY <1>4, <1>5, <2>1
  <2> QED BY <1>2, <1>5, <2>1, Returns DEF Finish
<1>6. CASE ~done[t]
  <2>1. ASSUME NEW c \in Contexts, NEW n \in Steps, Makes(c, n, "finish"), At(t, c, n)
        PROVE  /\ ~fault'
               /\ \E m \in Steps : /\ At(t, c, m)'
                                  /\ \E path : Leads(FinishCalls, c, path, m, After(c, n))
    <3>1. ~fault' /\ At(t, c, 2)' /\ After(c, n) = Rest(c)
        BY <1>4, <2>1
    <3>2. \E path : Leads(FinishCalls, c, path, 2, After(c, n))
        BY <3>1, FinishPath
    <3> QED BY <3>1, <3>2 DEF Steps, End
  <2>2. Becomes(FinishCalls, t)
      BY <1>6 DEF Finish
  <2>3. FinishCalls \in Seq(Names)
      BY DEF FinishCalls, Names
  <2> QED BY <1>2, <2>1, <2>2, <2>3, MakesOthers DEF Finish
<1> QED BY <1>5, <1>6
(* A call that makes one other goes back to the step of that one.            *)
LEMMA OneCall ==
    ASSUME NEW c, NEW call, NEW m \in Steps, NEW n \in Steps,
           Makes(c, m, call), After(c, m) = n
    PROVE  \E path : Leads(<<call>>, c, path, m, n)
<1>1. Leads(<<call>>, c, <<m, n>>, m, n)
    BY DEF Leads
<1> QED BY <1>1

(* teardown frees the session, whose reference goes next, if there is one.   *)
LEMMA TeardownStep ==
    ASSUME LifetimeInv, NEW t \in Transactions, Teardown(t)
    PROVE  LifetimeInv'
<1>1. Types /\ ~fault
    BY DEF LifetimeInv
<1>2. Types' /\ \A u \in Transactions \ {t} : Same(u)
    BY <1>1 DEF Types, Same, Teardown, counts
<1>3. /\ refs'[t] = refs[t] /\ reqRefs'[t] = reqRefs[t] /\ done'[t] = done[t]
      /\ sources'[t] = sources[t] /\ answers'[t] = answers[t]
      /\ fault' = (refs[t] = 0 \/ session[t] = "freed")
      /\ session'[t] = (IF session[t] = "none" THEN "none" ELSE "freed")
      /\ exported'[t] = exported[t] /\ (t \in listed' <=> t \in listed)
    BY <1>1 DEF Types, Teardown, counts
<1>4. \A c \in Contexts, n \in Steps : Makes(c, n, "teardown") => n = 4
    BY DEF Makes
<1>5. CASE session[t] # "none"
  <2>1. ASSUME NEW c \in Contexts, NEW n \in Steps, Makes(c, n, "teardown"), At(t, c, n)
        PROVE  /\ ~fault'
               /\ \E m \in Steps : /\ At(t, c, m)'
                                  /\ \E path : Leads(<<"unref">>, c, path, m, After(c, n))
    <3>1. n = 4
        BY <1>1, <1>4, <1>5, <2>1 DEF Types, Contexts, At, Stands, Books, Fresh, Pending,
                Opening, Running, Ending, Over, HeldRefs, HeldRequests, One, Rest, After,
                Steps, End
    <3>2. ~fault' /\ At(t, c, 5)'
        BY <1>1, <1>3, <1>5, <2>1, <3>1 DEF Types, Contexts, At, Stands, Books, Fresh,
                Pending, Opening, Running, Ending, Over, HeldRefs, HeldRequests, One, Rest,
                After, Steps, End
    <3>3. /\ 5 \in Steps /\ After(c, n) \in Steps
          /\ Makes(c, 5, "unref") /\ After(c, 5) = After(c, n)
        BY <3>1 DEF Makes, After, Steps, End
    <3> QED BY <3>2, <3>3, OneCall
  <2>2. Becomes(<<"unref">>, t)
      BY <1>5 DEF Teardown
  <2>3. <<"unref">> \in Seq(Names)
      BY DEF Names
  <2> QED BY <1>2, <2>1, <2>2, <2>3, MakesOthers DEF Teardown
<1>6. CASE session[t] = "none"
  <2>1. ASSUME NEW c \in Contexts, NEW n \in Steps, Makes(c, n, "teardown"), At(t, c, n)
        PROVE  ~fault' /\ At(t, c, After(c, n))'
      BY <1>1, <1>3, <1>4, <1>6, <2>1 DEF Types, Contexts, At, Stands, Books, Fresh,
              Pending, Opening, Running, Ending, Over, HeldRefs, HeldRequests, One, Rest,
              After, Steps, End
  <2> QED BY <1>2, <1>6, <2>1, Returns DEF Teardown
<1> QED BY <1>5, <1>6

(* Outside finish, which holds the bus's reference to it, a Request is taken *)
(* off the bus only by a Close, and is no longer there.                      *)
LEMMA UnexportStep ==
    ASSUME LifetimeInv, NEW t \in Transactions, Unexport(t)
    PROVE  LifetimeInv'
<1>1. Types /\ ~fault
    BY DEF LifetimeInv
<1>2. Types' /\ \A u \in Transactions \ {t} : Same(u)
    BY <1>1 DEF Types, Same, Unexport, TouchRequest, counts
<1>3. /\ refs'[t] = refs[t] /\ reqRefs'[t] = reqRefs[t] /\ done'[t] = done[t]
      /\ sources'[t] = sources[t] /\ answers'[t] = answers[t]
      /\ fault' = (reqRefs[t] = 0) /\ exported'[t] = FALSE
      /\ session'[t] = session[t] /\ (t \in listed' <=> t \in listed)
    BY <1>1 DEF Types, Unexport, TouchRequest, counts
<1>4. \A c \in Contexts, n \in Steps : Makes(c, n, "unexport") => n = 6 \/ (n = 14 /\ c = "close")
    BY DEF Makes
<1>5. CASE exported[t] = TRUE
  <2>1. ASSUME NEW c \in Contexts, NEW n \in Steps, Makes(c, n, "unexport"), At(t, c, n)
        PROVE  /\ ~fault'
               /\ \E m \in Steps : /\ At(t, c, m)'
                                  /\ \E path : Leads(<<"unref_request">>, c, path, m, After(c, n))
    <3>1. n = 6
        BY <1>1, <1>4, <1>5, <2>1 DEF Types, Contexts, At, Stands, Books, Fresh, Pending,
                Opening, Running, Ending, Over, HeldRefs, HeldRequests, One, Rest, After,
                Steps, End
    <3>2. ~fault' /\ At(t, c, 7)'
        BY <1>1, <1>3, <1>5, <2>1, <3>1 DEF Types, Contexts, At, Stands, Books, Fresh,
                Pending, Opening, Running, Ending, Over, HeldRefs, HeldRequests, One, Rest,
                After, Steps, End
    <3>3. /\ 7 \in Steps /\ After(c, n) \in Steps
          /\ Makes(c, 7, "unref_request") /\ After(c, 7) = After(c, n)
        BY <3>1 DEF Makes, After, Steps, End
    <3> QED BY <3>2, <3>3, OneCall
  <2>2. Becomes(<<"unref_request">>, t)
      BY <1>5 DEF Unexport
  <2>3. <<"unref_request">> \in Seq(Names)
      BY DEF Names
  <2> QED BY <1>2, <2>1, <2>2, <2>3, MakesOthers DEF Unexport
<1>6. CASE exported[t] = FALSE
  <2>1. ASSUME NEW c \in Contexts, NEW n \in Steps, Makes(c, n, "unexport"), At(t, c, n)
        PROVE  ~fault' /\ At(t, c, After(c, n))'
      BY <1>1, <1>3, <1>4, <1>6, <2>1 DEF Types, Contexts, At, Stands, Books, Fresh,
              Pending, Opening, Running, Ending, Over, HeldRefs, HeldRequests, One, Rest,
              After, Steps, End
  <2> QED BY <1>2, <1>6, <2>1, Returns DEF Unexport
<1>7. exported[t] \in BOOLEAN
    BY <1>1 DEF Types
<1> QED BY <1>5, <1>6, <1>7

(* The list lets go of its transaction.                                      *)
LEMMA ForgetStep ==
    ASSUME LifetimeInv, NEW t \in Transactions, ForgetTransaction(t)
    PROVE  LifetimeInv'
<1>1. Types /\ ~fault
    BY DEF LifetimeInv
<1>2. Types' /\ \A u \in Transactions \ {t} : Same(u)
    BY <1>1, FS_RemoveElement DEF Types, Same, ForgetTransaction, Touch, counts
<1>3. /\ refs'[t] = refs[t] /\ reqRefs'[t] = reqRefs[t] /\ done'[t] = done[t]
      /\ sources'[t] = sources[t] /\ answers'[t] = answers[t]
      /\ fault' = (refs[t] = 0) /\ exported'[t] = exported[t]
      /\ session'[t] = session[t] /\ t \notin listed'
    BY <1>1 DEF Types, ForgetTransaction, Touch, counts
<1>4. \A c \in Contexts, n \in Steps : Makes(c, n, "forget") => n = 9
    BY DEF Makes
<1>5. CASE t \in listed
  <2>1. ASSUME NEW c \in Contexts, NEW n \in Steps, Makes(c, n, "forget"), At(t, c, n)
        PROVE  /\ ~fault'
               /\ \E m \in Steps : /\ At(t, c, m)'
                                  /\ \E path : Leads(<<"unref">>, c, path, m, After(c, n))
    <3>1. n = 9
        BY <1>1, <1>4, <1>5, <2>1 DEF Types, Contexts, At, Stands, Books, Fresh, Pending,
                Opening, Running, Ending, Over, HeldRefs, HeldRequests, One, Rest, After,
                Steps, End
    <3>2. ~fault' /\ At(t, c, 10)'
        BY <1>1, <1>3, <1>5, <2>1, <3>1 DEF Types, Contexts, At, Stands, Books, Fresh,
                Pending, Opening, Running, Ending, Over, HeldRefs, HeldRequests, One, Rest,
                After, Steps, End
    <3>3. /\ 10 \in Steps /\ After(c, n) \in Steps
          /\ Makes(c, 10, "unref") /\ After(c, 10) = After(c, n)
        BY <3>1 DEF Makes, After, Steps, End
    <3> QED BY <3>2, <3>3, OneCall
  <2>2. Becomes(<<"unref">>, t)
      BY <1>5 DEF ForgetTransaction
  <2>3. <<"unref">> \in Seq(Names)
      BY DEF Names
  <2> QED BY <1>2, <2>1, <2>2, <2>3, MakesOthers DEF ForgetTransaction
<1>6. CASE t \notin listed
  <2>1. ASSUME NEW c \in Contexts, NEW n \in Steps, Makes(c, n, "forget"), At(t, c, n)
        PROVE  ~fault' /\ At(t, c, After(c, n))'
      BY <1>1, <1>3, <1>4, <1>6, <2>1 DEF Types, Contexts, At, Stands, Books, Fresh,
              Pending, Opening, Running, Ending, Over, HeldRefs, HeldRequests, One, Rest,
              After, Steps, End
  <2> QED BY <1>2, <1>6, <2>1, Returns DEF ForgetTransaction
<1> QED BY <1>5, <1>6

(* Without storage the transaction is finished before it has a session.      *)
LEMMA NoStorageStep ==
    ASSUME LifetimeInv, NEW t \in Transactions, NoStorage(t)
    PROVE  LifetimeInv'
<1>1. Types /\ ~fault
    BY DEF LifetimeInv
<1>2. Types' /\ \A u \in Transactions \ {t} : Same(u)
    BY <1>1 DEF Types, Same, NoStorage, Touch, counts, objects
<1>3. fault' = (refs[t] = 0) /\ Same(t)
    BY <1>1 DEF Types, Same, NoStorage, Touch, counts, objects
<1>4. ASSUME NEW c \in Contexts, NEW n \in Steps, Makes(c, n, "open"), At(t, c, n)
      PROVE  /\ ~fault'
             /\ \E m \in Steps : /\ At(t, c, m)'
                                /\ \E path : Leads(<<"finish">>, c, path, m, After(c, n))
  <2>1. n = 0 /\ c = "start"
      BY <1>4 DEF Makes
  <2>2. ~fault' /\ At(t, c, 1)
      BY <1>1, <1>3, <1>4, <2>1 DEF Types, Contexts, At, Stands, Books, Fresh, Pending,
              Opening, Running, Ending, Over, HeldRefs, HeldRequests, One, Rest, After,
              Steps, End
  <2>3. At(t, c, 1)'
      BY <1>3, <2>2, SameStays
  <2>4. /\ 1 \in Steps /\ After(c, n) \in Steps
        /\ Makes(c, 1, "finish") /\ After(c, 1) = After(c, n)
      BY <2>1 DEF Makes, After, Rest, Steps, End
  <2> QED BY <2>2, <2>3, <2>4, OneCall
<1>5. <<"finish">> \in Seq(Names)
    BY DEF Names
<1> QED BY <1>2, <1>4, <1>5, MakesOthers DEF NoStorage

-----------------------------------------------------------------------------
(* A sequence that has the elements of one and then those of another.        *)
LEMMA ConcatIs ==
    ASSUME NEW S, NEW a \in Seq(S), NEW b \in Seq(S), NEW s \in Seq(S),
           Len(s) = Len(a) + Len(b),
           \A i \in 1 .. Len(a) : s[i] = a[i],
           \A i \in 1 .. Len(b) : s[Len(a) + i] = b[i]
    PROVE  a \o b = s
<1>1. a \o b \in Seq(S) /\ Len(a \o b) = Len(s)
    OBVIOUS
<1>2. ASSUME NEW i \in 1 .. Len(s) PROVE (a \o b)[i] = s[i]
  <2>1. CASE i <= Len(a)
      BY <2>1
  <2>2. CASE i > Len(a)
    <3>1. i - Len(a) \in 1 .. Len(b) /\ Len(a) + (i - Len(a)) = i
        BY <2>2
    <3> QED BY <2>2, <3>1
  <2> QED BY <2>1, <2>2
<1> QED BY <1>1, <1>2

(* The callbacks.                                                            *)
LEMMA HandleStartStep ==
    ASSUME LifetimeInv, NEW t \in Transactions, HandleStart(t)
    PROVE  LifetimeInv'
<1>1. Types /\ ~fault /\ Idle
    BY DEF LifetimeInv, HandleStart
<1>2. Types' /\ ~fault' /\ \A u \in Transactions \ {t} : Same(u)
    BY <1>1, FS_AddElement DEF Types, Same, HandleStart
<1>3. At(t, "start", End)
    BY <1>1, IdleIsEnd DEF Contexts
<1>4. /\ refs'[t] = 2 /\ reqRefs'[t] = 3 /\ exported'[t] = TRUE /\ t \in listed'
      /\ sources'[t] = {"close"} /\ session'[t] = session[t] /\ done'[t] = done[t]
      /\ answers'[t] = answers[t] /\ answers[t] = 0 /\ t \notin listed
    BY <1>1 DEF Types, HandleStart
<1>5. At(t, "start", 0)'
    BY <1>3, <1>4 DEF At, Stands, Books, Fresh, Pending, Opening, Running, Ending, Over,
                      HeldRefs, HeldRequests, One, Rest, After, Steps, End
<1>6. Leads(<<"open", "unref", "unref_request">>, "start", <<0, 13, 15, End>>, 0, End)
    BY DEF Leads, Makes, After, Steps, End
<1>7. <<"open", "unref", "unref_request">> \in Seq(Names)
    BY DEF Names
<1>8. "start" \in Contexts /\ 0 \in Steps
    BY DEF Contexts, Steps, End
<1> QED BY <1>1, <1>2, <1>5, <1>6, <1>7, <1>8, Begins DEF HandleStart

(* A session that signals, or a deadline that fires, is a running one's.     *)
LEMMA FinishBegins ==
    ASSUME LifetimeInv, Idle, Types', ~fault', NEW t \in Transactions,
           Runs(Calls(<<"finish">>, t)), \A u \in Transactions \ {t} : Same(u),
           At(t, "session", 1)'
    PROVE  LifetimeInv'
<1>1. \E path : Leads(<<"finish">>, "session", path, 1, End)
    BY OneCall DEF Makes, After, Rest, Steps, End
<1>2. <<"finish">> \in Seq(Names)
    BY DEF Names
<1>3. "session" \in Contexts /\ 1 \in Steps
    BY DEF Contexts, Steps, End
<1> QED BY <1>1, <1>2, <1>3, Begins

(* A signal of the view or the window comes from a running transaction.      *)
LEMMA OnSessionStep ==
    ASSUME LifetimeInv, NEW t \in Transactions, OnSession(t)
    PROVE  LifetimeInv'
<1>1. Types /\ ~fault /\ Idle
    BY DEF LifetimeInv, OnSession
<1>2. Types' /\ ~fault' /\ \A u \in Transactions : Same(u)
    BY <1>1 DEF Types, Same, OnSession, counts, objects
<1>3. At(t, "session", End) /\ session[t] = "alive"
    BY <1>1, IdleIsEnd DEF Contexts, OnSession
<1>4. At(t, "session", 1)
    BY <1>3 DEF At, Stands, Books, Fresh, Pending, Opening, Running, Ending, Over,
                HeldRefs, HeldRequests, One, Rest, After, Steps, End
<1>5. At(t, "session", 1)'
    BY <1>2, <1>4, SameStays
<1> QED BY <1>1, <1>2, <1>5, FinishBegins DEF OnSession

(* So does a deadline.                                                       *)
LEMMA OnDeadlineStep ==
    ASSUME LifetimeInv, NEW t \in Transactions, OnDeadline(t)
    PROVE  LifetimeInv'
<1>1. Types /\ ~fault /\ Idle
    BY DEF LifetimeInv, OnDeadline
<1>2. Types' /\ ~fault' /\ \A u \in Transactions \ {t} : Same(u)
    BY <1>1 DEF Types, Same, OnDeadline, counts
<1>3. At(t, "session", End) /\ sources[t] # {}
    BY <1>1, IdleIsEnd DEF Contexts, OnDeadline
<1>4. /\ refs'[t] = refs[t] /\ reqRefs'[t] = reqRefs[t] /\ done'[t] = done[t]
      /\ session'[t] = session[t] /\ exported'[t] = exported[t] /\ answers'[t] = answers[t]
      /\ (t \in listed' <=> t \in listed) /\ sources'[t] = sources[t] \ {"deadline"}
    BY <1>1 DEF Types, OnDeadline, counts
<1>5. At(t, "session", 1)'
    BY <1>3, <1>4 DEF At, Stands, Books, Fresh, Pending, Opening, Running, Ending, Over,
                      HeldRefs, HeldRequests, One, Rest, After, Steps, End
<1> QED BY <1>1, <1>2, <1>5, FinishBegins DEF OnDeadline

(* And a challenge.                                                          *)
LEMMA OnAuthenticateStep ==
    ASSUME LifetimeInv, NEW t \in Transactions, OnAuthenticate(t)
    PROVE  LifetimeInv'
<1>1. Types /\ ~fault /\ Idle
    BY DEF LifetimeInv, OnAuthenticate
<1>2. Types' /\ ~fault' /\ \A u \in Transactions : Same(u)
    BY <1>1 DEF Types, Same, OnAuthenticate, counts, objects
<1>3. At(t, "choose", End) /\ session[t] = "alive"
    BY <1>1, IdleIsEnd DEF Contexts, OnAuthenticate
<1>4. At(t, "choose", 0)
    BY <1>3 DEF At, Stands, Books, Fresh, Pending, Opening, Running, Ending, Over,
                HeldRefs, HeldRequests, One, Rest, After, Steps, End
<1>5. At(t, "choose", 0)'
    BY <1>2, <1>4, SameStays
<1>6. \E path : Leads(<<"acquire">>, "choose", path, 0, End)
  <2>1. 0 \in Steps /\ End \in Steps /\ Makes("choose", 0, "acquire") /\ After("choose", 0) = End
      BY DEF Makes, After, Steps, End
  <2> QED BY <2>1, OneCall
<1>7. <<"acquire">> \in Seq(Names)
    BY DEF Names
<1>8. "choose" \in Contexts /\ 0 \in Steps
    BY DEF Contexts, Steps, End
<1> QED BY <1>1, <1>2, <1>5, <1>6, <1>7, <1>8, Begins DEF OnAuthenticate

(* A Request on the bus is a running transaction's, and has its callback: a  *)
(* Close always finishes.                                                    *)
LEMMA OnRequestCloseStep ==
    ASSUME LifetimeInv, NEW t \in Transactions, OnRequestClose(t)
    PROVE  LifetimeInv'
<1> DEFINE names == <<"finish", "ref_request", "unexport", "unref_request", "unref_request">>
<1>1. Types /\ ~fault /\ Idle
    BY DEF LifetimeInv, OnRequestClose
<1>2. Types' /\ ~fault' /\ \A u \in Transactions \ {t} : Same(u)
    BY <1>1 DEF Types, Same, OnRequestClose, Emission, objects
<1>3. At(t, "close", End) /\ exported[t] = TRUE
    BY <1>1, IdleIsEnd DEF Contexts, OnRequestClose, Types
<1>4. /\ refs'[t] = refs[t] /\ reqRefs'[t] = reqRefs[t] + 1 /\ done'[t] = done[t]
      /\ session'[t] = session[t] /\ exported'[t] = exported[t] /\ answers'[t] = answers[t]
      /\ (t \in listed' <=> t \in listed) /\ sources'[t] = sources[t]
    BY <1>1 DEF Types, OnRequestClose, Emission, objects
<1>5. At(t, "close", 1)' /\ "close" \in sources[t]
    BY <1>3, <1>4 DEF At, Stands, Books, Fresh, Pending, Opening, Running, Ending, Over,
                      HeldRefs, HeldRequests, One, Rest, After, Steps, End
<1>6. Leads(names, "close", <<1, 13, 14, 15, 16, End>>, 1, End)
    BY DEF Leads, Makes, After, Rest, Steps, End
<1>7. names \in Seq(Names)
    BY DEF Names
<1>8. "close" \in Contexts /\ 1 \in Steps
    BY DEF Contexts, Steps, End
<1>9. Runs(Calls(names, t))
  <2>1. CloseCalls(t) = Calls(names, t)
    <3>1. <<"finish">> \o <<"ref_request", "unexport", "unref_request", "unref_request">> = names
      <4>1. /\ <<"finish">> \in Seq(Names)
            /\ <<"ref_request", "unexport", "unref_request", "unref_request">> \in Seq(Names)
          BY DEF Names
      <4> DEFINE rest == <<"ref_request", "unexport", "unref_request", "unref_request">>
      <4>2. \A i \in 1 .. Len(<<"finish">>) : names[i] = <<"finish">>[i]
          OBVIOUS
      <4>3. \A i \in 1 .. Len(rest) : names[Len(<<"finish">>) + i] = rest[i]
        <5>1. TAKE i \in 1 .. Len(rest)
        <5>2. i \in {1, 2, 3, 4}
            OBVIOUS
        <5> QED BY <5>2
      <4>4. Len(names) = Len(<<"finish">>) + Len(rest)
          OBVIOUS
      <4> HIDE DEF names
      <4> QED BY <1>7, <4>1, <4>2, <4>3, <4>4, ConcatIs
    <3> QED BY <1>5, <3>1 DEF CloseCalls
  <2> QED BY <2>1 DEF OnRequestClose
<1> HIDE DEF names
<1> QED BY <1>1, <1>2, <1>5, <1>6, <1>7, <1>8, <1>9, Begins
(* Two sequences joined.                                                     *)
LEMMA Joined ==
    ASSUME NEW S, NEW a \in Seq(S), NEW b \in Seq(S)
    PROVE  /\ a \o b \in Seq(S) /\ Len(a \o b) = Len(a) + Len(b)
           /\ \A i \in 1 .. Len(a) : (a \o b)[i] = a[i]
           /\ \A i \in 1 .. Len(b) : (a \o b)[Len(a) + i] = b[i]
<1>1. ASSUME NEW i \in 1 .. Len(b) PROVE (a \o b)[Len(a) + i] = b[i]
  <2>1. Len(a) + i \in 1 .. Len(a) + Len(b) /\ ~(Len(a) + i <= Len(a)) /\ Len(a) + i - Len(a) = i
      OBVIOUS
  <2> QED BY <2>1
<1> QED BY <1>1

(* cancel_all takes every listed transaction to the step where it takes its  *)
(* reference, has each finished, and drops the references: where t is when i *)
(* calls have been made.                                                     *)
Waits(order, t, i) == \E k \in 1 .. Len(order) : order[k] = t /\ i <= k

Place(order, t, i) ==
    IF Waits(order, t, i) THEN 0
    ELSE IF Waits(order, t, i - Len(order)) THEN 1
    ELSE IF Waits(order, t, i - (Len(order) + Len(order))) THEN 13
    ELSE End

Row(order, i) == [t \in Transactions |-> Place(order, t, i)]

(* No transaction is in the list twice.                                      *)
LEMMA Waiting ==
    ASSUME NEW order \in Seq(Transactions),
           \A i, j \in 1 .. Len(order) : i # j => order[i] # order[j]
    PROVE  /\ \A k \in 1 .. Len(order), i \in Int : Waits(order, order[k], i) <=> i <= k
           /\ \A t, k : k \in 1 .. Len(order) /\ t # order[k] =>
                (Waits(order, t, k) <=> Waits(order, t, k + 1))
           /\ \A t : \A i \in Int : i > Len(order) => ~Waits(order, t, i)
           /\ \A t : \A i \in Int : i <= 1 => (Waits(order, t, i) <=> Waits(order, t, 1))
<1>1. Len(order) \in Nat
    OBVIOUS
<1>2. ASSUME NEW k \in 1 .. Len(order), NEW i \in Int
      PROVE  Waits(order, order[k], i) <=> i <= k
  <2>1. ASSUME NEW l \in 1 .. Len(order), order[l] = order[k], i <= l PROVE i <= k
      BY <2>1
  <2> QED BY <2>1 DEF Waits
<1>3. ASSUME NEW t, NEW k \in 1 .. Len(order), t # order[k]
      PROVE  Waits(order, t, k) <=> Waits(order, t, k + 1)
  <2>1. ASSUME NEW l \in 1 .. Len(order), order[l] = t PROVE k <= l <=> k + 1 <= l
    <3>1. l # k
        BY <1>3, <2>1
    <3> QED BY <1>1, <3>1
  <2> QED BY <2>1 DEF Waits
<1>4. ASSUME NEW t, NEW i \in Int PROVE i > Len(order) => ~Waits(order, t, i)
    BY <1>1 DEF Waits
<1>5. ASSUME NEW t, NEW i \in Int PROVE i <= 1 => (Waits(order, t, i) <=> Waits(order, t, 1))
    BY <1>1 DEF Waits
<1> QED BY <1>2, <1>3, <1>4, <1>5

(* Each call of the three passes moves its own transaction one step.         *)
LEMMA RowTakes ==
    ASSUME NEW order \in Seq(Transactions), NEW k \in 1 .. Len(order), NEW i \in Int, NEW call,
           NEW ctx, ctx = [t \in Transactions |-> "cancel"],
           Makes("cancel", Place(order, order[k], i), call),
           Place(order, order[k], i + 1) = After("cancel", Place(order, order[k], i)),
           \A t \in Transactions \ {order[k]} : Place(order, t, i + 1) = Place(order, t, i)
    PROVE  Takes(<<call, order[k]>>, ctx, Row(order, i), Row(order, i + 1))
<1>1. order[k] \in Transactions /\ ctx[order[k]] = "cancel"
    OBVIOUS
<1>2. Row(order, i)[order[k]] = Place(order, order[k], i)
    BY <1>1 DEF Row
<1>3. Row(order, i + 1) = [Row(order, i) EXCEPT ![order[k]] = After("cancel", @)]
    BY <1>1 DEF Row
<1> QED BY <1>1, <1>2, <1>3 DEF Takes

(* Places that wait alike are alike.                                         *)
LEMMA SamePlace ==
    ASSUME NEW order, NEW n \in Nat, n = Len(order), NEW t, NEW i \in Int, NEW j \in Int,
           Waits(order, t, i) <=> Waits(order, t, j),
           Waits(order, t, i - n) <=> Waits(order, t, j - n),
           Waits(order, t, i - (n + n)) <=> Waits(order, t, j - (n + n))
    PROVE  Place(order, t, j) = Place(order, t, i)
BY DEF Place

(* What the three passes do to the transaction in turn.                      *)
LEMMA PassesMove ==
    ASSUME NEW order \in Seq(Transactions), NEW n, n = Len(order),
           \A i, j \in 1 .. Len(order) : i # j => order[i] # order[j],
           NEW ctx, ctx = [t \in Transactions |-> "cancel"],
           NEW k \in 1 .. Len(order)
    PROVE  /\ Takes(<<"ref", order[k]>>, ctx, Row(order, k), Row(order, k + 1))
           /\ Takes(<<"finish", order[k]>>, ctx, Row(order, n + k), Row(order, n + k + 1))
           /\ Takes(<<"unref", order[k]>>, ctx,
                    Row(order, (n + n) + k), Row(order, (n + n) + k + 1))
<1>1. n \in Nat /\ n = Len(order) /\ k \in 1 .. n
    OBVIOUS
<1>2. /\ \A i \in Int : Waits(order, order[k], i) <=> i <= k
      /\ \A t : t # order[k] => (Waits(order, t, k) <=> Waits(order, t, k + 1))
      /\ \A t : \A i \in Int : i > n => ~Waits(order, t, i)
      /\ \A t : \A i \in Int : i <= 1 => (Waits(order, t, i) <=> Waits(order, t, 1))
    BY Waiting
<1>3. /\ Makes("cancel", 0, "ref") /\ After("cancel", 0) = 1
      /\ Makes("cancel", 1, "finish") /\ After("cancel", 1) = 13
      /\ Makes("cancel", 13, "unref") /\ After("cancel", 13) = End
    BY DEF Makes, After, Rest
<1>4. Takes(<<"ref", order[k]>>, ctx, Row(order, k), Row(order, k + 1))
  <2>1. Place(order, order[k], k) = 0 /\ Place(order, order[k], k + 1) = 1
      BY <1>1, <1>2 DEF Place
  <2>2. ASSUME NEW t \in Transactions \ {order[k]}
        PROVE  Place(order, t, k + 1) = Place(order, t, k)
    <3>1. /\ k - n \in Int /\ k - n <= 1 /\ k + 1 - n \in Int /\ k + 1 - n <= 1
          /\ k - (n + n) \in Int /\ k - (n + n) <= 1
          /\ k + 1 - (n + n) \in Int /\ k + 1 - (n + n) <= 1
        BY <1>1
    <3>2. Waits(order, t, k) <=> Waits(order, t, k + 1)
        BY <1>2, <3>1
    <3>3. Waits(order, t, k - n) <=> Waits(order, t, k + 1 - n)
        BY <1>2, <3>1
    <3>4. Waits(order, t, k - (n + n)) <=> Waits(order, t, k + 1 - (n + n))
        BY <1>2, <3>1
    <3>5. k \in Int /\ k + 1 \in Int
        BY <1>1
    <3> QED BY <1>1, <3>2, <3>3, <3>4, <3>5, SamePlace
  <2> QED BY <1>1, <1>3, <2>1, <2>2, RowTakes
<1>5. Takes(<<"finish", order[k]>>, ctx, Row(order, n + k), Row(order, n + k + 1))
  <2>1. Place(order, order[k], n + k) = 1 /\ Place(order, order[k], n + k + 1) = 13
      BY <1>1, <1>2 DEF Place
  <2>2. ASSUME NEW t \in Transactions \ {order[k]}
        PROVE  Place(order, t, n + k + 1) = Place(order, t, n + k)
    <3>1. /\ n + k - n = k /\ n + k + 1 - n = k + 1
          /\ n + k \in Int /\ n + k > n /\ n + k + 1 \in Int /\ n + k + 1 > n
          /\ n + k - (n + n) \in Int /\ n + k - (n + n) <= 1
          /\ n + k + 1 - (n + n) \in Int /\ n + k + 1 - (n + n) <= 1
        BY <1>1
    <3>2. ~Waits(order, t, n + k) /\ ~Waits(order, t, n + k + 1)
        BY <1>2, <3>1
    <3>3. Waits(order, t, n + k - n) <=> Waits(order, t, n + k + 1 - n)
      <4>1. Waits(order, t, k) <=> Waits(order, t, k + 1)
          BY <1>2
      <4>2. n + k - n = k /\ n + k + 1 - n = k + 1
          BY <1>1
      <4> QED BY <4>1, <4>2
    <3>4. Waits(order, t, n + k - (n + n)) <=> Waits(order, t, n + k + 1 - (n + n))
        BY <1>2, <3>1
    <3>5. n + k \in Int /\ n + k + 1 \in Int
        BY <1>1
    <3> QED BY <1>1, <3>2, <3>3, <3>4, <3>5, SamePlace
  <2>3. n + k \in Int
      BY <1>1
  <2> QED BY <1>1, <1>3, <2>1, <2>2, <2>3, RowTakes
<1>6. Takes(<<"unref", order[k]>>, ctx, Row(order, (n + n) + k), Row(order, (n + n) + k + 1))
  <2>1. Place(order, order[k], (n + n) + k) = 13 /\ Place(order, order[k], (n + n) + k + 1) = End
      BY <1>1, <1>2 DEF Place
  <2>2. ASSUME NEW t \in Transactions \ {order[k]}
        PROVE  Place(order, t, (n + n) + k + 1) = Place(order, t, (n + n) + k)
    <3>1. /\ (n + n) + k - (n + n) = k /\ (n + n) + k + 1 - (n + n) = k + 1
          /\ (n + n) + k \in Int /\ (n + n) + k > n
          /\ (n + n) + k + 1 \in Int /\ (n + n) + k + 1 > n
          /\ (n + n) + k - n \in Int /\ (n + n) + k - n > n
          /\ (n + n) + k + 1 - n \in Int /\ (n + n) + k + 1 - n > n
        BY <1>1
    <3>2. ~Waits(order, t, (n + n) + k) /\ ~Waits(order, t, (n + n) + k + 1)
        BY <1>2, <3>1
    <3>3. ~Waits(order, t, (n + n) + k - n) /\ ~Waits(order, t, (n + n) + k + 1 - n)
        BY <1>2, <3>1
    <3>4. Waits(order, t, (n + n) + k - (n + n)) <=> Waits(order, t, (n + n) + k + 1 - (n + n))
      <4>1. Waits(order, t, k) <=> Waits(order, t, k + 1)
          BY <1>2
      <4>2. (n + n) + k - (n + n) = k /\ (n + n) + k + 1 - (n + n) = k + 1
          BY <1>1
      <4> QED BY <4>1, <4>2
    <3>5. (n + n) + k \in Int /\ (n + n) + k + 1 \in Int
        BY <1>1
    <3> QED BY <1>1, <3>2, <3>3, <3>4, <3>5, SamePlace
  <2>3. (n + n) + k \in Int
      BY <1>1
  <2> QED BY <1>1, <1>3, <2>1, <2>2, <2>3, RowTakes
<1> QED BY <1>4, <1>5, <1>6
(* The three passes take every transaction to the end.                       *)
LEMMA PassesUnfold ==
    ASSUME NEW order \in Seq(Transactions), NEW n, n = Len(order),
           \A i, j \in 1 .. Len(order) : i # j => order[i] # order[j],
           NEW ctx, ctx = [t \in Transactions |-> "cancel"],
           NEW stack \in Seq(Call), Len(stack) = (n + n) + n,
           \A i \in 1 .. n : /\ stack[i] = <<"ref", order[i]>>
                            /\ stack[n + i] = <<"finish", order[i]>>
                            /\ stack[(n + n) + i] = <<"unref", order[i]>>
    PROVE  Unfolds(stack, ctx, Row(order, 1))
<1> DEFINE conf == [i \in 1 .. Len(stack) + 1 |-> Row(order, i)]
<1>1. n \in Nat /\ n = Len(order) /\ Len(stack) \in Nat
    OBVIOUS
<1>2. conf \in [1 .. Len(stack) + 1 -> [Transactions -> Steps]]
  <2>1. \A i : Row(order, i) \in [Transactions -> Steps]
      BY DEF Row, Place, Steps, End
  <2> QED BY <2>1
<1>3. conf[Len(stack) + 1] = [t \in Transactions |-> End]
  <2>1. ASSUME NEW t PROVE Place(order, t, Len(stack) + 1) = End
    <3>1. /\ Len(stack) + 1 \in Int /\ Len(stack) + 1 > n
          /\ Len(stack) + 1 - n \in Int /\ Len(stack) + 1 - n > n
          /\ Len(stack) + 1 - (n + n) \in Int /\ Len(stack) + 1 - (n + n) > n
        BY <1>1
    <3>2. \A i \in Int : i > n => ~Waits(order, t, i)
        BY <1>1, Waiting
    <3>3. /\ ~Waits(order, t, Len(stack) + 1) /\ ~Waits(order, t, Len(stack) + 1 - n)
          /\ ~Waits(order, t, Len(stack) + 1 - (n + n))
        BY <3>1, <3>2
    <3> QED BY <1>1, <3>3 DEF Place
  <2>2. Row(order, Len(stack) + 1) = [t \in Transactions |-> End]
      BY <2>1 DEF Row
  <2> QED BY <1>1, <2>2
<1>4. ASSUME NEW i \in 1 .. Len(stack) PROVE Takes(stack[i], ctx, conf[i], conf[i + 1])
  <2>1. conf[i] = Row(order, i) /\ conf[i + 1] = Row(order, i + 1)
      BY <1>1
  <2>2. PICK k \in 1 .. n : i = k \/ i = n + k \/ i = (n + n) + k
    <3>1. i \in 1 .. n \/ i - n \in 1 .. n \/ i - (n + n) \in 1 .. n
        BY <1>1
    <3>2. i = n + (i - n) /\ i = (n + n) + (i - (n + n))
        BY <1>1
    <3> QED BY <3>1, <3>2
  <2>3. /\ Takes(<<"ref", order[k]>>, ctx, Row(order, k), Row(order, k + 1))
        /\ Takes(<<"finish", order[k]>>, ctx, Row(order, n + k), Row(order, n + k + 1))
        /\ Takes(<<"unref", order[k]>>, ctx,
                 Row(order, (n + n) + k), Row(order, (n + n) + k + 1))
      BY <1>1, PassesMove
  <2> HIDE DEF conf
  <2>4. CASE i = k
      BY <2>1, <2>3, <2>4
  <2>5. CASE i = n + k
      BY <2>1, <2>3, <2>5
  <2>6. CASE i = (n + n) + k
      BY <2>1, <2>3, <2>6
  <2> QED BY <2>2, <2>4, <2>5, <2>6
<1>5. conf[1] = Row(order, 1)
    BY <1>1
<1> HIDE DEF conf
<1> QED BY <1>2, <1>3, <1>4, <1>5 DEF Unfolds, Follows

(* cancel_all, whatever is listed and in whatever order.                     *)
LEMMA CancelAllStep ==
    ASSUME LifetimeInv, NEW order \in SetToSeqs(listed), CancelAll(order)
    PROVE  LifetimeInv'
<1> DEFINE n == Len(order)
           each(call) == [i \in 1 .. Len(order) |-> <<call, order[i]>>]
<1>1. Types /\ ~fault /\ Idle /\ todo = << >>
    BY DEF LifetimeInv, CancelAll, Idle
<1>2. Types' /\ ~fault' /\ \A u \in Transactions : Same(u)
    BY <1>1 DEF Types, Same, CancelAll, counts, objects
<1>3. /\ order \in Seq(Transactions) /\ \A i \in 1 .. Len(order) : order[i] \in listed
      /\ \A i, j \in 1 .. Len(order) : i # j => order[i] # order[j]
  <2>1. Cardinality(listed) \in Nat
      BY <1>1, FS_CardinalityType DEF Types
  <2>2. order \in [1 .. Cardinality(listed) -> listed]
        /\ \A i, j \in 1 .. Cardinality(listed) : i # j => order[i] # order[j]
      BY DEF SetToSeqs
  <2>3. order \in Seq(listed) /\ Len(order) = Cardinality(listed)
      BY <2>1, <2>2
  <2> QED BY <1>1, <2>2, <2>3 DEF Types
<1>4. n \in Nat
    BY <1>3
<1>5. ASSUME NEW call \in Names PROVE each(call) \in Seq(Call) /\ Len(each(call)) = n
    BY <1>3 DEF Call
<1>6. \A call : \A i \in 1 .. n : each(call)[i] = <<call, order[i]>>
    OBVIOUS
<1>7. "ref" \in Names /\ "finish" \in Names /\ "unref" \in Names
    BY DEF Names
<1>8. todo' = ((each("ref") \o each("finish")) \o each("unref")) \o todo
    BY DEF CancelAll, Runs
<1> HIDE DEF each, n
<1>9. PICK stack \in Seq(Call) : stack = (each("ref") \o each("finish")) \o each("unref")
  <2>1. each("ref") \in Seq(Call) /\ each("finish") \in Seq(Call) /\ each("unref") \in Seq(Call)
      BY <1>5, <1>7
  <2>2. each("ref") \o each("finish") \in Seq(Call)
      BY <2>1, Joined
  <2>3. (each("ref") \o each("finish")) \o each("unref") \in Seq(Call)
      BY <2>1, <2>2, Joined
  <2> QED BY <2>3
<1>10. /\ Len(stack) = (n + n) + n
       /\ \A i \in 1 .. n : /\ stack[i] = <<"ref", order[i]>>
                            /\ stack[n + i] = <<"finish", order[i]>>
                            /\ stack[(n + n) + i] = <<"unref", order[i]>>
  <2>1. PICK m \in Nat : m = n
      BY <1>4
  <2>2. PICK a \in Seq(Call) : a = each("ref") /\ Len(a) = m
      BY <1>5, <1>7, <2>1
  <2>3. PICK b \in Seq(Call) : b = each("finish") /\ Len(b) = m
      BY <1>5, <1>7, <2>1
  <2>4. PICK c \in Seq(Call) : c = each("unref") /\ Len(c) = m
      BY <1>5, <1>7, <2>1
  <2>5. Len(a) = m /\ Len(b) = m /\ Len(c) = m
      BY <2>2, <2>3, <2>4
  <2>6. PICK d \in Seq(Call) : d = a \o b
      BY Joined
  <2>7. /\ Len(d) = m + m
        /\ \A i \in 1 .. m : d[i] = a[i] /\ d[m + i] = b[i]
    <3>1. Len(a \o b) = Len(a) + Len(b)
        BY Joined
    <3>2. \A i \in 1 .. Len(a) : (a \o b)[i] = a[i]
        BY Joined
    <3>3. \A i \in 1 .. Len(b) : (a \o b)[Len(a) + i] = b[i]
        BY Joined
    <3> QED BY <2>5, <2>6, <3>1, <3>2, <3>3
  <2>8. stack = d \o c
      BY <1>9, <2>2, <2>3, <2>4, <2>6
  <2>9. /\ Len(stack) = (m + m) + m
        /\ \A i \in 1 .. m + m : stack[i] = d[i]
        /\ \A i \in 1 .. m : stack[(m + m) + i] = c[i]
    <3>1. Len(d \o c) = Len(d) + Len(c)
        BY Joined
    <3>2. \A i \in 1 .. Len(d) : (d \o c)[i] = d[i]
        BY Joined
    <3>3. \A i \in 1 .. Len(c) : (d \o c)[Len(d) + i] = c[i]
        BY Joined
    <3> QED BY <2>5, <2>7, <2>8, <3>1, <3>2, <3>3
  <2>10. \A i \in 1 .. m : i \in 1 .. m + m /\ m + i \in 1 .. m + m
      OBVIOUS
  <2>11. \A i \in 1 .. m : /\ a[i] = <<"ref", order[i]>> /\ b[i] = <<"finish", order[i]>>
                          /\ c[i] = <<"unref", order[i]>>
      BY <1>6, <2>1, <2>2, <2>3, <2>4
  <2> QED BY <2>1, <2>7, <2>9, <2>10, <2>11
<1>11. todo' = stack
    BY <1>1, <1>8, <1>9
<1>12. PICK ctx \in [Transactions -> Contexts] : ctx = [t \in Transactions |-> "cancel"]
  <2>1. [t \in Transactions |-> "cancel"] \in [Transactions -> Contexts]
      BY DEF Contexts
  <2> QED BY <2>1
<1>13. Unfolds(stack, ctx, Row(order, 1))
    BY <1>3, <1>10, <1>12, PassesUnfold DEF n
<1>14. Row(order, 1) \in [Transactions -> Steps]
    BY DEF Row, Place, Steps, End
<1>15. ASSUME NEW t \in Transactions PROVE At(t, ctx[t], Row(order, 1)[t])'
  <2>1. At(t, "cancel", End)
      BY <1>1, IdleIsEnd DEF Contexts
  <2>2. CASE t \in listed
    <3>1. At(t, "cancel", 0) /\ At(t, "cancel", End)
        BY <2>1, <2>2 DEF At, Stands, Books, Fresh, Pending, Opening, Running, Ending,
                          Over, HeldRefs, HeldRequests, One, Rest, After, Steps, End
    <3>2. At(t, "cancel", 0)' /\ At(t, "cancel", End)'
        BY <1>2, <3>1, SameStays
    <3>3. Row(order, 1)[t] = 0 \/ Row(order, 1)[t] = End
      <4>1. \A i \in Int : i <= 1 => (Waits(order, t, i) <=> Waits(order, t, 1))
          BY <1>3, Waiting
      <4>2. /\ Waits(order, t, 1 - n) <=> Waits(order, t, 1)
            /\ Waits(order, t, 1 - (n + n)) <=> Waits(order, t, 1)
          BY <1>4, <4>1
      <4> QED BY <4>2 DEF Row, Place, n
    <3> QED BY <1>12, <3>2, <3>3
  <2>3. CASE t \notin listed
    <3>1. At(t, "cancel", End)'
        BY <1>2, <2>1, SameStays
    <3>2. \A i : ~Waits(order, t, i)
        BY <1>3, <2>3 DEF Waits
    <3>3. Row(order, 1)[t] = End
        BY <3>2 DEF Row, Place
    <3> QED BY <1>12, <3>1, <3>3
  <2> QED BY <2>2, <2>3
<1>16. Placed'
    BY <1>11, <1>13, <1>14, <1>15 DEF Placed
<1> QED BY <1>2, <1>9, <1>11, <1>16 DEF LifetimeInv

-----------------------------------------------------------------------------
(* No transaction has begun.                                                 *)
LEMMA LifetimeInit == Init => LifetimeInv
<1> SUFFICES ASSUME Init PROVE LifetimeInv
    OBVIOUS
<1>1. Types /\ ~fault /\ todo = << >>
  <2>1. IsFiniteSet(listed)
      BY FS_EmptySet DEF Init
  <2>2. refs \in [Transactions -> Int] /\ done \in [Transactions -> BOOLEAN]
      BY DEF Init
  <2> QED BY <2>1, <2>2 DEF Init, Types
<1>2. PICK ctx \in [Transactions -> Contexts] : ctx = [t \in Transactions |-> "session"]
  <2>1. [t \in Transactions |-> "session"] \in [Transactions -> Contexts]
      BY DEF Contexts
  <2> QED BY <2>1
<1>3. AtEnd \in [Transactions -> Steps]
    BY DEF AtEnd, Steps, End
<1>4. Unfolds(todo, ctx, AtEnd)
    BY <1>1, NothingLeft
<1>5. ASSUME NEW t \in Transactions PROVE At(t, ctx[t], AtEnd[t])
    BY DEF Init, AtEnd, At, Stands, Books, Fresh, Pending, Opening, Running, Ending, Over,
           HeldRefs, HeldRequests, One, Rest, After, Steps, End
<1>6. todo \in Seq(Call)
    BY <1>1
<1> QED BY <1>1, <1>3, <1>4, <1>5, <1>6 DEF LifetimeInv, Placed

(* Nothing moves when nothing is called.                                     *)
LEMMA Stutters == LifetimeInv /\ UNCHANGED vars => LifetimeInv'
<1> SUFFICES ASSUME LifetimeInv, UNCHANGED vars PROVE LifetimeInv'
    OBVIOUS
<1>1. Types' /\ ~fault' /\ todo' \in Seq(Call) /\ \A t : Same(t)
    BY DEF LifetimeInv, Types, Same, vars, counts, objects
<1>2. PICK ctx \in [Transactions -> Contexts], step \in [Transactions -> Steps] :
        /\ Unfolds(todo, ctx, step)
        /\ \A t \in Transactions : At(t, ctx[t], step[t])
    BY DEF LifetimeInv, Placed
<1>3. \A t \in Transactions : At(t, ctx[t], step[t])'
    BY <1>1, <1>2, SameStays
<1>4. Unfolds(todo', ctx, step)
    BY <1>2 DEF vars
<1> QED BY <1>1, <1>3, <1>4 DEF LifetimeInv, Placed

(* The invariant is kept by every call and every callback.                   *)
LEMMA LifetimeStep == LifetimeInv /\ [Next]_vars => LifetimeInv'
<1> SUFFICES ASSUME LifetimeInv, [Next]_vars PROVE LifetimeInv'
    OBVIOUS
<1>1. ASSUME NEW t \in Transactions, Step(t) PROVE LifetimeInv'
    BY <1>1, RefStep, UnrefStep, RefRequestStep, UnrefRequestStep, FinishStep,
       ClearSourcesStep, TeardownStep, UnexportStep, ReplyStep, ForgetStep,
       OpenSessionStep, NoStorageStep DEF Step
<1>2. ASSUME NEW t \in Transactions,
             \/ Acquired(t) \/ HandleStart(t) \/ OnSession(t) \/ OnDeadline(t)
             \/ OnAuthenticate(t) \/ OnRequestClose(t)
      PROVE  LifetimeInv'
    BY <1>2, AcquiredStep, HandleStartStep, OnSessionStep, OnDeadlineStep,
       OnAuthenticateStep, OnRequestCloseStep
<1>3. ASSUME NEW order \in SetToSeqs(listed), CancelAll(order) PROVE LifetimeInv'
    BY <1>3, CancelAllStep
<1>4. CASE UNCHANGED vars
    BY <1>4, Stutters
<1> QED BY <1>1, <1>2, <1>3, <1>4 DEF Next

(* Every transaction has its place throughout.                               *)
THEOREM LifetimeInvariance == Spec => []LifetimeInv
BY LifetimeInit, LifetimeStep, PTL DEF Spec

(* No call is made on something freed.                                       *)
THEOREM NothingFreedIsUsed == Spec => []NoUseAfterFree
<1>1. LifetimeInv => NoUseAfterFree
    BY DEF LifetimeInv, NoUseAfterFree
<1> QED BY <1>1, LifetimeInvariance, PTL

(* Between callbacks every reference has its holder.                         *)
THEOREM ReferencesAreHeld == Spec => []EveryRefHasAHolder
<1>1. ASSUME LifetimeInv PROVE EveryRefHasAHolder
  <2>1. SUFFICES ASSUME Idle, NEW t \in Transactions
                 PROVE  /\ refs[t] = One(t \in listed) + One(session[t] = "alive")
                        /\ reqRefs[t] = One(refs[t] > 0) + One(exported[t])
      BY DEF EveryRefHasAHolder
  <2>2. At(t, "session", End)
      BY <1>1, <2>1, IdleIsEnd DEF Contexts
  <2>3. exported[t] \in BOOLEAN
      BY <1>1 DEF LifetimeInv, Types
  <2> QED BY <2>2, <2>3 DEF At, Books, HeldRefs, HeldRequests, One, End
<1> QED BY <1>1, LifetimeInvariance, PTL

(* What is done has answered once and is freed when its handler returns.     *)
THEOREM DoneAreFreed == Spec => []DoneIsFreed
<1>1. ASSUME LifetimeInv PROVE DoneIsFreed
  <2>1. SUFFICES ASSUME Idle, NEW t \in Transactions, done[t]
                 PROVE  /\ answers[t] = 1
                        /\ refs[t] = 0 /\ reqRefs[t] = 0
                        /\ session[t] # "alive" /\ sources[t] = {}
      BY DEF DoneIsFreed
  <2>2. At(t, "session", End) /\ done[t] \in BOOLEAN
      BY <1>1, <2>1, IdleIsEnd DEF Contexts, LifetimeInv, Types
  <2>3. Over(t)
      BY <2>1, <2>2 DEF At, Stands, Fresh, Running, Pending, End
  <2> QED BY <2>2, <2>3 DEF At, Books, Over, HeldRefs, HeldRequests, One, End
<1> QED BY <1>1, LifetimeInvariance, PTL
=============================================================================
