---------------------------- MODULE ProcessProofs ----------------------------
(***************************************************************************)
(* The invariants of Process, for any number of instances and of calls.    *)
(***************************************************************************)
EXTENDS Process, SequenceTheorems, TLAPS

Requested == {"loop", "quit", "cancelled", "flushed", "freed"}
States == {"unsent", "waiting", "queued", "open", "answered"} \cup Resolved
CallRecords == [state : States, at : Instances \cup {Nobody}, admitted : BOOLEAN]

Types ==
    /\ pc \in [Instances -> NotYet \cup Serving \cup Gone \cup {"freed"}]
    /\ lost \subseteq Instances
    /\ queue \in Seq(Instances)
    /\ call \in [Calls -> CallRecords]

(* No instance has two places in the queue.                                  *)
Apart(q) == \A m, n \in 1 .. Len(q) : m < n => q[m] # q[n]

(* Who is in the queue, or has lost the name, has asked for it and not left. *)
QueuedAsked ==
    /\ \A n \in 1 .. Len(queue) : pc[queue[n]] \in Requested
    /\ \A i \in lost : pc[i] \in Requested
    /\ Apart(queue)

(* Until a call is handled it is no transaction; from its arrival until it   *)
(* is resolved it is at an instance that has asked for the name.             *)
ArrivedIsAt ==
    \A c \in Calls :
        /\ call[c].state \in {"unsent", "waiting", "queued"} => ~call[c].admitted
        /\ call[c].admitted => call[c].at \in Instances
        /\ call[c].state \in {"queued", "open", "answered"}
             => call[c].at \in Instances /\ pc[call[c].at] \in Requested

(* Past the shutdown nothing is open, and past the flush nothing unwritten.  *)
NothingLeft ==
    \A c \in Calls :
        /\ call[c].state = "open" => pc[call[c].at] \notin {"cancelled", "flushed", "freed"}
        /\ call[c].state = "answered" => pc[call[c].at] \notin {"flushed", "freed"}

Inv == Types /\ QueuedAsked /\ OnlyTheOwnerStays /\ ArrivedIsAt /\ NothingLeft /\ AdmittedIsAnswered

(* Init satisfies the invariant.                                             *)
LEMMA InitInv == Init => Inv
BY DEF Init, Inv, Types, QueuedAsked, OnlyTheOwnerStays, ArrivedIsAt, NothingLeft,
       AdmittedIsAnswered, Apart, NotYet, Serving, Gone, CallRecords, States, Resolved, Unsent

-----------------------------------------------------------------------------
(* The queue after a request holds the same instances and the new one; its   *)
(* head changes only if the old head is told.                                *)
LEMMA RequestQueues ==
    ASSUME NEW i \in Instances, queue \in Seq(Instances), RequestName(i)
    PROVE  /\ queue' \in Seq(Instances) /\ queue' # << >>
           /\ \A n \in 1 .. Len(queue') :
                queue'[n] = i \/ \E k \in 1 .. Len(queue) : queue'[n] = queue[k]
           /\ \A j \in lost' : j \in lost \/ j = i \/ \E k \in 1 .. Len(queue) : j = queue[k]
           /\ lost \subseteq lost'
           /\ Head(queue') = i \/ (i \in lost' /\ queue # << >> /\ Head(queue') = Head(queue))
           /\ queue # << >> => Head(queue') = Head(queue) \/ Head(queue) \in lost'
           /\ Apart(queue) /\ (\A k \in 1 .. Len(queue) : queue[k] # i) => Apart(queue')
<1>1. CASE queue = << >>
    <2>1. queue' = <<i>> /\ lost' = lost /\ Len(queue') = 1 /\ queue'[1] = i
        BY <1>1 DEF RequestName
    <2>2. queue' \in Seq(Instances) /\ queue' # << >> /\ Head(queue') = i
        BY <2>1
    <2>3. Apart(queue')
        BY <2>1 DEF Apart
    <2> QED BY <1>1, <2>1, <2>2, <2>3
<1>2. CASE queue # << >> /\ Replaces(i)
    <2>1. queue' = <<i>> \o queue /\ lost' = lost \cup {Head(queue)}
        BY <1>2 DEF RequestName
    <2>2. Head(queue) = queue[1] /\ 1 \in 1 .. Len(queue) /\ Len(queue) \in Nat
        BY <1>2
    <2>3. /\ queue' \in Seq(Instances) /\ Len(queue') = Len(queue) + 1 /\ queue'[1] = i
          /\ \A n \in 2 .. Len(queue') : queue'[n] = queue[n - 1]
        BY <2>1
    <2>4. queue' # << >> /\ Head(queue') = i
        BY <2>2, <2>3
    <2>5. ASSUME Apart(queue), \A k \in 1 .. Len(queue) : queue[k] # i PROVE Apart(queue')
      <3> SUFFICES ASSUME NEW m \in 1 .. Len(queue'), NEW n \in 1 .. Len(queue'), m < n
                   PROVE  queue'[m] # queue'[n]
          BY DEF Apart
      <3>1. n \in 2 .. Len(queue') /\ n - 1 \in 1 .. Len(queue) /\ queue'[n] = queue[n - 1]
          BY <2>2, <2>3
      <3>2. CASE m = 1
          BY <2>3, <2>5, <3>1, <3>2
      <3>3. CASE m # 1
        <4>1. m \in 2 .. Len(queue') /\ m - 1 \in 1 .. Len(queue) /\ m - 1 < n - 1
            BY <2>2, <2>3, <3>1, <3>3
        <4>2. queue'[m] = queue[m - 1]
            BY <2>3, <4>1
        <4> QED BY <2>5, <3>1, <4>1, <4>2 DEF Apart
      <3> QED BY <3>2, <3>3
    <2> QED BY <1>2, <2>1, <2>2, <2>3, <2>4, <2>5
<1>3. CASE queue # << >> /\ ~Replaces(i) /\ options[i].replace
    <2>1. queue' = <<Head(queue), i>> \o Tail(queue) /\ lost' = lost \cup {i}
        BY <1>3 DEF RequestName, Enqueued
    <2>2. Head(queue) = queue[1] /\ 1 \in 1 .. Len(queue) /\ Len(queue) \in Nat
        BY <1>3
    <2>3. /\ Tail(queue) \in Seq(Instances) /\ Len(Tail(queue)) = Len(queue) - 1
          /\ \A k \in 1 .. Len(queue) - 1 : Tail(queue)[k] = queue[k + 1]
        BY <1>3
    <2>4. /\ queue' \in Seq(Instances) /\ Len(queue') = Len(queue) + 1
          /\ queue'[1] = queue[1] /\ queue'[2] = i
          /\ \A n \in 3 .. Len(queue') : queue'[n] = queue[n - 1]
        BY <2>1, <2>2, <2>3
    <2>5. queue' # << >> /\ Head(queue') = Head(queue)
        BY <2>2, <2>4
    <2>6. ASSUME Apart(queue), \A k \in 1 .. Len(queue) : queue[k] # i PROVE Apart(queue')
      <3> SUFFICES ASSUME NEW m \in 1 .. Len(queue'), NEW n \in 1 .. Len(queue'), m < n
                   PROVE  queue'[m] # queue'[n]
          BY DEF Apart
      <3> DEFINE k(x) == IF x = 1 THEN 1 ELSE x - 1
      <3>1. CASE m # 2 /\ n # 2
        <4>1. /\ k(m) \in 1 .. Len(queue) /\ k(n) \in 1 .. Len(queue) /\ k(m) < k(n)
              /\ queue'[m] = queue[k(m)] /\ queue'[n] = queue[k(n)]
            BY <2>2, <2>4, <3>1
        <4> HIDE DEF k
        <4> QED BY <2>6, <4>1 DEF Apart
      <3>2. CASE m = 2 \/ n = 2
          BY <2>2, <2>4, <2>6, <3>2
      <3> QED BY <3>1, <3>2
    <2>7. \A n \in 1 .. Len(queue') :
              queue'[n] = i \/ \E k \in 1 .. Len(queue) : queue'[n] = queue[k]
        BY <2>2, <2>4
    <2> QED BY <1>3, <2>1, <2>2, <2>4, <2>5, <2>6, <2>7, Zenon
<1>4. CASE queue # << >> /\ ~Replaces(i) /\ ~options[i].replace
    <2>1. queue' = Append(queue, i) /\ lost' = lost \cup {i}
        BY <1>4 DEF RequestName, Enqueued
    <2>2. Head(queue) = queue[1] /\ 1 \in 1 .. Len(queue) /\ Len(queue) \in Nat
        BY <1>4
    <2>3. /\ queue' \in Seq(Instances) /\ Len(queue') = Len(queue) + 1
          /\ queue'[Len(queue) + 1] = i
          /\ \A n \in 1 .. Len(queue) : queue'[n] = queue[n]
        BY <2>1
    <2>4. queue' # << >> /\ Head(queue') = Head(queue)
        BY <2>2, <2>3
    <2>5. ASSUME Apart(queue), \A k \in 1 .. Len(queue) : queue[k] # i PROVE Apart(queue')
        BY <2>2, <2>3, <2>5 DEF Apart
    <2> QED BY <1>4, <2>1, <2>2, <2>3, <2>4, <2>5
<1> QED BY <1>1, <1>2, <1>3, <1>4

(* A sequence without one of its places.                                     *)
Shorter(w, q, p) ==
    /\ \A n \in 1 .. Len(w) : \E k \in 1 .. Len(q) : w[n] = q[k] /\ k # p
    /\ Apart(q) => Apart(w)
    /\ p # 1 => w # << >> /\ Head(w) = Head(q)

(* The head is the first place.                                              *)
LEMMA FirstPlace ==
    ASSUME NEW S, NEW q \in Seq(S)
    PROVE  Head(q) = q[1]
OBVIOUS

(* The others keep their order, and another head stays.                      *)
LEMMA WithoutPlace ==
    ASSUME NEW S, NEW q \in Seq(S), NEW p \in 1 .. Len(q), NEW w,
           w = SubSeq(q, 1, p - 1) \o SubSeq(q, p + 1, Len(q))
    PROVE  w \in Seq(S) /\ Shorter(w, q, p)
<1>1. Len(q) \in Nat /\ p \in Nat
    OBVIOUS
<1> DEFINE s == SubSeq(q, 1, p - 1)
           r == SubSeq(q, p + 1, Len(q))
<1>2. s \in Seq(S) /\ Len(s) = p - 1 /\ \A n \in 1 .. p - 1 : s[n] = q[n]
    BY <1>1
<1>3. /\ r \in Seq(S) /\ Len(r) = Len(q) - p
      /\ \A n \in 1 .. Len(q) - p : r[n] = q[p + n]
    BY <1>1
<1>4. /\ w \in Seq(S) /\ Len(w) = Len(q) - 1
      /\ \A n \in 1 .. Len(q) - 1 : w[n] = IF n <= p - 1 THEN s[n] ELSE r[n - (p - 1)]
  <2> HIDE DEF s, r
  <2>1. w = s \o r
      BY DEF s, r
  <2>2. Len(s) + Len(r) = Len(q) - 1
      BY <1>1, <1>2, <1>3
  <2>3. s \in Seq(S) /\ r \in Seq(S)
      BY <1>2, <1>3
  <2>4. /\ w \in Seq(S) /\ Len(w) = Len(s) + Len(r)
        /\ \A n \in 1 .. Len(s) + Len(r) : w[n] = IF n <= Len(s) THEN s[n] ELSE r[n - Len(s)]
      BY <2>1, <2>3, ConcatProperties, Zenon
  <2> QED BY <1>2, <2>2, <2>4
<1> HIDE DEF s, r
<1>5. \A n \in 1 .. Len(q) - 1 : w[n] = IF n <= p - 1 THEN q[n] ELSE q[n + 1]
  <2> SUFFICES ASSUME NEW n \in 1 .. Len(q) - 1
               PROVE  w[n] = IF n <= p - 1 THEN q[n] ELSE q[n + 1]
      OBVIOUS
  <2>1. CASE n <= p - 1
    <3>1. n \in 1 .. p - 1
        BY <1>1, <2>1
    <3> QED BY <1>2, <1>4, <2>1, <3>1
  <2>2. CASE ~(n <= p - 1)
    <3>1. n - (p - 1) \in 1 .. Len(q) - p /\ p + (n - (p - 1)) = n + 1
        BY <1>1, <2>2
    <3> QED BY <1>3, <1>4, <2>2, <3>1
  <2> QED BY <2>1, <2>2
<1>6. ASSUME NEW n \in 1 .. Len(w) PROVE \E k \in 1 .. Len(q) : w[n] = q[k] /\ k # p
  <2>1. Len(w) = Len(q) - 1
      BY <1>4
  <2>2. n \in 1 .. Len(q) - 1
      BY <2>1
  <2>3. n \in 1 .. Len(q) /\ n + 1 \in 1 .. Len(q)
      BY <1>1, <2>2
  <2>4. n <= p - 1 => n # p
      BY <1>1, <2>2
  <2>5. ~(n <= p - 1) => n + 1 # p
      BY <1>1, <2>2
  <2> QED BY <1>5, <2>2, <2>3, <2>4, <2>5
<1>7. ASSUME p # 1 PROVE w # << >> /\ Head(w) = Head(q)
    <2>1. 1 \in 1 .. Len(q) - 1 /\ 1 <= p - 1
        BY <1>1, <1>7
    <2>2. w[1] = q[1] /\ Len(w) # 0
        BY <1>1, <1>4, <1>5, <2>1
    <2>3. w \in Seq(S) /\ q \in Seq(S)
        BY <1>4
    <2>4. w # << >>
        BY <2>2
    <2>5. Head(w) = w[1]
        BY <2>3, FirstPlace
    <2>6. Head(q) = q[1]
        BY FirstPlace
    <2> QED BY <2>2, <2>4, <2>5, <2>6, Zenon
<1>8. ASSUME Apart(q) PROVE Apart(w)
  <2> SUFFICES ASSUME NEW m \in 1 .. Len(q) - 1, NEW n \in 1 .. Len(q) - 1, m < n
               PROVE  w[m] # w[n]
      BY <1>1, <1>4 DEF Apart
  <2> DEFINE k == IF m <= p - 1 THEN m ELSE m + 1
             l == IF n <= p - 1 THEN n ELSE n + 1
  <2>1. k \in 1 .. Len(q) /\ l \in 1 .. Len(q) /\ k < l
      BY <1>1
  <2>2. w[m] = q[k] /\ w[n] = q[l]
      BY <1>5
  <2> HIDE DEF k, l
  <2> QED BY <1>8, <2>1, <2>2 DEF Apart
<1> QED BY <1>4, <1>6, <1>7, <1>8 DEF Shorter

(* Leaving takes one place out of the queue; another head stays.             *)
LEMMA WithoutKeeps ==
    ASSUME NEW i, queue \in Seq(Instances), Apart(queue)
    PROVE  /\ Without(i) \in Seq(Instances) /\ Apart(Without(i))
           /\ \A n \in 1 .. Len(Without(i)) :
                Without(i)[n] # i /\ \E k \in 1 .. Len(queue) : Without(i)[n] = queue[k]
           /\ queue # << >> /\ Head(queue) # i
                => Without(i) # << >> /\ Head(Without(i)) = Head(queue)
<1>1. CASE Places(i) = {}
  <2>1. Without(i) = queue
      BY <1>1 DEF Without
  <2>2. \A n \in 1 .. Len(queue) : queue[n] # i
      BY <1>1 DEF Places
  <2> QED BY <2>1, <2>2
<1>2. CASE Places(i) # {}
    <2>1. PICK p \in Places(i) :
              Without(i) = SubSeq(queue, 1, p - 1) \o SubSeq(queue, p + 1, Len(queue))
        BY <1>2 DEF Without
    <2>2. p \in 1 .. Len(queue) /\ queue[p] = i
        BY <2>1 DEF Places
    <2>3. queue # << >> /\ Head(queue) # i => p # 1
        BY <2>2
    <2>4. /\ Without(i) \in Seq(Instances) /\ Apart(Without(i))
          /\ \A n \in 1 .. Len(Without(i)) :
               \E k \in 1 .. Len(queue) : Without(i)[n] = queue[k] /\ k # p
          /\ p # 1 => Without(i) # << >> /\ Head(Without(i)) = Head(queue)
      <3>1. Without(i) \in Seq(Instances) /\ Shorter(Without(i), queue, p)
          BY <2>1, <2>2, WithoutPlace, Zenon
      <3> QED BY <3>1 DEF Shorter
    <2>5. \A k \in 1 .. Len(queue) : k # p => queue[k] # i
        BY <2>2 DEF Apart
    <2> QED BY <2>3, <2>4, <2>5
<1> QED BY <1>1, <1>2

-----------------------------------------------------------------------------
Stages == NotYet \cup Serving \cup Gone \cup {"freed"}

(* A step of main changes one instance's place in main.                      *)
LEMMA StepMoves ==
    ASSUME Types, NEW i \in Instances, NEW from, NEW to \in Stages, Step(i, from, to)
    PROVE  /\ pc' \in [Instances -> Stages]
           /\ pc[i] \in from /\ pc'[i] = to
           /\ \A j \in Instances : j # i => pc'[j] = pc[j]
BY DEF Types, Step, Stages

(* Answering some calls changes their state alone.                           *)
LEMMA TurnMoves ==
    ASSUME Types, NEW S \in SUBSET Calls, NEW state \in States, call' = Turn(S, state)
    PROVE  /\ call' \in [Calls -> CallRecords]
           /\ \A c \in Calls : /\ call'[c].at = call[c].at
                              /\ call'[c].admitted = call[c].admitted
                              /\ call'[c].state = IF c \in S THEN state ELSE call[c].state
<1>1. ASSUME NEW c \in Calls
      PROVE  /\ call'[c] = IF c \in S THEN [call[c] EXCEPT !.state = state] ELSE call[c]
             /\ call[c] \in CallRecords
    BY DEF Types, Turn
<1>2. ASSUME NEW c \in Calls
      PROVE  /\ call'[c] \in CallRecords
             /\ call'[c].at = call[c].at /\ call'[c].admitted = call[c].admitted
             /\ call'[c].state = IF c \in S THEN state ELSE call[c].state
    BY <1>1 DEF CallRecords
<1>3. call' = [c \in Calls |-> call'[c]]
    BY DEF Turn
<1> QED BY <1>2, <1>3

(* The calls at an instance in some state.                                   *)
LEMMA AtIs ==
    ASSUME NEW i, NEW state
    PROVE  /\ At(i, state) \in SUBSET Calls
           /\ \A c \in Calls : c \in At(i, state) <=> call[c].at = i /\ call[c].state = state
BY DEF At

-----------------------------------------------------------------------------
(* An instance that has not asked for the name has no calls to disturb.      *)
LEMMA StartingHasNoCalls ==
    ASSUME Inv, NEW i \in Instances, pc[i] \in {"off", "checked", "exported"}, call' = call,
           \A j \in Instances : j # i => pc'[j] = pc[j]
    PROVE  ArrivedIsAt' /\ NothingLeft' /\ AdmittedIsAnswered'
<1>1. ASSUME NEW c \in Calls, call[c].state \in {"queued", "open", "answered"}
      PROVE  call[c].at \in Instances /\ pc'[call[c].at] = pc[call[c].at]
    BY <1>1 DEF Inv, ArrivedIsAt, Requested
<1>2. ASSUME NEW c \in Calls, call[c].admitted, call[c].state = "no_reply"
      PROVE  pc'[call[c].at] = "killed"
    BY <1>2 DEF Inv, ArrivedIsAt, AdmittedIsAnswered
<1> QED BY <1>1, <1>2 DEF Inv, ArrivedIsAt, NothingLeft, AdmittedIsAnswered

(* The process is checked and its interface exported.                        *)
LEMMA StartupKeeps ==
    ASSUME Inv, NEW i \in Instances, Check(i) \/ Export(i)
    PROVE  Inv'
<1>1. PICK to \in {"checked", "exported", "exited"} :
          Step(i, {"off", "checked"}, to) /\ UNCHANGED <<options, lost, queue, call>>
    BY DEF Check, Export, Step
<1>2. /\ pc' \in [Instances -> Stages]
      /\ pc[i] \in {"off", "checked"} /\ pc'[i] = to
      /\ \A j \in Instances : j # i => pc'[j] = pc[j]
    BY <1>1, StepMoves DEF Stages, NotYet, Serving, Gone, Inv
<1>3. Types'
    BY <1>1, <1>2 DEF Inv, Types, Stages
<1>4. QueuedAsked'
  <2>1. \A n \in 1 .. Len(queue) : queue[n] \in Instances
      BY DEF Inv, Types
  <2> QED BY <1>1, <1>2, <2>1 DEF Inv, Types, QueuedAsked, Requested
<1>5. OnlyTheOwnerStays'
    BY <1>1, <1>2 DEF Inv, OnlyTheOwnerStays
<1>6. ArrivedIsAt' /\ NothingLeft' /\ AdmittedIsAnswered'
    BY <1>1, <1>2, StartingHasNoCalls
<1> QED BY <1>3, <1>4, <1>5, <1>6 DEF Inv

(* Whoever had the name keeps it, or is told.                                *)
LEMMA OwnNameKeeps ==
    ASSUME Inv, NEW i \in Instances, OwnName(i)
    PROVE  Inv'
<1>1. /\ pc' \in [Instances -> Stages]
      /\ pc[i] = "exported" /\ pc'[i] = "loop"
      /\ \A j \in Instances : j # i => pc'[j] = pc[j]
    BY StepMoves DEF OwnName, Stages, Serving, Inv
<1>2. RequestName(i) /\ call' = call /\ queue \in Seq(Instances)
    BY DEF OwnName, Inv, Types
<1>3. /\ queue' \in Seq(Instances) /\ queue' # << >>
      /\ \A n \in 1 .. Len(queue') :
           queue'[n] = i \/ \E k \in 1 .. Len(queue) : queue'[n] = queue[k]
      /\ \A j \in lost' : j \in lost \/ j = i \/ \E k \in 1 .. Len(queue) : j = queue[k]
      /\ lost \subseteq lost'
      /\ Head(queue') = i \/ (i \in lost' /\ queue # << >> /\ Head(queue') = Head(queue))
      /\ queue # << >> => Head(queue') = Head(queue) \/ Head(queue) \in lost'
      /\ Apart(queue) /\ (\A k \in 1 .. Len(queue) : queue[k] # i) => Apart(queue')
    BY <1>2, RequestQueues, Zenon
<1>4. \A k \in 1 .. Len(queue) : queue[k] \in Instances /\ pc[queue[k]] \in Requested
    BY <1>2 DEF Inv, QueuedAsked
<1>5. Types'
    BY <1>1, <1>2, <1>3, <1>4 DEF Inv, Types, Stages
<1>6. QueuedAsked'
  <2>1. ASSUME NEW n \in 1 .. Len(queue') PROVE pc'[queue'[n]] \in Requested
      BY <1>1, <1>3, <1>4 DEF Requested
  <2>2. ASSUME NEW j \in lost' PROVE pc'[j] \in Requested
    <3>1. CASE j \in lost
        BY <1>1, <3>1 DEF Inv, Types, QueuedAsked, Requested
    <3>2. CASE j \notin lost
        BY <1>1, <1>3, <1>4, <3>2 DEF Requested
    <3> QED BY <3>1, <3>2
  <2>3. Apart(queue')
    <3>1. Apart(queue) /\ \A k \in 1 .. Len(queue) : queue[k] # i
        BY <1>1, <1>4 DEF Inv, QueuedAsked, Requested
    <3> QED BY <1>3, <3>1, Zenon
  <2> QED BY <2>1, <2>2, <2>3 DEF QueuedAsked
<1>7. OnlyTheOwnerStays'
  <2> SUFFICES ASSUME NEW j \in Instances, pc'[j] = "loop", j \notin lost'
               PROVE  Head(queue') = j
      BY <1>3 DEF OnlyTheOwnerStays
  <2>1. CASE j = i
      BY <1>3, <2>1
  <2>2. CASE j # i
    <3>1. queue # << >> /\ Head(queue) = j
        BY <1>1, <1>3, <2>2 DEF Inv, OnlyTheOwnerStays
    <3> QED BY <1>3, <3>1
  <2> QED BY <2>1, <2>2
<1>8. ArrivedIsAt' /\ NothingLeft' /\ AdmittedIsAnswered'
    BY <1>1, <1>2, StartingHasNoCalls
<1> QED BY <1>5, <1>6, <1>7, <1>8 DEF Inv

-----------------------------------------------------------------------------
(* Leaving the loop, and every step from there to the exit, leaves the queue *)
(* to the others.                                                            *)
LEMMA WindingDown ==
    ASSUME Inv, NEW i \in Instances, NEW from \in Requested, NEW to \in Requested \ {"loop"},
           Step(i, {from}, to), queue' = queue, lost' \in {lost, lost \ {i}}
    PROVE  /\ pc' \in [Instances -> Stages] /\ pc[i] = from /\ pc'[i] = to
           /\ \A j \in Instances : j # i => pc'[j] = pc[j]
           /\ QueuedAsked' /\ OnlyTheOwnerStays'
<1>1. to \in Stages
    BY DEF Requested, Stages, Serving
<1>2. /\ pc' \in [Instances -> Stages] /\ pc[i] = from /\ pc'[i] = to
      /\ \A j \in Instances : j # i => pc'[j] = pc[j]
    BY <1>1, StepMoves DEF Inv
<1>3. \A n \in 1 .. Len(queue) : queue[n] \in Instances
    BY DEF Inv, Types
<1>4. QueuedAsked'
    BY <1>2, <1>3 DEF Inv, Types, QueuedAsked
<1>5. OnlyTheOwnerStays'
    BY <1>2 DEF Inv, OnlyTheOwnerStays
<1> QED BY <1>2, <1>4, <1>5

(* on_name_lost, on_signal: the calls are where they were.                   *)
LEMMA QuitKeeps ==
    ASSUME Inv, NEW i \in Instances, OnNameLost(i) \/ OnSignal(i)
    PROVE  Inv'
<1>1. Step(i, {"loop"}, "quit") /\ queue' = queue /\ call' = call /\ lost' \in {lost, lost \ {i}}
    BY DEF OnNameLost, OnSignal
<1>2. /\ pc' \in [Instances -> Stages] /\ pc[i] = "loop" /\ pc'[i] = "quit"
      /\ \A j \in Instances : j # i => pc'[j] = pc[j]
      /\ QueuedAsked' /\ OnlyTheOwnerStays'
    BY <1>1, WindingDown DEF Requested
<1>3. Types'
    BY <1>1, <1>2 DEF Inv, Types, Stages
<1>4. ArrivedIsAt' /\ NothingLeft' /\ AdmittedIsAnswered'
    BY <1>1, <1>2 DEF Inv, ArrivedIsAt, NothingLeft, AdmittedIsAnswered, Requested
<1> QED BY <1>2, <1>3, <1>4 DEF Inv

(* webauth_backend_shutdown leaves nothing open.                             *)
LEMMA ShutdownKeeps ==
    ASSUME Inv, NEW i \in Instances, Shutdown(i)
    PROVE  Inv'
<1>1. /\ pc' \in [Instances -> Stages] /\ pc[i] = "quit" /\ pc'[i] = "cancelled"
      /\ \A j \in Instances : j # i => pc'[j] = pc[j]
      /\ QueuedAsked' /\ OnlyTheOwnerStays'
    BY WindingDown DEF Shutdown, Requested
<1>2. /\ call' \in [Calls -> CallRecords]
      /\ \A c \in Calls : /\ call'[c].at = call[c].at
                         /\ call'[c].admitted = call[c].admitted
                         /\ call'[c].state = IF call[c].at = i /\ call[c].state = "open"
                                              THEN "answered" ELSE call[c].state
  <2>1. call' = Turn(At(i, "open"), "answered") /\ At(i, "open") \in SUBSET Calls
      BY AtIs DEF Shutdown
  <2> QED BY <2>1, TurnMoves, AtIs DEF Inv, States
<1>3. Types'
    BY <1>1, <1>2 DEF Inv, Types, Stages, Shutdown
<1>4. ArrivedIsAt'
    BY <1>1, <1>2 DEF Inv, ArrivedIsAt, Requested
<1>5. NothingLeft'
    BY <1>1, <1>2 DEF Inv, ArrivedIsAt, NothingLeft
<1>6. AdmittedIsAnswered'
    BY <1>1, <1>2 DEF Inv, ArrivedIsAt, AdmittedIsAnswered
<1> QED BY <1>1, <1>3, <1>4, <1>5, <1>6 DEF Inv

(* The flush leaves nothing unwritten.                                       *)
LEMMA FlushKeeps ==
    ASSUME Inv, NEW i \in Instances, Flush(i)
    PROVE  Inv'
<1>1. /\ pc' \in [Instances -> Stages] /\ pc[i] = "cancelled" /\ pc'[i] = "flushed"
      /\ \A j \in Instances : j # i => pc'[j] = pc[j]
      /\ QueuedAsked' /\ OnlyTheOwnerStays'
    BY WindingDown DEF Flush, Requested
<1>2. /\ call' \in [Calls -> CallRecords]
      /\ \A c \in Calls : /\ call'[c].at = call[c].at
                         /\ call'[c].admitted = call[c].admitted
                         /\ call'[c].state = IF call[c].at = i /\ call[c].state = "answered"
                                              THEN "result" ELSE call[c].state
  <2>1. call' = Turn(At(i, "answered"), "result") /\ At(i, "answered") \in SUBSET Calls
      BY AtIs DEF Flush
  <2> QED BY <2>1, TurnMoves, AtIs DEF Inv, States, Resolved
<1>3. Types'
    BY <1>1, <1>2 DEF Inv, Types, Stages, Flush
<1>4. ArrivedIsAt'
    BY <1>1, <1>2 DEF Inv, ArrivedIsAt, Requested
<1>5. NothingLeft'
    BY <1>1, <1>2 DEF Inv, ArrivedIsAt, NothingLeft
<1>6. AdmittedIsAnswered'
    BY <1>1, <1>2 DEF Inv, ArrivedIsAt, AdmittedIsAnswered
<1> QED BY <1>1, <1>3, <1>4, <1>5, <1>6 DEF Inv

(* Nothing changes for calls already taken in when the interface goes.       *)
LEMMA FreeKeeps ==
    ASSUME Inv, NEW i \in Instances, Free(i)
    PROVE  Inv'
<1>1. /\ pc' \in [Instances -> Stages] /\ pc[i] = "flushed" /\ pc'[i] = "freed"
      /\ \A j \in Instances : j # i => pc'[j] = pc[j]
      /\ QueuedAsked' /\ OnlyTheOwnerStays'
    BY WindingDown DEF Free, Requested
<1>2. Types'
    BY <1>1 DEF Inv, Types, Stages, Free
<1>3. ArrivedIsAt' /\ NothingLeft' /\ AdmittedIsAnswered'
    BY <1>1 DEF Inv, ArrivedIsAt, NothingLeft, AdmittedIsAnswered, Requested, Free
<1> QED BY <1>1, <1>2, <1>3 DEF Inv

-----------------------------------------------------------------------------
(* A process that is gone takes its place in the queue and its unanswered    *)
(* calls along; when it ended by itself, none of those was a transaction.    *)
LEMMA LeaveKeeps ==
    ASSUME Inv, NEW i \in Instances, Exit(i) \/ Kill(i)
    PROVE  Inv'
<1>1. PICK to \in Gone : /\ Step(i, {pc[i]}, to) /\ Disconnect(i)
                        /\ (to = "killed" \/ pc[i] = "freed")
    BY DEF Exit, Kill, Gone, Step
<1>2. /\ pc' \in [Instances -> Stages] /\ pc'[i] = to
      /\ \A j \in Instances : j # i => pc'[j] = pc[j]
    BY <1>1, StepMoves DEF Stages, Inv
<1>3. pc[i] # "killed"
    BY <1>1 DEF Exit, Kill, Live, Gone, Step
<1>4. /\ queue' \in Seq(Instances) /\ Apart(queue')
      /\ \A n \in 1 .. Len(queue') :
           queue'[n] # i /\ \E k \in 1 .. Len(queue) : queue'[n] = queue[k]
      /\ queue # << >> /\ Head(queue) # i => queue' # << >> /\ Head(queue') = Head(queue)
  <2>1. queue' = Without(i)
      BY <1>1 DEF Disconnect
  <2>2. queue \in Seq(Instances) /\ Apart(queue)
      BY DEF Inv, Types, QueuedAsked
  <2> QED BY <2>1, <2>2, WithoutKeeps, Zenon
<1>5. /\ call' \in [Calls -> CallRecords]
      /\ \A c \in Calls :
           /\ call'[c].at = call[c].at /\ call'[c].admitted = call[c].admitted
           /\ call'[c].state = IF call[c].at = i /\ call[c].state \in {"queued", "open", "answered"}
                                THEN "no_reply" ELSE call[c].state
  <2> DEFINE left == At(i, "queued") \cup At(i, "open") \cup At(i, "answered")
  <2>1. call' = Turn(left, "no_reply")
      BY <1>1 DEF Disconnect
  <2>2. /\ left \in SUBSET Calls
        /\ \A c \in Calls : c \in left
             <=> call[c].at = i /\ call[c].state \in {"queued", "open", "answered"}
      BY AtIs
  <2> HIDE DEF left
  <2>3. Types /\ "no_reply" \in States
      BY DEF Inv, States, Resolved
  <2> QED BY <2>1, <2>2, <2>3, TurnMoves
<1>6. Types'
    BY <1>1, <1>2, <1>4, <1>5 DEF Inv, Types, Stages, Disconnect
<1>7. QueuedAsked'
  <2>1. \A k \in 1 .. Len(queue) : queue[k] \in Instances /\ pc[queue[k]] \in Requested
      BY DEF Inv, Types, QueuedAsked
  <2>2. \A n \in 1 .. Len(queue') : pc'[queue'[n]] \in Requested
      BY <1>2, <1>4, <2>1
  <2>3. \A j \in lost' : pc'[j] \in Requested
      BY <1>1, <1>2 DEF Inv, Types, QueuedAsked, Disconnect
  <2> QED BY <1>4, <2>2, <2>3 DEF QueuedAsked
<1>8. OnlyTheOwnerStays'
    BY <1>1, <1>2, <1>4 DEF Inv, OnlyTheOwnerStays, Disconnect, Gone
<1>9. ArrivedIsAt'
    BY <1>2, <1>5 DEF Inv, ArrivedIsAt
<1>10. NothingLeft'
    BY <1>2, <1>5 DEF Inv, ArrivedIsAt, NothingLeft, Gone
<1>11. AdmittedIsAnswered'
  <2> SUFFICES ASSUME NEW c \in Calls, call[c].admitted, call'[c].state = "no_reply"
               PROVE  pc'[call[c].at] = "killed"
      BY <1>5 DEF AdmittedIsAnswered
  <2>1. CASE call[c].at = i
      BY <1>1, <1>2, <1>3, <1>5, <2>1 DEF Inv, ArrivedIsAt, NothingLeft, AdmittedIsAnswered
  <2>2. CASE call[c].at # i
      BY <1>2, <1>5, <2>2 DEF Inv, ArrivedIsAt, AdmittedIsAnswered
  <2> QED BY <2>1, <2>2
<1> QED BY <1>6, <1>7, <1>8, <1>9, <1>10, <1>11 DEF Inv

-----------------------------------------------------------------------------
(* The calls go their way while no process moves.                            *)
LEMMA CallKeeps ==
    ASSUME Inv, NEW c \in Calls, UNCHANGED <<pc, lost, queue>>, NEW r \in CallRecords,
           call' = [call EXCEPT ![c] = r],
           r.state \in {"unsent", "waiting", "queued"} => ~r.admitted,
           r.admitted => r.at \in Instances,
           r.state \in {"queued", "open", "answered"}
             => r.at \in Instances /\ pc[r.at] \in Requested,
           r.state = "open" => pc[r.at] \notin {"cancelled", "flushed", "freed"},
           r.state = "answered" => pc[r.at] \notin {"flushed", "freed"},
           r.admitted /\ r.state = "no_reply" => pc[r.at] = "killed"
    PROVE  Inv'
<1>1. call' \in [Calls -> CallRecords] /\ \A d \in Calls : call'[d] = IF d = c THEN r ELSE call[d]
    BY DEF Inv, Types
<1>2. Types' /\ QueuedAsked' /\ OnlyTheOwnerStays'
    BY <1>1 DEF Inv, Types, QueuedAsked, OnlyTheOwnerStays
<1>3. ArrivedIsAt' /\ NothingLeft' /\ AdmittedIsAnswered'
    BY <1>1 DEF Inv, ArrivedIsAt, NothingLeft, AdmittedIsAnswered
<1> QED BY <1>2, <1>3 DEF Inv

(* The head of a queue has asked for the name.                               *)
LEMMA HeadAsked ==
    ASSUME Inv, queue # << >>
    PROVE  Head(queue) \in Instances /\ pc[Head(queue)] \in Requested
BY DEF Inv, Types, QueuedAsked

(* Sending, and the bus's part.                                              *)
LEMMA BusKeeps ==
    ASSUME Inv, NEW c \in Calls, Send(c) \/ Arrive(c) \/ ActivationFails(c)
    PROVE  Inv'
<1>1. call[c] \in CallRecords /\ ~call[c].admitted
    BY DEF Inv, Types, ArrivedIsAt, Send, Arrive, ActivationFails
<1>2. PICK r \in CallRecords :
          /\ call' = [call EXCEPT ![c] = r] /\ UNCHANGED <<pc, lost, queue>>
          /\ ~r.admitted /\ r.state \notin {"open", "answered"}
          /\ r.state = "queued" => r.at \in Instances /\ pc[r.at] \in Requested
  <2>1. CASE Send(c)
    <3> DEFINE r == [call[c] EXCEPT !.state = "waiting"]
    <3>1. r \in CallRecords /\ ~r.admitted /\ r.state = "waiting"
        BY <1>1 DEF CallRecords, States
    <3> QED BY <2>1, <3>1 DEF Send
  <2>2. CASE Arrive(c)
    <3>1. Head(queue) \in Instances /\ pc[Head(queue)] \in Requested
        BY <2>2, HeadAsked DEF Arrive
    <3> DEFINE r == [call[c] EXCEPT !.at = Head(queue),
                                    !.state = IF pc[Head(queue)] \in Serving THEN "queued"
                                              ELSE "unknown_object"]
    <3>2. /\ r \in CallRecords /\ ~r.admitted /\ r.at = Head(queue)
          /\ r.state \in {"queued", "unknown_object"}
        BY <1>1, <3>1 DEF CallRecords, States, Resolved
    <3>3. call' = [call EXCEPT ![c] = r] /\ UNCHANGED <<pc, lost, queue>>
        BY <2>2 DEF Arrive
    <3> HIDE DEF r
    <3> QED BY <3>1, <3>2, <3>3
  <2>3. CASE ActivationFails(c)
    <3> DEFINE r == [call[c] EXCEPT !.state = "no_reply"]
    <3>1. r \in CallRecords /\ ~r.admitted /\ r.state = "no_reply"
        BY <1>1 DEF CallRecords, States, Resolved
    <3> QED BY <2>3, <3>1 DEF ActivationFails
  <2> QED BY <2>1, <2>2, <2>3
<1> QED BY <1>2, CallKeeps

(* The instance's part.                                                      *)
LEMMA ServiceKeeps ==
    ASSUME Inv, NEW c \in Calls, HandleStart(c) \/ Finish(c) \/ Write(c)
    PROVE  Inv'
<1>1. /\ call[c] \in CallRecords
      /\ call[c].at \in Instances /\ pc[call[c].at] \in Requested
    BY DEF Inv, Types, ArrivedIsAt, HandleStart, Finish, Write
<1>2. CASE HandleStart(c)
  <2>1. PICK state \in {"open", "answered"}, admitted \in BOOLEAN :
            call' = [call EXCEPT ![c].state = state, ![c].admitted = admitted]
      BY <1>2 DEF HandleStart
  <2> DEFINE r == [call[c] EXCEPT !.state = state, !.admitted = admitted]
  <2>2. r \in CallRecords /\ r.state \in {"open", "answered"} /\ r.at = call[c].at
      BY <1>1 DEF CallRecords, States
  <2>3. /\ call' = [call EXCEPT ![c] = r] /\ UNCHANGED <<pc, lost, queue>>
        /\ pc[call[c].at] \in {"loop", "quit"}
      BY <1>2, <2>1 DEF HandleStart, InTurn
  <2> HIDE DEF r
  <2> QED BY <1>1, <2>2, <2>3, CallKeeps
<1>3. CASE Finish(c)
  <2> DEFINE r == [call[c] EXCEPT !.state = "answered"]
  <2>1. r \in CallRecords /\ r.state = "answered" /\ r.at = call[c].at
      BY <1>1 DEF CallRecords, States
  <2>2. /\ call' = [call EXCEPT ![c] = r] /\ UNCHANGED <<pc, lost, queue>>
        /\ pc[call[c].at] \in {"loop", "quit"}
      BY <1>3 DEF Finish, InTurn
  <2> HIDE DEF r
  <2> QED BY <1>1, <2>1, <2>2, CallKeeps
<1>4. CASE Write(c)
  <2> DEFINE r == [call[c] EXCEPT !.state = "result"]
  <2>1. r \in CallRecords /\ r.state = "result" /\ r.at = call[c].at
      BY <1>1 DEF CallRecords, States, Resolved
  <2>2. call' = [call EXCEPT ![c] = r] /\ UNCHANGED <<pc, lost, queue>>
      BY <1>4 DEF Write
  <2> HIDE DEF r
  <2> QED BY <1>1, <2>1, <2>2, CallKeeps
<1> QED BY <1>2, <1>3, <1>4

-----------------------------------------------------------------------------
(* Every step preserves the invariant.                                       *)
LEMMA StepInv == Inv /\ [Next]_vars => Inv'
<1> SUFFICES ASSUME Inv, [Next]_vars PROVE Inv'
    OBVIOUS
<1>1. ASSUME NEW i \in Instances, Main(i) \/ OnSignal(i) \/ Kill(i) PROVE Inv'
    BY <1>1, StartupKeeps, OwnNameKeeps, QuitKeeps, ShutdownKeeps, FlushKeeps, FreeKeeps,
       LeaveKeeps, Zenon DEF Main
<1>2. ASSUME NEW c \in Calls, Send(c) \/ Bus(c) \/ HandleStart(c) \/ Finish(c) PROVE Inv'
    BY <1>2, BusKeeps, ServiceKeeps, Zenon DEF Bus
<1>3. CASE UNCHANGED vars
    BY <1>3 DEF vars, Inv, Types, QueuedAsked, OnlyTheOwnerStays, ArrivedIsAt, NothingLeft,
               AdmittedIsAnswered
<1> QED BY <1>1, <1>2, <1>3 DEF Next

(* The inductive invariant holds of every behaviour.                         *)
THEOREM Invariance == Spec => []Inv
<1> QED BY InitInv, StepInv, PTL DEF Spec

(* TypeOK: only live instances are in the queue for the name, or about to    *)
(* be told that they lost it (main.c).                                       *)
THEOREM TypeCorrect == Spec => []TypeOK
<1>1. Inv => TypeOK
  <2> SUFFICES ASSUME Inv PROVE TypeOK
      OBVIOUS
  <2>1. DOMAIN queue = 1 .. Len(queue) /\ \A n \in 1 .. Len(queue) : queue[n] \in Instances
      BY DEF Inv, Types
  <2>2. lost \subseteq Live /\ {queue[n] : n \in DOMAIN queue} \subseteq Live
      BY <2>1 DEF Inv, Types, QueuedAsked, Live, Requested, Gone
  <2> QED BY <2>2 DEF Inv, Types, TypeOK, CallRecords, States
<1> QED BY <1>1, Invariance, PTL

(* AdmittedIsAnswered: replacing, a signal and the end of main lose no       *)
(* answer of a transaction (webauth_backend_shutdown, the flush in main).    *)
THEOREM AdmittedAnswered == Spec => []AdmittedIsAnswered
<1>1. Inv => AdmittedIsAnswered
    BY DEF Inv
<1> QED BY <1>1, Invariance, PTL

(* OnlyTheOwnerStays: an instance stays in its loop only with the name       *)
(* (on_name_lost).                                                           *)
THEOREM OwnersStay == Spec => []OnlyTheOwnerStays
<1>1. Inv => OnlyTheOwnerStays
    BY DEF Inv
<1> QED BY <1>1, Invariance, PTL

(* NameLeadsToObject: a call finds no object only at an owner that has       *)
(* unexported it on its way out (main: exported first, then named).          *)
THEOREM NameLeads == Spec => NameLeadsToObject
<1> DEFINE Found == \A c \in Calls :
               call'[c].state = "unknown_object" /\ call[c].state = "waiting"
                 => pc[call'[c].at] = "freed"
<1>1. Inv /\ [Next]_vars => [Found]_vars
  <2> SUFFICES ASSUME Inv, Next, NEW c \in Calls,
                      call'[c].state = "unknown_object", call[c].state = "waiting"
               PROVE  pc[call'[c].at] = "freed"
      OBVIOUS
  <2>1. ASSUME NEW i \in Instances, Main(i) \/ OnSignal(i) \/ Kill(i)
        PROVE  call'[c].state # "unknown_object"
    <3>1. \/ call' = call
          \/ \E S \in SUBSET Calls, t \in {"answered", "result", "no_reply"} : call' = Turn(S, t)
        BY <2>1, AtIs DEF Main, Check, Export, OwnName, OnNameLost, OnSignal, Shutdown, Flush,
                         Free, Exit, Kill, Disconnect
    <3>2. CASE call' = call
        BY <3>2
    <3>3. ASSUME NEW S \in SUBSET Calls, NEW t \in {"answered", "result", "no_reply"},
                 call' = Turn(S, t)
          PROVE  call'[c].state # "unknown_object"
        BY <3>3, TurnMoves DEF Inv, States, Resolved
    <3> QED BY <3>1, <3>2, <3>3
  <2>2. ASSUME NEW d \in Calls, Send(d) \/ Bus(d) \/ HandleStart(d) \/ Finish(d)
        PROVE  Arrive(d) /\ d = c
      BY <2>2 DEF Send, Bus, Arrive, ActivationFails, Write, HandleStart, Finish, Inv, Types,
                 CallRecords
  <2>3. ASSUME Arrive(c) PROVE pc[call'[c].at] = "freed"
    <3>1. call'[c].at = Head(queue) /\ pc[Head(queue)] \notin Serving
        BY <2>3 DEF Arrive, Inv, Types, CallRecords
    <3>2. pc[Head(queue)] \in Requested
        BY <2>3, HeadAsked DEF Arrive
    <3> QED BY <3>1, <3>2 DEF Requested, Serving
  <2> QED BY <2>1, <2>2, <2>3 DEF Next
<1> QED BY <1>1, Invariance, PTL DEF Spec, NameLeadsToObject
=============================================================================
