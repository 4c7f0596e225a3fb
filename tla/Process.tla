-------------------------------- MODULE Process --------------------------------
(***************************************************************************)
(* The life of the service from command line to exit (src/main.c), with    *)
(* several instances on one session bus: who has the bus name, what        *)
(* replacing an instance and stopping it does to the calls on their way,   *)
(* and what reaches the callers.                                           *)
(*                                                                         *)
(* The bus routes a call to the first of the queue for the name.  GDBus    *)
(* looks the object up when a call arrives, dispatches it in the main      *)
(* loop, and writes answers from a thread of its own; what it has not      *)
(* written when the process ends is gone, and the bus answers for it.  The *)
(* sender check and the transactions themselves are the module Backend.    *)
(***************************************************************************)
EXTENDS Naturals, Sequences

CONSTANTS Instances, Calls, Nobody

ASSUME NobodyAssumption == Nobody \notin Instances

VARIABLES
    options,  \* of each instance: --replace and --allow-replacement
    pc,       \* how far main has come
    lost,     \* instances with a name-lost notice to handle
    queue,    \* external: the queue for the bus name, its owner first
    call      \* of each call: its state, the instance it went to, whether it became a transaction

vars == <<options, pc, lost, queue, call>>

NotYet == {"off", "checked"}
Serving == {"exported", "loop", "quit", "cancelled", "flushed"}   \* the interface is exported
Gone == {"exited", "killed"}
Live == Instances \ {i \in Instances : pc[i] \in Gone \cup {"off"}}

Unsent == [state |-> "unsent", at |-> Nobody, admitted |-> FALSE]
Resolved == {"result", "unknown_object", "no_reply"}

Init ==
    /\ options \in [Instances -> [replace : BOOLEAN, allow : BOOLEAN]]
    /\ pc = [i \in Instances |-> "off"]
    /\ lost = {}
    /\ queue = << >>
    /\ call = [c \in Calls |-> Unsent]

Step(i, from, to) == pc[i] \in from /\ pc' = [pc EXCEPT ![i] = to]
At(i, state) == {c \in Calls : call[c].at = i /\ call[c].state = state}
Turn(S, state) == [c \in Calls |-> IF c \in S THEN [call[c] EXCEPT !.state = state] ELSE call[c]]
Places(i) == {n \in 1 .. Len(queue) : queue[n] = i}   \* one at most
Without(i) ==
    IF Places(i) = {} THEN queue
    ELSE LET n == CHOOSE n \in Places(i) : TRUE
         IN  SubSeq(queue, 1, n - 1) \o SubSeq(queue, n + 1, Len(queue))

-----------------------------------------------------------------------------
(* The bus queues a request with --replace in second place and another in    *)
(* last place; with --replace it changes places with an owner that allows    *)
(* it.  Whoever is in the queue without the name is told it has lost it.     *)
Replaces(i) == options[i].replace /\ options[Head(queue)].allow
Enqueued(i) ==
    IF options[i].replace THEN <<Head(queue), i>> \o Tail(queue) ELSE Append(queue, i)

RequestName(i) ==
    \/ queue = << >> /\ queue' = <<i>> /\ UNCHANGED lost
    \/ /\ queue # << >> /\ Replaces(i)
       /\ queue' = <<i>> \o queue
       /\ lost' = lost \cup {Head(queue)}
    \/ /\ queue # << >> /\ ~Replaces(i)
       /\ queue' = Enqueued(i)
       /\ lost' = lost \cup {i}

(* mutant: the name is requested before there is anything behind it          *)
AskFirst(i) ==
    /\ Step(i, {"off"}, "checked")
    /\ RequestName(i)
    /\ UNCHANGED <<options, call>>

(* Command line, provider, display, engine and bus, in this order: what      *)
(* fails, and --version and --no-activate, end the process before the bus    *)
(* has heard of it.                                                          *)
Check(i) ==
    /\ \E to \in {"checked", "exited"} : Step(i, {"off"}, to)
    /\ UNCHANGED <<options, lost, queue, call>>

(* webauth_backend_new: an interface that cannot be exported ends it too.    *)
Export(i) ==
    /\ \E to \in {"exported", "exited"} : Step(i, {"checked"}, to)
    /\ UNCHANGED <<options, lost, queue, call>>

OwnName(i) ==
    /\ Step(i, {"exported"}, "loop")
    /\ RequestName(i)
    /\ UNCHANGED <<options, call>>

(* mutant: the loss is only logged                                           *)
LostIsLogged(i) ==
    /\ i \in lost /\ pc[i] = "loop" /\ lost' = lost \ {i}
    /\ UNCHANGED <<options, pc, queue, call>>

OnNameLost(i) ==
    /\ i \in lost /\ lost' = lost \ {i}
    /\ Step(i, {"loop"}, "quit")
    /\ UNCHANGED <<options, queue, call>>

(* SIGINT or SIGTERM.                                                        *)
OnSignal(i) ==
    /\ Step(i, {"loop"}, "quit")
    /\ UNCHANGED <<options, lost, queue, call>>

(* mutant: the loop returns straight to the flush                            *)
NoShutdown(i) ==
    /\ Step(i, {"quit"}, "cancelled")
    /\ UNCHANGED <<options, lost, queue, call>>

(* webauth_backend_shutdown: every transaction is answered.                  *)
Shutdown(i) ==
    /\ Step(i, {"quit"}, "cancelled")
    /\ call' = Turn(At(i, "open"), "answered")
    /\ UNCHANGED <<options, lost, queue>>

(* mutant: replies are left to GDBus                                         *)
NoFlush(i) ==
    /\ Step(i, {"cancelled"}, "flushed")
    /\ UNCHANGED <<options, lost, queue, call>>

(* g_dbus_connection_flush_sync waits until every answer is written.         *)
Flush(i) ==
    /\ Step(i, {"cancelled"}, "flushed")
    /\ call' = Turn(At(i, "answered"), "result")
    /\ UNCHANGED <<options, lost, queue>>

(* webauth_backend_free unexports the interface.                             *)
Free(i) ==
    /\ Step(i, {"flushed"}, "freed")
    /\ UNCHANGED <<options, lost, queue, call>>

(* What the bus does for a peer that is gone.                                *)
Disconnect(i) ==
    /\ queue' = Without(i)
    /\ lost' = lost \ {i}
    /\ call' = Turn(At(i, "queued") \cup At(i, "open") \cup At(i, "answered"), "no_reply")

(* g_bus_unown_name, and the end of main.                                    *)
Exit(i) ==
    /\ Step(i, {"freed"}, "exited")
    /\ Disconnect(i)
    /\ UNCHANGED options

(* A crash, or a second signal of the same kind: the first took its handler  *)
(* away.                                                                     *)
Kill(i) ==
    /\ i \in Live /\ Step(i, {pc[i]}, "killed")
    /\ Disconnect(i)
    /\ UNCHANGED options

-----------------------------------------------------------------------------
(* A peer calls the name; GDBus in the owner takes the call in if its object *)
(* is exported.  A call to a name without owner waits for one.               *)
Send(c) ==
    /\ call[c].state = "unsent"
    /\ call' = [call EXCEPT ![c].state = "waiting"]
    /\ UNCHANGED <<options, pc, lost, queue>>

Arrive(c) ==
    /\ call[c].state = "waiting" /\ queue # << >>
    /\ call' = [call EXCEPT ![c].at = Head(queue),
                            ![c].state = IF pc[Head(queue)] \in Serving THEN "queued"
                                         ELSE "unknown_object"]
    /\ UNCHANGED <<options, pc, lost, queue>>

ActivationFails(c) ==
    /\ call[c].state = "waiting" /\ queue = << >>
    /\ call' = [call EXCEPT ![c].state = "no_reply"]
    /\ UNCHANGED <<options, pc, lost, queue>>

(* The main loop takes a call.  It opens a window for it, which ends later,  *)
(* or answers at once: a refusal makes no transaction, a session without     *)
(* storage ends one.  Also in the turn in which the loop is told to quit.    *)
(* The writing thread sends the answer.                                      *)
InTurn(c) == pc[call[c].at] \in {"loop", "quit"}

HandleStart(c) ==
    /\ call[c].state = "queued" /\ InTurn(c)
    /\ \/ call' = [call EXCEPT ![c].state = "open", ![c].admitted = TRUE]
       \/ \E admitted \in BOOLEAN :
             call' = [call EXCEPT ![c].state = "answered", ![c].admitted = admitted]
    /\ UNCHANGED <<options, pc, lost, queue>>

(* mutant: the window has no deadline, and the user does nothing             *)
NoDeadline(c) == FALSE /\ call' = call

Finish(c) ==
    /\ call[c].state = "open" /\ InTurn(c)
    /\ call' = [call EXCEPT ![c].state = "answered"]
    /\ UNCHANGED <<options, pc, lost, queue>>

Write(c) ==
    /\ call[c].state = "answered"
    /\ call' = [call EXCEPT ![c].state = "result"]
    /\ UNCHANGED <<options, pc, lost, queue>>

Main(i) ==
    \/ Check(i) \/ Export(i) \/ OwnName(i)
    \/ OnNameLost(i) \/ Shutdown(i) \/ Flush(i) \/ Free(i) \/ Exit(i)

Bus(c) == Arrive(c) \/ ActivationFails(c) \/ Write(c)

Next ==
    \/ \E i \in Instances : Main(i) \/ OnSignal(i) \/ Kill(i)
    \/ \E c \in Calls : Send(c) \/ Bus(c) \/ HandleStart(c) \/ Finish(c)

(* main goes on until the loop, and from the loop's end to its own; the loop *)
(* takes its turns; a window ends at the latest by its deadline; the bus     *)
(* delivers.                                                                 *)
Fairness ==
    /\ \A i \in Instances : /\ WF_vars(pc[i] # "off" /\ Main(i))
    /\ \A c \in Calls : WF_vars(Bus(c)) /\ WF_vars(HandleStart(c)) /\ WF_vars(Finish(c))

Spec == Init /\ [][Next]_vars /\ Fairness

-----------------------------------------------------------------------------
TypeOK ==
    /\ pc \in [Instances -> NotYet \cup Serving \cup Gone \cup {"freed"}]
    /\ lost \subseteq Live
    /\ {queue[n] : n \in DOMAIN queue} \subseteq Live
    /\ call \in [Calls -> [state : {"unsent", "waiting", "queued", "open", "answered"} \cup Resolved,
                           at : Instances \cup {Nobody}, admitted : BOOLEAN]]

(* A call that became a transaction is answered by the instance that took    *)
(* it, and the answer reaches the caller, unless that instance is killed:    *)
(* being replaced, a signal and the end of main lose no answer (main,        *)
(* webauth_backend_shutdown).                                                *)
AdmittedIsAnswered ==
    \A c \in Calls : call[c].admitted /\ call[c].state = "no_reply" => pc[call[c].at] = "killed"

(* No instance stays in its loop without the name, beside the one that has   *)
(* it (on_name_lost).                                                        *)
OnlyTheOwnerStays ==
    \A i \in Instances : pc[i] = "loop" /\ i \notin lost => queue # << >> /\ Head(queue) = i

(* The name leads to an object, except in the last moments of its owner      *)
(* (main: the interface is exported before the name is requested).           *)
NameLeadsToObject ==
    [][\A c \in Calls : call'[c].state = "unknown_object" /\ call[c].state = "waiting" =>
         pc[call'[c].at] = "freed"]_vars

(* Every call gets an answer or an error.                                    *)
EveryCallResolved == \A c \in Calls : call[c].state # "unsent" ~> call[c].state \in Resolved
=============================================================================
