# Verification of xdg-desktop-portal-webauth

TLA+ models of the backend in `src/`, the TLC configurations that check them, and the TLAPS
proofs about them. `PROJECT.json` maps every definition to the source lines it models (paths there
start at the directory that holds the repository, so `src/src/transaction.c` is the repository's
`src/transaction.c`).

## The system

A desktop application asks xdg-desktop-portal (the *frontend*) to run a web sign-in. The frontend
calls `Start` on this backend over the session bus. The backend opens a window with a WebKit view,
loads the start URI, waits until a navigation matches the completion URI, and answers the call with
that URI, or with a reason why there is none.

One process, one thread that matters (the GLib main context), any number of transactions at once.

| Component | State | Operations | Talks to |
|---|---|---|---|
| `webauthentication-impl.c` | owner cache, `owner_resolved`, name watcher, transaction list | `handle_start`, sender check, watcher callbacks, `cancel_all`, shutdown | bus (synchronous lookups), transaction |
| `transaction.c` | `done`, invocation, deadline, hooks, `close_id` | new, start deadline, `on_request_close`, `finish` | Request, session, impl list |
| `request-impl.c` | `exported` | export, unexport, default Close handler | GDBus, sender check |
| `options.c` | none | timeout and string lookup | impl |
| `completion.c` | none | validate two URIs, match | impl, session |
| `webkit-session.c` | `pending_host`, `current_host`, `pending_reason`, `adapter` | policy decisions, load events, challenges, teardown | WebKit (callbacks), chrome, provider, transaction |
| `chrome.c` | origin label and icon | set origin, three ways to cancel | session |
| `tls/client_cert*.c` | configuration, one static PIN buffer | configure, select, acquire, pin, release | session, harden, bus, PIN file |
| `harden.c` | `hardened`, `identifiable_depth`, the kernel's dumpable flag | harden, begin, end | portal provider, main |
| `storage.c` | directories on disk, which outlive the process | mode parsing, directory name, creation | impl, session |
| `main.c` | the loop, the request for the bus name | launch, name lost, signals, quit, shutdown order | all, bus, other instances |
| `redact.c` | none | copying loop, shape of a URI, cut of error texts | everything that logs |
| `external-window.c` | the parent of the window | reading a handle, realize, set parent, present | session, display |

What is hard here:

- **Synchronous lookups inside handlers.** Every `Start` and `Close` stops for up to two
  `GetNameOwner` calls. No main-context source runs meanwhile, but the bus moves on: the name may
  change hands, and messages queue up.
- **Two writers of the owner cache.** Lookups write what the bus says now; queued notices write
  what it said when they were sent; a failed lookup writes NULL.
- **Many ways to end one transaction** - user, completion, load failure, TLS failure, crashed web
  process, deadline, Close, loss of the frontend, exit - of which exactly one may answer, and none
  may leave a callback behind.
- **Handlers that remember what the engine did.** The session's hosts and reasons are read by
  later callbacks, after redirects, cancelled loads and navigations of other frames.
- **State shared by overlapping transactions**: the PIN buffer and the dumpable flag.
- **Handlers that run inside each other.** The end of a transaction tears down a session whose handler may
  be the caller, unexports a Request whose signal is being emitted, and leaves a list that is being
  walked; each drops references the others still need.
- **A blocking constructor.** While a user looks at a certificate chooser, no source of any transaction
  runs.
- **Several instances.** One may replace another while calls are on their way to it, and the answers a
  process has given are written by another thread than the one that ends it.
- **Texts from outside** - application ids, error messages, window handles - cut, replaced and parsed with
  limits that may fall inside a character or a number.

What makes each component correct: a `Start` is served only to the owner of the frontend name, and
answered exactly once; no transaction survives its caller; a Request is exported exactly while its
transaction runs; every accepted `Start` ends; a flow completes exactly on the requested target;
the window names the host that is loading; a site's own challenge is answered and a declined one is
reported as such; a PIN leaves memory with its transaction; no handler touches what another has
freed, and nothing stays behind; an accepted call gets its answer whoever replaces the instance that
took it; an application's website data stays with the applications that share its directory name, and on
disk only if it was asked for; no URI in an error text is logged.

## Modules

| Module | Models | Role |
|---|---|---|
| `StartContract` | - | abstract: what a caller of `Start` is promised |
| `Options` | `options.c` (timeout) | pure operators, extended by `Backend` |
| `Backend` | `webauthentication-impl.c`, `transaction.c`, `request-impl.c`, the loop of `main.c` | the process as its callers see it; refines `StartContract` |
| `Completion` | `completion.c` and its uses in `webkit-session.c` | the URI rules, and a flow that applies them |
| `WebSession` | `webkit-session.c`, the origin of `chrome.c` | one session against the engine |
| `Credentials` | `tls/client_cert*.c`, `harden.c` | what overlapping transactions share |
| `Lifetime` | reference counts of `transaction.c`, `request-impl.c`, and who calls whom in `webkit-session.c` and `webauthentication-impl.c` | the steps inside what `Backend` takes as one action |
| `Process` | `main.c`, the bus name | several instances and the calls between them |
| `Storage` | `storage.c`, `build_network_session` | directory names and what is left on disk |
| `Redact` | `redact.c` | one value on its way to the log |
| `ParentWindow` | `external-window.c` | one handle on its way to the display |
| `MC...` | - | small instances for TLC, one for each of the modules above that is checked |
| `BackendProofs`, `LifetimeProofs`, `TextProofs`, `WebSessionProofs`, `CredentialsProofs`, `ProcessProofs`, `StorageProofs`, `RedactProofs` | - | TLAPS proofs |

Definitions marked `mutant` in the modules are never part of a specification: each is a plausible
mistake in the definition it stands beside, listed in `PROJECT.json`, and shows that the property
it belongs to can fail.

### Backend

`inbox` is the queue GDBus hands the main context, in bus order: Starts, Closes, the watcher's first
reply, and `NameOwnerChanged`. A handler is one action, except that it is cut at each synchronous
lookup; `pc` names the lookup that the handler of the inbox's head is waiting for, or says that a session's
certificate constructor is `choosing`. Until the user has answered the chooser no message and no deadline is
dispatched, while callers and the bus go on.

| Action | Code |
|---|---|
| `DispatchStart`, `ResolveForStart`, `VerifyStart` | `reject_stranger`, its two lookups, the rest of `handle_start` |
| `Admit`, `AbortStart` | export, transaction, list, session, deadline; or the session fails and finish answers `no_storage` |
| `DispatchClose`, `OnRequestClose`, `HandleClose` | GDBus dispatch, the transaction's handler, the Request's default handler |
| `Finish(S, answer)` | `webauth_transaction_finish` with teardown, unexport, reply and finished hook |
| `OnGetNameOwnerReply`, `OnNameOwnerChanged` | the name watcher and its two callbacks |
| `OnDeadline`, `OnCancel`, `CompleteOn`, ... | the other ends of a transaction |
| `OnAuthenticate`, `Acquired` (`Chooser`) | a certificate constructor takes the loop, and gives it back |
| `Launch`, `Quit`, `Shutdown` | `main` |

What is taken from GDBus, not from `src/`: messages are dispatched in the order received; a
synchronous call receives its reply past the inbox and dispatches nothing; the object of a Close is
looked up when the message arrives, and again found gone if it was unexported before dispatch; the
watcher ignores notices that arrive before its first reply, and reports a takeover as vanished, then
appeared; the bus answers one connection's queries in order, so no lookup gets its answer before the
watcher's first query has its own. A lookup may still end before that, by its own timeout of 1000 ms; it
then failed like any other. Delivery takes no time in the model. That loses nothing: whatever
the bus sent before a lookup's answer is received before that answer, so at every point where a
handler decides, the inbox is what it would be with a slow connection.

Two consequences of this model that a reader of the code may not expect: `owner_resolved` is TRUE
whenever a Close is dispatched (its Request exists, so a Start was accepted), and the cancellation
during owner resolution that the comment at `request-impl.c:37` speaks of cannot happen, because a
synchronous lookup dispatches nothing. `webauth_cert_adapter_select` also makes a synchronous call inside
`handle_start`; nothing is decided by the owner after it, so it is part of the same step.

`tenure` in a call's record is no part of the message; it remembers, for `FrontendNotRefused` and
`NoticesSpareTheFrontend`, during which ownership the call was made.

### Completion

A URI is a record of what the rules tell apart. Letter case and percent escapes are the constants
`Lower` and `Normalise`, of which only a few facts are assumed; the rule against an empty path looks at the
normalised one, as the code does. `form` stands for everything `parse_uri` refuses outside query and
fragment, `result` for what query and fragment hold. By the
documented rule the empty path and `/` differ; since the engine writes `https://host` as
`https://host/`, a completion URI without a path is accepted and never matches.

### WebSession

The session's variables are those of the struct; the engine's are `load`, the host of
`get_uri` (`view_host`), the page on display (`page_host`, `tls_info`) and whether the load's
connection was given up by a declined challenge (`doomed`). Assumed of WebKit: a navigation of any
frame is decided before its load starts; `REDIRECTED` precedes the challenge of the new host; TLS
information is that of the page on display until the new page commits; a cancelled load reports
load-failed (CANCELLED), then FINISHED, and the view's URI returns to the page on display; a load the
policy handler ignores (an unsupported type) fails like any other. Hosts are compared without case
in the code; a host here is one spelling-independent value.

### Credentials

The environment changes the PIN file and the presence of the certificate portal at any time.
`portal_acquire` and `portal_acquired` are the two ends of the blocking constructor: nothing else of
this process runs between them. Each prctl call may fail, up to a bound; the depth is counted all the same.
`reader`, `answer` and `faulty` (the last function of `harden.c` to run failed its call) are kept for the
properties.

### Lifetime

`Backend` takes `webauth_transaction_finish` as one step; this module opens it. `todo` is the stack of calls
the one thread has still to make: a call replaces itself by the calls it makes, in the order of the code,
and the main loop takes the next source when none is left. `refs` and `reqRefs` are the two reference
counts; a call on a count of zero, or on a freed session, sets `fault`. A transaction may be ended by a
handler of its own session, by its deadline, by Close inside a signal emission, by `cancel_all` over a copy
of the list, and by a failing `handle_start`. `OnAuthenticate` leaves `acquire` on the stack, as the blocking
certificate constructor does, and `Acquired` goes on with the session it was called for.

### Process

Each instance has its place in `main` (`pc`) and its options; `queue` is the bus's queue for the name, of
which the first is the owner; `lost` holds the name-lost notices not yet handled. A call is `waiting` on the
bus, `queued` in an instance that exports the interface, `open` as a transaction, `answered` when GDBus has
the reply (at once, if `handle_start` refuses it or finds no storage), and then resolved: `result`,
`unknown_object`, or `no_reply` when the instance was gone first.

| Action | Code |
|---|---|
| `Check`, `Export`, `OwnName` | `main` up to the loop; whatever fails before the loop ends the process |
| `OnNameLost`, `OnSignal` | the two ways to leave the loop |
| `Shutdown`, `Flush`, `Free`, `Exit` | the rest of `main`, in its order |
| `Kill` | a crash, or a second signal: the first took its handler away |
| `RequestName`, `Arrive`, `Disconnect`, `Write` | the bus and GDBus, from how `main` uses them |

`NotYet`, `Serving` and `Gone` follow where in `main` the interface is exported. A call that reaches an
instance after `webauth_backend_free` finds no object; it is the one case `NameLeadsToObject` permits.

### Storage

An application id is a sequence of characters of three kinds: what a directory name may hold, dots, and the
rest. `webauth_storage_directory_name` is an operator on it. `data`, `cache` and `jar` are the disk and
survive `Exit`; sessions do not. Each of the two directories may fail to be made.

### Redact

One value per behaviour: a field, a URI for the log, or an error text. `Search` is the two `strstr` and the
choice of the first hit, `Back` the walk to the start of its word, `Copy` one turn of the loop of `sanitise`.
Characters have a width in bytes; an invalid byte is a character of width 1 that is replaced.

### ParentWindow

`strtoul` is modelled with what the code relies on: blanks, sign, `0x`, saturation with `errno`, and the
width of a `long` against that of a window id.

## Runs

| Run | Instance | Shows |
|---|---|---|
| `safety` | 2 peers, 2 Starts, 1 Close, 2 handles, 2 owner changes, 1 failed lookup | all safety properties of `Backend`, and `ImplementsContract` |
| `live` | 1 peer, 2 Starts, 1 Close, 1 handle, timeout 0, 1 owner change, 1 failed lookup | every Start and Close is answered, if choosers are |
| `uri_rules` | 4 schemes, 4 hosts, 3 paths, 4 ports, all forms | the matcher is exact |
| `handlers` | 3 hosts | origin, own challenges, declined challenges |
| `survived` | 3 hosts | *violation*: a declined challenge fails the flow long afterwards |
| `shared` | 3 transactions, 2 PINs, all command lines, 1 failing prctl | PIN lifetime, identifiable interval with and after a failure |
| `held` | 2 transactions | *violation*: one transaction's end wipes another's PIN |
| `refs` | 3 transactions | no use after free, no leak, every transaction ends |
| `handover` | 2 instances with any options, 2 calls | who serves, which calls lose their answer, that all are resolved |
| `disk` | 3 sessions, 10 ids, names of up to 3 characters | directory names, isolation, whole stores, what is left on disk |
| `log_text` | texts of up to 4 of 10 pieces, limit 7 bytes | cut, replacement and limit |
| `parents` | texts of up to 5 of 8 characters, 8-bit ids in 12-bit longs | which handle gives which parent |

Properties, by what they guard:

- `CacheConverges`, `FrontendNotRefused`: lookups and notices race for the cache, and the frontend
  is not refused unless a lookup failed.
- `NoOrphan`, `NoticesSpareTheFrontend`: the notice ends the transactions it should and no other.
- `ServedOnlyToOwner`: acceptance is the bus's word, at the instant of acceptance.
- `ExportedExactlyWhileLive`, `CallbacksExactlyWhileLive`, `AnswersAreFinal`, `CloseEnds`: one
  answer, nothing left behind, Close reaches the right transaction.
- `ImplementsContract`: every step of `Backend` is a step of `StartContract` or changes nothing a
  caller can see. `EveryAdmittedAnswered` and `EverySentResolved` are the contract's own liveness
  properties under that mapping; with `EveryCloseResolved` they hold if users answer the choosers they are
  shown, and only then (see below).
- `MatchesExactlyTheTarget`: against a definition of "same target" that does not
  use the matcher's helpers.
- `OriginFollowsLoads`, `OwnChallengeIsRelated`, `DeclineIsNamed`, `DeclinedLoadEnds`.
- `PinHasALiveReader`; `IdentifiableOnlyWhileAcquiring`: a failed prctl call leaves the process on the wrong
  side of the interval until the next begin or end, and no longer.
- `NoUseAfterFree`, `EveryRefHasAHolder`, `DoneIsFreed`: in whatever order handlers run inside each other.
  `EveryRefHasAHolder` counts the holders when the stack is empty, so it fails for a leak as well as for a
  reference dropped twice. `ListedEnds`: the deadline gets its turn however many choosers open before it.
- `AdmittedIsAnswered`, `EveryCallResolved`: an answer is lost only by a kill, and then the bus says so.
  `OnlyTheOwnerStays`, `NameLeadsToObject`: replacement of one instance by another.
- `StaysBelow`, `SpelledOutIsIsolated`, `LeavesNoTrace`: for every id, after failures and restarts.
  `StoreIsWhole`: a request that failed between the two directories leaves no half store to a later one.
- `NoUriIsShown`, `KeepsWhatPrecedes`: together, the cut is where it should be, against a definition of the
  words with a URI in them that does not use the search. `WithinLimit`: at most the rest of one character.
- `ParentIsDenoted`: a well-formed handle gives its window, and nothing gives a window the handle does not
  spell up to sign and width.

`TypeOK` of `Redact` and `Storage`, `Printable` (`Redact`) and `ResultIsAcceptable` (`Completion`) are proved
and not among the properties of a run.

### Bounds

Two Starts suffice for one transaction to interfere with another (handle reuse, `cancel_all` over
two, a second call behind the first); two owner changes give a name lost and regained, or taken over
twice; two peers give an owner and a stranger, or an old and a new owner. One Close meets a running,
a finished and a replaced transaction. One failed lookup separates what holds without failures from
what holds with them. In `live` the second peer and the second handle are left out: what they add is
refusals, which end a call at once; of the timeouts only zero is asked for, since every other is cut to a
positive one before it reaches a timer, as the default is. Three hosts are a page, a load
and a frame. Three transactions
let one end while another reads and a third constructs. Engine events of a session, prctl and the
environment of `Credentials` are otherwise unbounded.

In `refs`, `cancel_all` over two transactions may meet one that the first's end has removed, and a third is
started or challenged between; each is started once. In `handover` one call may be open or answered while
another is on its way; a third instance would only lengthen the queue behind the two, and the proofs of the
safety properties are for any number. In `disk` the ten ids hold each case of the name: too long by one,
replaced, leading dots, nothing left, and two ids with one name. In `log_text` the limit of 7 bytes falls
inside a wide character, and four pieces put two candidates in one word, in two words, and at either
end. In `parents` five characters hold a blank or sign, `0x` and a number too large for an id, or one too
large for a long.

Symmetry is used for peers, calls and handles in `safety`, and for transactions and PINs in `shared` and
`disk`: in runs without liveness only.

### Deadlock and fairness

Deadlock is checked in `Backend`, `Completion`, `WebSession` and `Credentials`, where the ends of a behaviour
are the explicit actions `Exited`, `Done` and `Finished`. It is not in the others, which may stop: each value
is rendered once, each window presented once, each session, transaction and instance started once.

Fairness in `Backend`: the bus answers the watcher, and **users answer the choosers they are shown**
(`Acquired`, weakly). This is an assumption about users, and the code does not enforce it: the interface's XML
asks the backend for the deadline (`data/org.freedesktop.impl.portal.experimental.WebAuthentication1.xml:78-81`),
and no deadline fires while a chooser is open (`webkit-session.c:398`). With it the loop is free again and
again, though other choosers may take it in between. What is ready then gets its turn, since one iteration of
the main context dispatches every source that was ready when it began, and a chooser opened by one of them
only delays the rest: the dispatch of the inbox (with the lookups, which carry a 1000 ms timeout), each
installed timer and the return of a loop that was told to quit are therefore strongly fair.

In `WebSession`: the engine reports a load it has already cancelled. In `Process`: `main` goes on
once it has started, the loop takes its turns, a window ends (its deadline sees to it, which `live` and
`refs` show), and the bus delivers. In `Lifetime`: code runs on and a chooser that is open is answered, both
weakly; and each deadline strongly, for the reason given for `Backend`. Nothing is assumed of pages, peers or
the frontend, nor of users beyond the choosers.

## Proofs

All are checked by TLAPS for every value of the constants that the named assumptions allow (that
the model values `None`, `NoCall`, ... are not members of the sets they are added to, and that
bounds are natural numbers).

- **Backend.** `TypeCorrect` comes first, since every later step needs the inbox's types. The safety
  properties are not inductive by themselves: that a finish cannot answer twice needs to know that a
  queued Start has not been touched (`StartsWaitOnce`), that a call that is done has its answer
  (`TransactionsAreSent`), and that a Close between its two lookups still holds a running
  transaction, then a finished one (`CloseTarget`). `NoOrphan` needs more than that a notice is queued:
  the watcher must heed it, which depends on its first reply being ahead in the queue
  (`WatchIsAhead`). `Inv` is their conjunction; `Invariance` proves it action by action, and
  `NoOrphanEver`, `ExportedWhileLive`, `CallbacksWhileLive`, `ServedToOwner`, `AnswersStay`
  and `CloseHasEnded` follow.

  The owner cache needs an invariant of its own, `CacheInv`. Once the bus has answered the watcher, the last
  word on the owner is true: the newest message of the watcher still queued names the bus's owner or, with
  none queued, the cache holds it unless a lookup failed (`LatestNews`). A lookup fills the cache with the
  owner of now while older notices wait, so a resolved cache is current or has a notice ahead that the
  watcher will heed (`ResolvedCache`). `Tenures`, `NoNoticeBehind` and `NoNoticeFor` say that no notice is
  queued behind a Start of the present tenure, nor at all while a transaction of it runs: nothing can end
  what the owner asked for as long as it stays. `CacheSettles`, `FrontendServed` and `NoticesSpare` follow.

  `Refinement` is `ImplementsContract` step by step. Most actions change nothing that the contract sees
  (`ContractStutters`); of the others each moves one Start (`OneMoves`), and a finish, or a head of the inbox
  that is refused or admitted, moves as the contract allows (`FinishConcludes`, `HeadMoves`). That a step that
  ends several transactions at once is one the contract knows rests on `Inv`: all of them were admitted and
  unanswered.
- **Lifetime.** The counts are right for reasons that lie in the order of the whole stack, and `cancel_all`
  puts the calls of several transactions on it, interleaved. The proof follows each transaction on its own.
  A callback takes a transaction through numbered steps; `Unfolds` says that the calls on the stack, made one
  after the other, take every transaction from the step where it is to the end of its callback. `Stands` says
  what the transaction looks like at a step, and `Books` that its counts are its holders' and those of the
  handlers that have still to drop theirs (`HeldRefs`, `HeldRequests`). `LifetimeInv` joins them. `Pop` and
  `Push` are all that is used of the stack: a call that returns moves its transaction one step, and a call
  replaced by others must lead along a path of steps to where it would have returned. That the three passes of
  `cancel_all` are such a path for every transaction in the list, in any order, is `PassesUnfold`.
  `NothingFreedIsUsed`, `ReferencesAreHeld` and `DoneAreFreed` follow. Two facts about the code
  come out of it: a Close always finds its transaction's callback, so it always finishes; and its own
  `unexport` afterwards never has anything left to do.
- **Completion.** `MatcherIsExact` compares the matcher with the independent definition of a target for
  every pair of URIs; `FlowMatchesTarget` and `FlowResultAcceptable` carry it to the flow.
- **ParentWindow.** A parent follows from the handle alone (`Told`, in `ParentInv`), so the property rests on
  what `strtoul` reads. `NameIsRead` takes a well-formed id through it part by part, and `ReadIsSpelled` goes
  the other way: what was read to the end is spelled by digits after blanks, a sign and `0x`. That digits read
  from the left give the sum of each at its place (`ReadIsNumber`) is an induction over their number. The
  library's induction theorems take an operator, so it is done over sets of numbers instead: `Induction` looks
  at the least number that a fact fails for, which `WFMin` of `WellFoundedInduction` provides, and `Recursion`
  shows in the same way that a base and a step define a function. `ParentFollowsHandle` follows, for every set
  of texts and every width of a long that is no narrower than an id.
- **WebSession.** `SessionInv` ties what the session remembers to the engine while a load is followed;
  `OriginFollows` and `OwnChallengeRecognised` follow. It also records that a load doomed by a challenge has
  its reason in `pending_reason`; since such a load can only be reported cancelled, `DeclinesAreNamed` follows.
- **Credentials.** `Inv` adds that the depth counts the one constructor running; `PinReaderIsAlive` and
  `ProtectedOutsideIntervals` follow, `CredentialSafety` states both.
- **Process.** `Inv` says what each place in `main` allows: who is in the queue, who may be told of a loss,
  and which states the calls at an instance can be in. It carries that nobody is in the queue twice,
  without which an instance that disconnects could leave a dead owner behind. `AdmittedAnswered`,
  `OwnersStay` and `NameLeads` follow.
- **Storage.** Facts about the name come first, without the state: it is short, visible and made of plain
  characters (`NameIsSafe`), and an id that is spelled out is its own name (`SpelledOutIsItsName`). The
  invariant then needs only that a cookie in a jar has a caller that asked and has the jar's name.
- **Redact.** The invariant splits at `pc`: after `Search`, `end` is the first hit or the whole text; during
  `Back` all that was passed belongs to one word; during `Copy` the passed part is free of such words and
  `len` is below the limit whenever the loop goes on.

Only model-checked: liveness (`EveryAdmittedAnswered`, `EverySentResolved`, `EveryCloseResolved`,
`DeclinedLoadEnds`, `ListedEnds`, `EveryCallResolved`), which is out of the prover's reach. Every other property
of the passing runs is a theorem.

## Where the code departs from what is written

Two of these have a run that shows them:

1. `survived` - a declined certificate challenge is never forgotten: `pending_reason` makes a load cancelled
   much later fail the flow (`webkit-session.c:279`; `docs/SECURITY.md:238-239`: an optional challenge need
   not fail a flow that can continue without it).
2. `held` - one pkcs11 transaction's end wipes the PIN of another (`tls/client_cert_pkcs11.c:74`; its line 47:
   "cached for the transaction").

The others are stated in the modules as the definition named; a configuration with it as its only
property gives the counterexample.

3. `CachedRefusalsAreOfStrangers` (`Backend`): after one failed `GetNameOwner` the cache is NULL, and the
   frontend is refused without a lookup until the name changes hands
   (`webauthentication-impl.c:68`; the comment at its line 73).
4. `QueryAndFragmentExcluded` (`Completion`): a completion whose query or fragment is long, or holds a
   backslash, is not recognised (`completion.c:53-103`; `docs/PUBLIC-INTERFACE.md:98`).
5. `SecureIsTheEngines` (`WebSession`): the window says "Secure connection to" the start URI's host before
   there is a connection (`webkit-session.c:568`; `chrome.h:26`).
6. `OriginIsTheViews` (`WebSession`): after an abandoned load the window shows the host of that load
   (`webkit-session.c:262`; `chrome.h:26`).
7. `IntervalHoldsNoPin` (`Credentials`): with the `auto` provider, the process can become identifiable while
   another transaction's PIN is in memory (`tls/client_cert_portal.c:107`; `docs/SECURITY.md:244`).
8. `StorePerApplication` (`Storage`): ids with one directory name share one store (`storage.c:56`;
   `docs/SECURITY.md:33`; lines 124-128 of the same document know it).
9. `TruncatedBeforeAnyUri` (`Redact`): a URI written `scheme:/path` stays in an error text (`redact.c:139`;
   `redact.h:53`).
10. `UriSizesStayBounded` (`Redact`): the scheme of a logged URI has no limit (`redact.c:76`;
    `docs/SECURITY.md:274-275`).
11. `InvalidHandlesAreUnparented` (`ParentWindow`): blanks, a sign, and ids beyond 32 bits are accepted
    (`external-window.c:46`; `docs/ARCHITECTURE.md:65`).

12. `RefusedCloseEndsNothing` (`Backend`): a Close may end its transaction and be refused, if the owner changes
    or a lookup fails between its two checks (`request-impl.c:42`). Nothing written says otherwise; its caller
    would hardly expect it.

Two more are plain from the models. While one user leaves a certificate chooser open, neither a deadline nor a
Close of any transaction is handled (`webkit-session.c:398`, against lines 80-81 of the interface's XML): in
`Backend` and `Lifetime` every callback of the loop waits for `Idle`; without `Acquired` in its fairness,
`Backend` has none of its liveness properties. And the comment at `request-impl.c:37` describes a
cancellation that cannot happen, as said above.

## Not modelled

- String options other than `session_mode`; the texts, markup and spinner of `chrome.c`; the assembly of a
  log line and its fields (`log_event`), and the kinds of value that render as a length or as `<secret>`.
- WebKit settings, permission and download refusals, and the development trust table (`debug_trust`): refusals
  without state, and a build option for tests.
- Colour scheme and verbosity, and which exit code a failed check of `main` gives.
- The core limit of `harden.c`, set once and never read; how key URIs are derived and module files found.
- The loss of the session bus: GLib raises SIGTERM, which is `OnSignal`, but answers then have nowhere to go.
- Time: a deadline fires at some moment after it is installed, also when it is late because a certificate
  constructor blocks the loop.
- Repeated PIN requests of the engine for one card: each is answered from the buffer (`docs/SECURITY.md:226`),
  and how often it asks is not decided by this code.
- Generated code, service files, tests, tools and spikes.

## Plan

1. Done: all components of the table in the first section that keep state of their own, with their runs;
   type correctness of `Backend`, `WebSession`, `Credentials`, `Process`, `Storage` and `Redact`, and the safety
   properties listed under Proofs.
2. `WebSession` composed with `Credentials` (which provider, which PIN answer, what reason) and with
   `Completion` (which navigation completes) instead of the free choices they now stand for.
3. The frontend's side of the Request: its own deadline and Close, racing the backend's answer.
4. Done: the proofs of `ImplementsContract` as a step simulation, of the owner cache, of `DeclineIsNamed`, and
   of `Lifetime` over its stack, and of what `ParentWindow` reads. Left: the proofs of what 2 and 3 add.
