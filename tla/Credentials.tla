----------------------------- MODULE Credentials -----------------------------
(***************************************************************************)
(* What the transactions of one process share when a site asks for a       *)
(* client certificate: the provider configuration and choice               *)
(* (tls/client_cert.c), the one PIN buffer of the pkcs11 provider          *)
(* (tls/client_cert_pkcs11.c), and the interval in which the portal        *)
(* provider makes the process identifiable (tls/client_cert_portal.c,      *)
(* harden.c).                                                              *)
(*                                                                         *)
(* Handlers run one at a time; the portal provider's certificate           *)
(* constructor blocks the main context, and during it the process stays    *)
(* identifiable.  The bus, the disk and the operator move all the time.    *)
(***************************************************************************)
EXTENDS Naturals

CONSTANTS
    Transactions,
    Pins,              \* contents the PIN file may have
    Unreadable,        \* the PIN file cannot be read
    NoPin,             \* the NULL buffer
    NoTransaction,
    MaxPrctlFailures   \* bound on prctl calls that fail

ASSUME PinAssumption == {Unreadable, NoPin} \cap Pins = {}
ASSUME TransactionAssumption == NoTransaction \notin Transactions
ASSUME FailureAssumption == MaxPrctlFailures \in Nat

VARIABLES
    options,             \* the command line; does not change
    phase,               \* "off", "running" or "exited"
    hardened,
    identifiable_depth,
    dumpable,            \* kernel: other processes may inspect this one
    failures,            \* bound
    faulty,              \* for the properties: the last function of harden.c to run failed
    portal,              \* external: certificate portal and p11-kit module are there
    file,                \* external: the PIN file
    adapter,             \* of each session: "unborn", "none", "portal", "pkcs11" or "released"
    pin,                 \* the buffer of the pkcs11 provider
    acquiring,           \* the transaction inside the portal provider's constructor
    answer,              \* for the properties: the last answer to a PIN request
    reader               \* for the properties: who the buffer was last filled for

protection == <<hardened, identifiable_depth, dumpable, failures, faulty>>
external == <<portal, file>>
buffer == <<pin, answer, reader>>
vars == <<options, phase, protection, external, adapter, buffer, acquiring>>

CommandLine == [name : {"auto", "portal", "pkcs11", "none", "other"},
                    cert_uri : {"absent", "pkcs11", "pin-value", "not-pkcs11"},
                    key_uri : {"absent", "given", "pin-value"},
                    pin_file : BOOLEAN, allow_core : BOOLEAN]
Adapters == {"none", "portal", "pkcs11"}

Init ==
    /\ options \in CommandLine
    /\ phase = "off"
    /\ hardened = FALSE /\ identifiable_depth = 0 /\ dumpable = TRUE /\ failures = 0 /\ faulty = FALSE
    /\ portal \in BOOLEAN
    /\ file \in Pins \cup {Unreadable}
    /\ adapter = [t \in Transactions |-> "unborn"]
    /\ pin = NoPin
    /\ acquiring = NoTransaction
    /\ answer = [t \in Transactions |-> "none"]
    /\ reader = NoTransaction

Idle == phase = "running" /\ acquiring = NoTransaction

-----------------------------------------------------------------------------
(* The kernel, the bus and the disk.                                        *)

SetDumpable(value) ==
    \/ dumpable' = value /\ faulty' = FALSE /\ UNCHANGED failures
    \/ /\ failures < MaxPrctlFailures
       /\ failures' = failures + 1
       /\ faulty' = TRUE
       /\ UNCHANGED dumpable
LeaveDumpable == faulty' = FALSE /\ UNCHANGED <<dumpable, failures>>

Outside ==
    /\ portal' \in BOOLEAN
    /\ file' \in Pins \cup {Unreadable}
    /\ UNCHANGED <<options, phase, protection, adapter, buffer, acquiring>>

-----------------------------------------------------------------------------
(* harden.c                                                                 *)

webauth_harden(allow_core) ==
    /\ IF allow_core THEN LeaveDumpable ELSE SetDumpable(FALSE)
    /\ hardened' = ~dumpable'
    /\ UNCHANGED identifiable_depth

webauth_harden_identifiable_begin ==
    /\ identifiable_depth' = identifiable_depth + 1
    /\ IF identifiable_depth = 0 /\ hardened
         THEN SetDumpable(TRUE) ELSE LeaveDumpable
    /\ UNCHANGED hardened

(* mutant: the interval stays counted when its last prctl call fails          *)
FailedEndKeepsDepth ==
    /\ identifiable_depth > 0
    /\ IF identifiable_depth = 1 /\ hardened
         THEN SetDumpable(FALSE) ELSE LeaveDumpable
    /\ identifiable_depth' = IF faulty' THEN identifiable_depth ELSE identifiable_depth - 1
    /\ UNCHANGED hardened

webauth_harden_identifiable_end ==
    /\ identifiable_depth > 0
    /\ identifiable_depth' = identifiable_depth - 1
    /\ IF identifiable_depth' = 0 /\ hardened
         THEN SetDumpable(FALSE) ELSE LeaveDumpable
    /\ UNCHANGED hardened

-----------------------------------------------------------------------------
(* tls/client_cert.c                                                        *)

webauth_cert_adapter_configure ==
    /\ options.name # "other"
    /\ options.cert_uri \in {"absent", "pkcs11"}
    /\ options.name = "pkcs11" => options.cert_uri # "absent"
    /\ options.key_uri # "pin-value"

portal_available == portal
pkcs11_available == options.cert_uri # "absent"

(* The provider a session takes for its whole life, from what is there when *)
(* it is created.                                                           *)
webauth_cert_adapter_select ==
    IF options.name \in {"portal", "auto"} /\ portal_available THEN "portal"
    ELSE IF options.name \in {"pkcs11", "auto"} /\ pkcs11_available THEN "pkcs11"
    ELSE "none"

-----------------------------------------------------------------------------
(* The process hardens itself before it reads its configuration.            *)
Launch ==
    /\ phase = "off"
    /\ webauth_harden(options.allow_core)
    /\ phase' = IF webauth_cert_adapter_configure THEN "running" ELSE "exited"
    /\ UNCHANGED <<options, external, adapter, buffer, acquiring>>

(* webauth_webkit_session_new; without a website store it fails before it   *)
(* chooses a provider.                                                      *)
NewSession(t) ==
    /\ Idle
    /\ adapter[t] = "unborn"
    /\ \E chosen \in {webauth_cert_adapter_select, "released"} :
         adapter' = [adapter EXCEPT ![t] = chosen]
    /\ UNCHANGED <<options, phase, protection, external, buffer, acquiring>>

(* Certificate challenge to a portal session.  The pkcs11 constructor       *)
(* leaves all of this state alone.                                          *)
portal_acquire(t) ==
    /\ Idle
    /\ adapter[t] = "portal"
    /\ webauth_harden_identifiable_begin
    /\ acquiring' = t
    /\ UNCHANGED <<options, phase, external, adapter, buffer>>

portal_acquired ==
    /\ acquiring # NoTransaction
    /\ webauth_harden_identifiable_end
    /\ acquiring' = NoTransaction
    /\ UNCHANGED <<options, phase, external, adapter, buffer>>

(* mutant: what could not be read is cached                                  *)
CachesFailure(t) ==
    IF pin # NoPin \/ ~options.pin_file
      THEN UNCHANGED <<pin, reader>>
      ELSE pin' = file /\ reader' = t

(* The PIN, read from the file unless the buffer holds one.                 *)
pkcs11_pin(t) ==
    IF pin # NoPin \/ ~options.pin_file \/ file = Unreadable
      THEN UNCHANGED <<pin, reader>>
      ELSE pin' = file /\ reader' = t

OnPinRequested(t) ==
    /\ Idle
    /\ adapter[t] \in Adapters
    /\ IF adapter[t] = "pkcs11" THEN pkcs11_pin(t) ELSE UNCHANGED <<pin, reader>>
    /\ answer' = [answer EXCEPT ![t] =
                    IF adapter[t] = "pkcs11" /\ pin' # NoPin THEN pin' ELSE "declined"]
    /\ UNCHANGED <<options, phase, protection, external, adapter, acquiring>>

(* mutant: what is released is the provider a new session would get          *)
SelectAnew(S) ==
    pin' = IF \E t \in S : adapter[t] \in Adapters /\ webauth_cert_adapter_select = "pkcs11"
             THEN NoPin ELSE pin

(* Any pkcs11 session wipes the buffer, whoever filled it.                  *)
Release(S) == pin' = IF \E t \in S : adapter[t] = "pkcs11" THEN NoPin ELSE pin

Teardown(S) ==
    /\ Release(S)
    /\ adapter' = [t \in Transactions |->
                     IF t \in S /\ adapter[t] \in Adapters THEN "released" ELSE adapter[t]]
    /\ UNCHANGED <<options, protection, external, answer, reader, acquiring>>

Finish(t) ==
    /\ Idle
    /\ adapter[t] \in Adapters
    /\ Teardown({t})
    /\ UNCHANGED phase

Shutdown ==
    /\ Idle
    /\ phase' = "exited"
    /\ Teardown(Transactions)

Next ==
    \/ Outside
    \/ Launch \/ portal_acquired \/ Shutdown
    \/ \E t \in Transactions : NewSession(t) \/ portal_acquire(t) \/ OnPinRequested(t) \/ Finish(t)

Spec == Init /\ [][Next]_vars

-----------------------------------------------------------------------------
(* Properties.                                                              *)

(* The variables keep their types.                                          *)
TypeOK ==
    /\ options \in CommandLine
    /\ phase \in {"off", "running", "exited"}
    /\ hardened \in BOOLEAN /\ dumpable \in BOOLEAN
    /\ identifiable_depth \in Nat
    /\ faulty \in BOOLEAN
    /\ failures \in 0 .. MaxPrctlFailures
    /\ portal \in BOOLEAN
    /\ file \in Pins \cup {Unreadable}
    /\ adapter \in [Transactions -> Adapters \cup {"unborn", "released"}]
    /\ pin \in Pins \cup {NoPin}
    /\ acquiring \in Transactions \cup {NoTransaction}
    /\ answer \in [Transactions -> Pins \cup {"none", "declined"}]
    /\ reader \in Transactions \cup {NoTransaction}

(* "wiped on release" (tls/client_cert_pkcs11.c:47): a PIN in memory        *)
(* belongs to the session that had it read, which is still open; another    *)
(* session's end may wipe it early, but nothing keeps it longer.            *)
PinHasALiveReader == pin # NoPin => reader \in Transactions /\ adapter[reader] = "pkcs11"

(* A hardened process is identifiable exactly during a portal constructor,  *)
(* except from a begin or an end whose prctl call failed to the next begin  *)
(* or end: however calls failed before, the next interval opens and closes  *)
(* as if they had not (harden.c counts an interval whether or not its calls *)
(* succeed).                                                                *)
IdentifiableOnlyWhileAcquiring ==
    hardened /\ ~faulty => (dumpable <=> acquiring # NoTransaction)

(* A constructor runs for an open portal session and holds the depth at 1.  *)
AcquiringIsCounted ==
    /\ identifiable_depth = IF acquiring = NoTransaction THEN 0 ELSE 1
    /\ acquiring # NoTransaction => phase = "running"

Inv == TypeOK /\ PinHasALiveReader /\ IdentifiableOnlyWhileAcquiring /\ AcquiringIsCounted

(* "That interval holds no PIN" (docs/SECURITY.md:244): while a hardened    *)
(* process is identifiable, no transaction's PIN is in its memory.          *)
IntervalHoldsNoPin == hardened /\ dumpable => pin = NoPin

(* "The PIN is cached for the transaction" (tls/client_cert_pkcs11.c:47): a *)
(* PIN that answered a transaction stays until that transaction is released. *)
PinHeldForTheTransaction ==
    \A t \in Transactions : adapter[t] = "pkcs11" /\ answer[t] \in Pins => pin = answer[t]
=============================================================================
